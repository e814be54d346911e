# Pulp operator: TLA+ models, model checking and proofs

pulp-operator is a Kubernetes operator. Three controllers, run by one manager
(`main.go`), each reconcile one custom resource: `Pulp` (an installation of
Pulp), `PulpBackup` and `PulpRestore`. None of them keeps state of its own: what
they know is what they read from the API server, mostly through a cache that may
be behind, and what they do may fail, conflict with another writer or be cut off
by a restart at any call. That is what these models are about.

## Inventory

| Part | State | Operations | Interacts with |
|---|---|---|---|
| Pulp reconciliation loop (`repo_manager/controller.go`, `controllers/utils.go`) | one copy of the resource per reconciliation | `Reconcile`: prechecks, secrets, groups of objects, status | API server, informer cache, workqueue, deployment controller, users |
| Status (`repo_manager/status.go`) | `.status.conditions`, `.status.*`, Finished | `UpdateStatus`, `setStatusFields`, `setStatusConditions` (one goroutine per Deployment) | shares the copy of the resource with the loop and between goroutines |
| Prechecks (`precheck.go`) | Finished condition | ten validations of `.spec` and of the Secrets it names | end the reconciliation, without a retry |
| Component controllers (`api.go`, `content.go`, `worker.go`, `web.go`, `database.go`, `redis.go`, `pvc.go`, `configmap.go`) | Deployments, Services, claims | create what is missing, update what differs, requeue | `createPulpResource`, `updateObject` |
| Secrets and settings (`secret.go`, `ldap.go`, `sso.go`, `configmap.go`) | names of Secrets in `.spec`, generated Secrets, `settings.py`, `last_deployment_update` | `UpdateCRField`, create, compare `settings.py`, hash of the CA ConfigMap, restart of pods | patches the resource under the loop's feet; pods only see a new `settings.py` when they are restarted |
| Deployment builders (`controllers/deployment.go`, `telemetry.go`) | – | volumes, mounts, variables, annotations, hash label | read Secrets a second time |
| Autoscaler, disruption budget, cache, telemetry objects (`hpa.go`, `pdb.go`, `redis.go`, `telemetry.go`) | the objects, `managed_cache_enabled` and `telemetry_enabled` in `.status` | create, update, remove | the autoscaler writes `replicas` of the Deployments the operator writes |
| Jobs (`job.go`) | Jobs, hash labels, fields of `.status` | migration, admin password, checksums, signing | `.status` and hash labels are the memory of what has been run |
| Ingress, route, web (`ingress.go`, `ocp/route.go`, `repo_manager/utils.go`) | ingress type and class in `.status`, Ingress, Route, pulp-web | `updateIngressType`, `updateIngressClass` | conditions of the parts that are removed |
| Backup (`controllers/backup`) | directory on a claim, `.status` of PulpBackup | one pass of eight steps | pod exec, running Pulp |
| Restore (`controllers/restore`) | restored objects, database, `/var/lib/pulp`, lock ConfigMap | one pass of eleven steps, retried from the start | pod exec, the Pulp controller that provisions what is being restored |
| RBAC, OpenShift, names, API types, `main.go` | – | build objects from `.spec` | – |

What is hard here: lost updates between goroutines and between controllers,
decisions taken on a stale cache, errors that nobody looks at, watch predicates
that filter the event that would have repaired the state, and retries from the
first step of something that is half done. `PROJECT.json` lists these hazards at
their lines.

What makes the parts correct: the loop deploys only what was checked, never goes
back and converges; Finished is honest; a restore does not let Pulp run on a
database without its data, reports success only when the data is there, and is
final; a published backup is complete, consistent and left alone; when the
operator comes to rest, the objects, and the pods that run, are what `.spec` and
the Secrets it names ask for, and it does come to rest.

## Modules

| Module | Models |
|---|---|
| `RepoManager` | the Pulp loop, its status goroutines, API server, cache, rollouts, users |
| `RepoManagerProofs` | theorems about it |
| `PulpRestore` | the restore controller and the cluster it restores to |
| `PulpRestoreProofs` | theorems about it |
| `PulpBackup` | the backup controller and the Pulp that runs meanwhile |
| `PulpBackupProofs` | theorems about it |
| `PulpIngress` | Routes, Ingresses and pulp-web, and the switch between them |
| `PulpIngressProofs` | theorems about it |
| `PulpJobs` | the Jobs and restarts a reconciliation triggers, and what is remembered of them |
| `PulpJobsProofs` | theorems about it |
| `PulpConfig` | prechecks, `settings.py`, CA ConfigMap and pod templates |
| `PulpConfigProofs` | theorems about it |
| `PulpWorkloads` | a Deployment and its hashes, autoscaler, disruption budget, Redis, telemetry objects |
| `PulpWorkloadsProofs` | theorems about it |
| `BackupStore` | what a backup promises to a reader; `PulpBackup` implements it |
| `MCRepoManager`, `MCPulpRestore`, `MCPulpBackup`, `MCPulpIngress`, `MCPulpJobs`, `MCPulpConfig`, `MCPulpWorkloads` | values of the constants for TLC |

`RepoManager` has the races of the loop (stale reads, goroutines, Finished) and
takes what is deployed as groups of objects. `PulpConfig`, `PulpWorkloads`,
`PulpIngress` and `PulpJobs` look into four parts of the same reconciliation, with
reads that are current, and leave the rest of it out. They share `.status` and the
order of `pulpCoreTasks`, but no object of one is written by another, which is why
they can be checked one by one; what they share, the copy of the resource and its
resourceVersion, is in each (`mem`, `fresh`).

### RepoManager

The resource is the record `Pulp`: the version of `.spec`, whether the names of the
secrets are filled in, the conditions, Finished, the fields of `.status` copied from
`.spec` (as the version they were copied from) and, on its own, the recorded
`ingress_type`. `cr` is what the API server stores, `cache` what `r.Get` returns,
`lag` the watch events in between, `mem` the copy of the reconciliation.
resourceVersions only matter as "still the current one", which is `fresh`. `dep`
has, for every group of objects, whether it is there, the version of `.spec` it was
built from or removed for last, whether the deployment controller has observed it
(`rolled`) and the readiness its status shows (`ready`); `isDeploymentReady` reads
only the latter, as the code does.

`pc` follows `Reconcile`: `idle`, `prechecks`, `stage` and `apply` (per group:
`MarkUpdating`, then `Apply`, then a requeue), `fields` (`setStatusFields`),
`check` (the goroutines of `setStatusConditions`), `finish` and `write`. A
goroutine takes three steps, because other goroutines get in between: it changes
the shared copy (`CheckReady`, `CheckUnready`), sends it with whatever the others
have written into it (`SendStatus`), and decodes the answer into it
(`DecodeResponse`). The data race on the copy is modelled at the granularity of
these three steps.

The groups, which conditions they report and which of them the status check
waits for are constants, so the theorems hold for all of api, content, worker,
web, database and cache, in any number. `SelfReady` holds the groups whose
controller sets its condition to True by itself (worker, database).

`WayIn` says which groups an `ingress_type` asks for; the others of these are
neither provisioned nor waited for. `updateIngressType` removes the groups of the
recorded type together with their conditions and stores the status, with Finished
as it is: the one update of conditions that does not go through `UpdateStatus`.
`updateIngressClass`, which does the same, a deletion whose error is dropped, and
spellings of a type are in `PulpIngress` only, where the objects are told apart.
An edit of the type that comes before `setStatusFields` has recorded the previous
one leaves its groups where they are (`Forgotten`, the exception in `Converges`).

### PulpRestore

`pc` follows `Reconcile` of the restore step by step. `Return(TRUE)` is an error:
the request is put back and the next run starts from the first step with nothing
remembered. The cluster is `restored` (Secrets and ConfigMap), `cr` (replicas and
`disable_migrations`, as `migrate`), `db` and `data`, `claim` and `dir`, `pod` and
`lock`. `Fault` is any failing call, timed-out wait, failing command or restart; the
code's treatment of each one (dropped, retried, taken for "not found", taken for "no
lock") is in the action. `Autoscaled` are the components with `hpa.enabled` in the
Pulp resource of the backup: the Pulp controller leaves the number of their replicas
to Kubernetes, whose default is one, and zero in `.spec` keeps none of their pods
from starting (`AsksForPods`). The database, the claim and concurrent writes of the
Pulp resource come from the environment: they are the Pulp controller's work.

### PulpBackup

`pc` follows `Reconcile` of the backup. `dirs` are the directories on the claim,
named by the time of their run: two runs never have the same second because the
readiness probe of the manager pod alone takes three. `status` and `mem` are the
stored and the local status, `fresh` says whether updates of `mem` are accepted.
`rows` and `blobs` are Pulp's artifacts in its database and in `/var/lib/pulp`;
pulpcore writes the file first and removes it last. The life of the manager pod
is folded into the steps that use it: a pod that is missing or not ready makes
their command fail. `gone` remembers which artifacts Pulp has deleted since the run
began: they are the only ones the dump may refer to without having their file.
`deployment_name` is assumed to be given (without it
`checkRequiredFields` ends the reconciliation at once).

`BackupStore` is the same seen from outside: the id and the content of the backup
that the status names, and BackupComplete. A new backup appears in one step
(`Publish`), complete and later than the last; nothing else changes what a reader
sees but BackupComplete. The refinement mapping takes the directory named in the
stored status for the id, and its files and dump for the content
(`Published`, `Store` in `PulpBackup`).

### PulpIngress

`obj` has the objects that make Pulp reachable, with what tells them apart: the
class of an Ingress and whether it points to pulp-web, the type of the pulp-web
Service. `pc` follows the end of `pulpCoreTasks`, from the choice of the
controller (`StartReconcile`) over `switch` and `store` (`updateIngressType`: the
deletions, then the update of `.status`), `routes` and `spawned`, `redirect`,
`ingress`, `web`, to `class` (`updateIngressClass`), `fields` and `check` (the
part of `pulpStatus` that concerns pulp-web). The goroutines of
`PulpRouteController` run beside it: `job` has the step of each, `late` those
whose reconciliation is over, with a copy of the resource of their own
(`lateFresh`). `Delete` may leave any of the objects when an error is dropped.
`unnoticed` is a history variable: the objects the operator lost track of, by a
dropped error, by an edit before `.status` told what they were made for, or because
a late goroutine made a Route when `.spec` did not ask for Routes or `.status` told
of something else. The properties exempt exactly these. The last of them came out of
the proof of `OneWayIn`: with three edits (routes, another type, routes, that type
again) a goroutine of the first reconciliation creates its Route after the switch,
while `.spec` asks for Routes and `.status` already tells of the other type, and
nothing removes it. `NginxOfClass` assumes that `is_nginx_ingress` is a property of
the class, as its documentation defines it. Classes are compared exactly;
`controller.go:261` ignores case, which is the same for the names Kubernetes allows
for an IngressClass, as they have no capitals.

### PulpJobs

`pc` follows `pulpCoreTasks` from the API Deployment to the checksum Job, one step
for each call: read of a Secret, creation of the Job, label, `.status`. A Secret is
a version of its data and the version its hash label was made of. Jobs are told
apart by what the operator asks of them, their image and whether they are active;
two that are alike are one element and end together. `made` and `missed` are
history variables: what Jobs were created for, and what was dropped (an error that
is only logged, migrations that are disabled, a settings migration passed over
because of an active Job, a Job of which `.status` does not tell). A migration Job
runs with the storage type and the settings of the copy it was built from, so that
is what `made` records; what `.status` says otherwise, because its update was
refused or only the storage type was recorded, is `Unrecorded` and counts as
dropped. (An earlier form recorded what `.status` said; the proof of `MigrationsRun`
showed that it lost track after more edits than the run makes.) `content`
stands for worker too. `last_deployment_update` is counted; the code has seconds,
so that two restarts within one second are one. The signing Job's own image is
left out.

### PulpConfig

`.spec` is the record `Fields`: which storages are set, which Secrets and ConfigMaps
are named, and the switches the prechecks and builders look at. `data` has the
contents of the objects of users: complete contents, `Short` (the key that is asked
for is missing) or `None`. `Overriding` and `Recased` are contents with a property
of their own: as `custom_pulp_settings` they define the keys that
`addCustomPulpSettings` looks for; as LDAP Secret they spell the key of the CA with
capital letters, which `ldapSettings` reads (it takes every key in either case) and
`checkLDAPCA` and `setLDAPConfigs` do not. `prechecks` is the conjunction of the ten
checks. `settings.py` (`server`) is a set of sections, each paired with what it was
made of, so that the text is left out and the question "is this what .spec asks for
now" is kept; sections are left out exactly where the code returns early
(`RetrieveSecretData`). `needsMigrationSetting` is a set of outcomes, one for each
order of a range over a Go map. A template (`dep`) has the volumes, mounts,
variables and, of the `last_deployment_update` annotation, whether it is the time in
`.status` (`current`, which `restartPulpCorePods` takes from all of them; a restart
within the same second as the last gives the same time in the code, and is not told
apart from it); `Accepted` is the part of the API server's validation that can go
wrong here. `pods` has the `settings.py` that the running pods started with: they
mount it by `subPath` and do not see it change.

`pc` follows `Reconcile`: `check` (CA bundle on OpenShift, prechecks), `database`
(its Secret), `secrets` (one Secret per reconciliation, then the comparison of
`settings.py`), `restart`, `ca`, and the three Deployments. `lost` is a history
variable: a restart is due and not recorded, because the operator stopped, or the
update of `.status` was refused, after `settings.py` or the label of the CA
ConfigMap was written; `ConfigCurrent` and `CAFound` exempt it. `Restless` are the
three states of `.spec` in which every reconciliation asks for another one for
ever, which `Settles` exempts.

### PulpWorkloads

One pulpcore Deployment and what comes and goes with `.spec`. `Mutated` is what the
API server makes of a Deployment (default values); hashes are the hashed value
itself. `CheckDeploymentSpec` has the three outcomes of its two dry runs: both
answered, the first not, both not. The dry run brings the resourceVersion of the
Deployment it saw (`want.saw`), so that an update of a Deployment that was changed
since is refused. The autoscaler (`Scale`) and users (`Drift`) write the same
objects. `managed_cache_enabled` and `telemetry_enabled` are `st` of the resource;
the removals compare them with `.spec`, and their dropped errors leave any of the
objects. `reconcileHPA` leaves an autoscaler that is no longer wanted when it cannot
be read (`repo_manager/hpa.go:62-73` drops the error), and asks for no other
attempt: `WorkloadsCurrent` allows for it after a fault. A Deployment created while
its dry run fails has the hash of what was built.

## Runs

Passing runs:

| Run | Shows |
|---|---|
| `rm_safety` | stale reads, five versions of `.spec` (one invalid, one unmanaged, one with a Route instead of pulp-web), a fault: only checked versions are deployed, none goes back, a condition with a new status clears Finished, and in the end the last version is deployed and finished |
| `rm_synced` | current reads, three groups, defaulted secrets, a fault: Finished is honest, and nothing goes back |
| `restore_safety` | four faults, two concurrent writes, one component autoscaled: data before migrations and before the service of what is not autoscaled, success means data, each item that is missing in the end cost a call that failed, the lock is final even when it cannot be read; and the restore ends unless something fails once `pg_restore` has run, or before anything was restored |
| `backup_safety` | two faults anywhere, an edit, stale reads, Pulp storing, deleting and cleaning up: what the status names is complete, is left alone by later runs, its dump has its files, in the end a complete backup is written, and all of it implements `BackupStore` |
| `ingress` | two edits of type and class at any moment, a fault or restart: in the end one way in, as `.spec` says; a type is forgotten only after its objects are gone; the reconciliations end |
| `jobs` | two edits of `.spec` or Secrets, a fault or restart, Jobs that end and expire: nothing that is due is forgotten unless an error was dropped, all pods get the signing key, and no Job triggers itself |
| `config` | eight kinds of `.spec` on OpenShift or not, edits of it and of the objects it names at any moment, a fault or restart: in the end `settings.py`, templates and pods are current unless a restart was lost; what the prechecks let through is accepted; the LDAP CA is where `settings.py` looks for it if its key is in small letters; the reconciliations end, three cases apart |
| `workloads` | three edits by `.spec` or by hand, two scalings, two faults: in the end Deployment, autoscaler and budget are as `.spec` says (a failed call may leave an autoscaler) and pods find the Redis and telemetry objects they use; `.status` forgets them only when they are gone; the autoscaler's work is not undone; the reconciliations end |

Runs in which TLC finds that the code does not do what its comments or docs say
(`findings` in `PROJECT.json` has the lines):

| Run | Shows |
|---|---|
| `rm_lost_update` | two goroutines share the copy, one's False is lost, Finished is reported |
| `restore_replicas` | a retry forgets the replicas and scales to zero |
| `restore_retry` | an error after `pg_restore` repeats the restore forever |
| `config_migrate` | the loop over a Go map ends at the first setting that is false, so that one that is true may be missing in `settings.py` |

### Other divergences met while modelling

The model has them; no run is spent on them, because reading the lines is enough.

- `controllers/utils.go:829`: the answer of the patch in `UpdateCRField` replaces
  the reconciliation's copy, `.spec` included. An edit to `unmanaged: true`, or to
  a `.spec` the prechecks reject, between `r.Get` and the patch is deployed by the
  running reconciliation (`controller.go:85`: "if Unmanaged the operator should do
  nothing"). This is why `rm_safety` and two theorems assume `SecretsNamed`.
- `repo_manager/status.go:126`: the gate and the second read before the write of
  Finished both come from the informer cache and may be of different age: Finished
  is then reported next to a False (`status.go:125`: "requeue until all deployments
  get READY"). With current reads it is not (`rm_synced`, and a theorem).
- `backup/controller.go:403`: a retry that starts from a stale copy completes the
  backup but has all of its status updates refused: BackupComplete stays False,
  which `docs/admin/guides/backup_and_restore` waits for.
- `restore/utils.go:261`: every retry reads `backupDirectory` again. It always
  reads a whole backup (`ImplementsStore`), but items that the run before restored
  are kept: when the backup was run again meanwhile, they are of the older one.
- `repo_manager/utils.go:210`, `controllers/utils.go:852`: a switch away from
  nodeport removes `Pulp-Web-Ready` and stores the status with Finished still True;
  `UpdateStatus` (`controllers/utils.go:427`) would have cleared it
  (`updateIngressType` in `RepoManager`; `FlipClearsFinished` is about a condition
  that gets a new status, and a removal is none).
- `restore/deploy.go:61`: the Pulp resource is restored with zero replicas, but for
  a component with `hpa.enabled` they are not looked at (`deployment.go:152`;
  `docs/user/guides/hpa_guide.md:152`: "When HPA is enabled, the `replicas` field is
  ignored"): its pods start before `pg_restore` has run (`Autoscaled`, the exception
  in `NoServiceBeforeData`).
- `restore/controller.go:80`: the restore stops only if the lock was read; after an
  error of the read it runs once more on the live installation
  (`restore/controller.go:77`: "if lock configmap is found it means that the restore
  already ran, so the controller should stop execution"). It creates items that are
  missing, RestoreComplete goes back to False, and `pg_restore` ends it, since it
  refuses what exists (`LockProtects`). Rows it may add to tables that were emptied
  meanwhile are not modelled: `data` is about the restored contents as a whole.
- `repo_manager/ldap.go:59`: keys of the LDAP Secret are taken in either case, but
  `precheck.go:275` and `deployment.go:1210` look for `auth_ldap_ca_file` only. With
  `AUTH_LDAP_CA_FILE` and no `.spec.ldap.ca` the prechecks pass and `settings.py`
  names a CA that is not mounted (`Recased`, the exception in `CAFound`).
- `repo_manager/secret.go:624`: with a setting that needs a migration set to true,
  `settings.py` changes from one reconciliation to the next with the order of the
  map, also when both are true, and each change restarts the pods (`Restless`).
- `repo_manager/hpa.go:62`: an autoscaler that cannot be read while it is to be
  removed is left, without another attempt.
- `restore/secret.go:44`: the structs a Secret is parsed into know a fixed set of
  keys; others are dropped on the way through the backup. Not modelled.
- `backup/utils.go:82`: directories of failed and repeated runs are never removed.
- `repo_manager/precheck.go:266`: an LDAP CA without an LDAP configuration passes;
  the template then has a mount without a path, is refused by the API server, and
  built again for ever (the exception in `PrechecksSuffice`; `Restless`).
- `repo_manager/configmap.go:38`: a CA ConfigMap that does not exist counts as
  changed in every reconciliation: the pods are restarted again and again
  (`Restless`).
- `repo_manager/utils.go:432`: the error of the update that records a restart is
  dropped: pods keep the old `settings.py` until something else restarts them
  (`lost`).
- `repo_manager/worker.go:41`: when the probe's ConfigMap cannot be created, a nil
  result is dereferenced; the operator restarts (`Crash`).
- `repo_manager/redis.go:406`: "or in case of a new definition with an external
  Redis instance" is not what `managedCacheDisabled` does: with an external cache
  Redis is left. So is it, and so are the telemetry objects, when `.spec` changes
  before `.status` records them.
- `controllers/utils.go:485`: next to an autoscaler every update of a Deployment
  for another reason resets `replicas` to 1, the API server's default.
- `restore/deploy.go:101`: `isNginxIngress` is negated, so an ingress that is not
  nginx, which needs pulp-web, leaves it at zero replicas (`deploy.go:81`: "it will
  deploy 1 replica for each component"). `Scaled` follows the code.
- `restore/pulp_dir.go:30`: `cp -fa <backup>/pulp/ /var/lib/pulp` with an existing
  target puts the files in `/var/lib/pulp/pulp`; `dir` becomes `"nested"`.
- `restore/utils.go:26`: with a claim of the user's own (`.spec.pvc`) there is no
  `<name>-file-storage`, and `/var/lib/pulp` is passed over (`SkipDir`). So it is when
  the claim cannot be read: success is then reported without the files.
- `restore/secret.go:175`: any error of `test -f` counts as a missing file, and an
  optional Secret of the backup is passed over (`SkipItem`).
- `repo_manager/controller.go:234`: the type in `.status` is compared with its
  spelling, and a type `none` is recorded too; `updateIngressType` knows neither
  `nodeport` to `NodePort` nor a change from `none`, and requeues forever
  (`Unknown` in `PulpIngress`; `pulp_types.go:102` allows all of them).
- `repo_manager/controller.go:232`: type and class are recorded only after their
  objects are there; an edit before leaves the old objects (`Remembered`).
- `ocp/route.go:191`: `len` of a channel without buffer is always 0, so the errors
  of the route goroutines are lost, and they stay blocked in their send.
- `repo_manager/status.go:126`: a `Pulp-Web-Ready` that was left at False by a
  pulp-web the operator lost track of keeps the gate closed (`HeldByWeb`).
- `controllers/utils.go:773`: an existing pulp-web Service is never compared while
  `node_port` is 0.
- `repo_manager/web.go:339`: nodeport with `loadbalancer_protocol: https` and a
  `node_port` indexes an empty slice. Not modelled.
- A flip of `is_nginx_ingress` alone leaves pulp-web or its absence as they were;
  `NginxOfClass` rules it out.
- `repo_manager/utils.go:456`, `job.go:230`: the storage type or setting is recorded
  before the migration Job is created, and a failing Create is only logged: the
  migration is not made up for (`migrationJobFails`).
- `repo_manager/utils.go:471`: any active Job counts as a running migration, and the
  migration for a changed setting is passed over for good.
- `repo_manager/utils.go:446`: an image that came with `disable_migrations` is not
  migrated when they are enabled again.
- `repo_manager/job.go:75`: label and `.status` are written although the Job could
  not be created (`docs/admin/guides/configurations/reset_admin_pwd.md:61`: "Any
  modification in `admin_password_secret` `Secret` will override Pulp admin
  password").
- `repo_manager/utils.go:432`: when the update with the new
  `last_deployment_update` is refused, the label of the key is written all the
  same, and the pods keep the old key.

### Bounds

Two Deployments are enough for every race of goroutines the properties speak of (one
answer overwriting one write); `rm_synced` adds a group that the gate does not wait
for. Two versions make an edit race with a reconciliation; five let a valid one
follow an invalid and an unmanaged one, then take pulp-web away and bring it back.
`MaxLag` = 2 gives the gate and the second read different ages. One fault suffices
for each ignored error; the restore has four because its runs fail one after the
other. Its backup has one component autoscaled and three that are not. `MaxLag` also
bounds how far the API server runs ahead, which only delays writers. In the backup
one artifact goes through its whole life (file, row, row deleted, file cleaned up),
which is what the race between dump and copy needs, since artifacts do not depend on
each other; the proof covers any number. `MaxRuns` is one more than the faults and
edits that start a run, so no run is cut off by the bound: a run that Pulp itself
makes fail uses up a fault as well. In `ingress` and `jobs` two edits give a third
value of `.spec` while the first is still being worked off, or a change and its
return; one fault covers each dropped error. The values of `.spec` include every
type (nodeport in two spellings), all three kinds of ingress controller, and in
`jobs` every field that triggers something, alone or together with others. One Route
is enough, since goroutines for different Routes only share the condition. A route
goroutine outlives its reconciliation by the next one at most. In `config` the eight
values of `.spec` have between them each kind of storage, external and own services,
signing, SSO, LDAP with and without a CA and a CA without LDAP, a setting that needs
a migration, custom settings, a CA of the installation, IPv6 on and off, and two
values that the prechecks refuse, one of them only outside OpenShift; three contents
let a Secret change, of which one overrides, as `custom_pulp_settings`, and one has
the key of the LDAP CA in capital letters. All objects begin with the same contents.
The edits of `config` change a Secret between the two reads that are made of it, or
change it and `.spec`. In `workloads` three edits switch a feature on and off and on
again, or off while it is being deployed; two replicas are enough to tell `.spec`,
the autoscaler and the default apart.

`CHECK_DEADLOCK FALSE` stands in the configurations of backup, restore, ingress,
jobs, config and workloads: they stop for good when there is nothing left to do.

### Fairness

The workqueue runs what it holds, the watch delivers and Kubernetes finishes its
rollouts: weak fairness of `Reconcile`, `Deliver` and `Rollout`, and of `Resync`,
the informers' periodic resync, which controller-runtime performs every ten hours.
The resync is what repairs a reconciliation that ended on stale data. In the restore
and the backup, fairness of `Reconcile` and of the Pulp controller that provisions
the database and names its Secrets. In `ingress`, fairness of `Reconcile`, of the
goroutines and of pulp-web becoming ready; in `jobs`, `config` and `workloads`, of
the reconciliation only. Nothing is assumed about users, faults and restarts.

## Proofs

TLAPS proves, for every value of the constants that satisfies their assumptions:

- `TypeCorrect`: `TypeOK` is inductive.
- `ConditionFlipClearsFinished`: the copy from which a condition with a new status
  may be stored never has Finished True. The inductive invariant says of every copy
  that carries the current version (the shared one, and the answers in flight) that
  it has Finished True only if its conditions are the stored ones. The removal of
  conditions by `updateIngressType` is a step of the specification; it keeps the
  invariant because the copy is dropped after it.
- `FinishedHonestWhenSynced`: without stale reads Finished is never next to a
  False. The invariant follows the copy from the gate to the write: if it is still
  fresh at `write`, its conditions are those that passed the gate.
- `DeployedVersionsGrow`: an object is never newer than the copy that overwrites
  it. With stale reads this needs the order cache <= events in flight <= stored.
- `DeployedVersionsChecked`: past the prechecks the copy's `.spec` is a checked
  one. It needs `SecretsNamed`, because the answer of a patch replaces the copy
  (see the divergences above).
- `DataBeforeService`, `SuccessMeansData`, `LockIsFinal` and `RestoreTypeCorrect`:
  one invariant for the restore relates the step to what has been done by then
  (past `db` the data is there, past `update` the Pulp resource is scaled up, the
  lock only comes after both). While there is a lock the data is there, the Pulp
  resource exists, and a restore that went on regardless is not past `pg_restore`,
  which refuses what exists: that is why none of its later steps changes anything.
  `DataBeforeService` leaves out the pods of autoscaled components.
- `BackupTypeCorrect`: counts the runs (a run started is paid for by a fault or an
  edit, or still queued), so that `time` stays within the directories there are.
- `PublishedIsComplete`: past file n, every file in use before n is in the
  directory of the run, and a directory that a copy of the status names is complete.
- `PublishedIsFinal`: the directory named is never the one being written, because a
  run names its directory only after its last write.
- `DumpIsCovered`: every row had its file when it was dumped; from then on the file
  is copied, still to be come by, or gone. It needs that Pulp writes the file
  before the row and removes it after.
- `BackupIsStore`: the step simulation from `PulpBackup` to `BackupStore`. It rests
  on the invariants of the theorems above (the directory a copy of the status names
  is complete and no longer written) and on one of its own, `Later`: the copy of
  the status that a run works with never names an older directory than the stored
  one, so that no update goes back.
- `IngressTypeCorrect`: `TypeOK` of `PulpIngress` is inductive.
- `RemovedBeforeForgotten`: as long as its updates would be accepted, the copy of
  the reconciliation has the stored type, except between the deletions and the
  update, when the objects of the stored type are gone and no Route can come back
  unnoticed (`Kept`).
- `OneWayKept`: `OneWayIn` for any Routes, classes, edits, faults and restarts. The
  inductive invariant `WayInv` says that `.status` tells enough (`Told`): an object
  that was not lost track of belongs to the recorded type (to that of `.spec` while
  none is recorded), pulp-web and the redirection are there only for a class that
  needs them, the recorded one or that of `.spec`, and the Service has the type
  that goes with it, which is why it may be left uncompared. A copy that is about
  to be stored tells as much, since the deletions come first. `Past` says what a
  reconciliation has brought in order at each step unless another is queued.
  `NginxOfClass` is needed: the recorded class stands for `is_nginx_ingress` too.
- `JobTypeCorrect`, `MigrationsNotLost`, `SecretsNotLost`, `KeysReachPods`: from one
  invariant, `JobInv` (`JobsRemembered`). What `.status` records of image, storage
  type, settings and checksums, and what a hash label says of a Secret, is true of
  the Jobs created or was dropped; within a reconciliation it may run ahead by the
  one Job or restart that is the next step; and while no request is queued, what
  the steps so far have dealt with is still that of `.spec` and of the Secrets. Once
  the key's label fits, pods that started with another key carry an earlier
  `last_deployment_update` than the recorded one, so that they are due for a restart.
- `ConfigTypeCorrect`, `PrechecksEnough`: the second needs no invariant beyond the
  types; it is a case analysis of which builders add which volume, mount and
  variable, for every value of `.spec`. `ContentsArePaths` (a complete LDAP Secret
  names a path) is an assumption on the contents.
- `ConfigKept`, `CAWhereExpected` (for contents outside `Recased`): `ConfigInv`.
  Unless a request is queued the copy is current (`CopyInv`), past `secrets` the
  stored `settings.py` is one that `.spec` asks for (`SettingsInv`), past its step a
  Deployment has the template of the copy (`TemplateInv`), and pods of a Deployment
  with the latest annotation run with the stored `settings.py` unless a restart was
  lost (`PodsInv`).
- `FaultsBoundHidden`: `HideInv` counts along the pass over the items: of those
  passed so far, no more are missing than calls have failed, and the credentials of
  the database are not among them.
- `WorkloadTypeCorrect`: `TypeOK` of `PulpWorkloads` needs `WriteInv`, that what is
  about to be written carries a hash of what was built from the copy.
- `AutoscalerKept`: with `WriteInv`, an update whose dry run was answered follows a
  comparison that found the Deployment it overwrites different; if it had the same
  template and label, the hashes, which leave replicas out, would be equal.
- `ForgottenWhenGone`: `RecordInv` says that as long as its updates would be
  accepted, the copy has forgotten only what is gone, and that at `status` nothing
  is left to remove.
- `RestsCurrent` (an autoscaler that is not wanted may be left after a fault) and
  `RestsServed`: `CurrentInv` says, step by step, what the
  reconciliation has brought in order by then (`CacheDone`, `DepDone`, `PdbDone`,
  `HpaDone`) and that it stays so unless a request is queued. A comparison with the
  hash of what was built, the one left when both dry runs fail, never finds the
  Deployment unchanged, because what is stored has the defaults filled in.

TLC checked each of these inductive invariants on the constants of the runs before
it was proved; `WayInv` also with three edits.

Only model-checked: `Converges`, `Completes`, `EndsUnlessLate`, `Written` and the
four `Settles` (liveness under fairness is out of reach of the prover), and the
violations. Every invariant and every other action property of a passing run is
proved.

## Not modelled

What the builders copy from `.spec` to the objects without looking at it (probes,
affinity, tolerations, resources, labels), the StatefulSet of the database, RBAC,
the pull secret on OpenShift, random keys and passwords, names and labels, generated
code, and `main.go`: they have no state and no choice of their own. Leader election
and the rate limiter of the workqueue belong to controller-runtime; one instance of
the operator and one worker per controller are assumed, as `main.go` sets them up. A
resource that is deleted while it is reconciled, and several PulpBackup or
PulpRestore resources in one namespace, are left out. In `PulpJobs` and
`PulpIngress` an update of `.status` is refused only as a conflict, which an edit
causes; `RepoManager`, `PulpConfig` and `PulpWorkloads` have the other failures too.
Of the reads only those of the Pulp resource (`RepoManager`) and of the status of a
backup may be stale.

## Plan

1. What the operators of `PulpConfig` and `PulpWorkloads` promise as lemmas of
   their own (`CheckDeploymentSpec`, `pulpServerSecret`).
2. Migrations before pods of a new image are reported ready: `PulpJobs` with the
   init containers that wait for them.
3. An abstract specification of the loop (a desired version, deployed versions, a
   report) that `RepoManager` implements.
