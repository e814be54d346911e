----------------------------- MODULE PulpConfig -----------------------------
(***************************************************************************)
(* How a Pulp resource, and the Secrets and ConfigMaps it names, become     *)
(* the configuration of the pulpcore pods: the checks made before anything  *)
(* is deployed, the Secret with settings.py, the ConfigMap of the trusted   *)
(* CA, and the pod templates of api, content and worker.                    *)
(*                                                                          *)
(* Pods mount settings.py by subPath: they keep what it was when they       *)
(* started, and only a new template starts new ones.  settings.py is a set  *)
(* of sections, each with the contents it was made of; a template is the    *)
(* volumes, mounts and variables that depend on the resource.               *)
(*                                                                          *)
(* Reads return the current objects; stale ones are the subject of          *)
(* RepoManager.                                                             *)
(***************************************************************************)
EXTENDS Naturals, FiniteSets

CONSTANTS
  Contents,    \* complete contents of the Secrets and ConfigMaps of users
  Originals,   \* those they have to begin with
  Overriding,  \* those that, as custom_pulp_settings, define the keys the code looks for
  Recased,     \* those that, as the LDAP Secret, do not spell auth_ldap_ca_file in small letters
  Specs,       \* the values that users give to the fields of .spec
  Installed,   \* those a new installation begins with
  MaxEdits,    \* changes of .spec, of Secrets and of ConfigMaps
  MaxFaults    \* calls that fail, and restarts

None  == "none"     \* there is no such object
Short == "short"    \* the object lacks the key that is asked for

ObjectStorages == {"azure", "gcs", "s3"}
FileStorages   == {"class", "pvc"}
Migrating      == {"REDIRECT_TO_OBJECT_STORAGE", "HIDE_GUARDED_DISTRIBUTIONS"}
Core           == {"api", "content", "worker"}

(* Secrets and ConfigMaps of users, by the field that names them.           *)
Given == ObjectStorages \cup {"sso", "db", "cache", "ldap", "ldapCA", "scripts", "key", "custom", "ca"}

(* Secrets the operator creates, in the order of createSecrets, where       *)
(* settings.py comes second.                                                *)
Generated == <<"django", "fields", "admin", "token">>

(* store, dbStore, cacheStore: the storage fields that are set; size: the   *)
(* size and access mode of file storage; ingress: pulp-web is deployed for  *)
(* "web" and for an Ingress class other than nginx; same: image_version and *)
(* image_web_version agree, or need not; host: ingress class and host are   *)
(* set; sums: the checksums are none, valid or not; named: the other        *)
(* Secrets and ConfigMaps of Given that are named; trustCA:                 *)
(* mount_trusted_ca; migrate: the settings of Migrating that are true.      *)
Fields == [store : SUBSET (ObjectStorages \cup FileStorages), size : BOOLEAN,
           dbStore : SUBSET FileStorages, cacheStore : SUBSET FileStorages,
           ingress : {"web", "nginx", "ingress", "route"}, same : BOOLEAN, host : BOOLEAN,
           sums : {"none", "valid", "invalid"}, cached : BOOLEAN, debug : BOOLEAN,
           named : SUBSET (Given \ ObjectStorages), trustCA : BOOLEAN, ipv6 : BOOLEAN,
           otel : BOOLEAN, migrate : SUBSET Migrating]

ASSUME ConfigConstants ==
  /\ Specs \subseteq Fields /\ Installed \subseteq Specs
  /\ {None, Short} \cap Contents = {} /\ Originals \subseteq Contents
  /\ Overriding \subseteq Contents /\ Recased \subseteq Contents
  /\ MaxEdits \in Nat /\ MaxFaults \in Nat

VARIABLES
  pc,         \* the step the reconciliation is at
  queue,      \* the workqueue holds a request
  openshift,  \* the kind of cluster, which never changes
  cr,         \* .spec of the Pulp resource
  mem,        \* the reconciliation's copy of it
  fresh,      \* that copy carries the current resourceVersion
  data,       \* the contents of the objects of Given
  made,       \* the generated Secrets and ConfigMaps there are
  server,     \* settings.py, with a record of what it was made of
  label,      \* the contents the hash label of the CA ConfigMap was made of
  dep,        \* the template of each Deployment, and whether it has the newest restart
  pods,       \* the settings.py that the pods of each started with
  lost,       \* a restart was due and is not recorded in .status
  edits, faults

objects == <<data, made, server, label>>
loads   == <<dep, pods>>
counts  == <<edits, faults>>
vars    == <<pc, queue, openshift, cr, mem, fresh, data, made, server, label, dep, pods, lost, edits, faults>>

Fault      == faults < MaxFaults /\ faults' = faults + 1 /\ UNCHANGED edits
Return(q)  == pc' = "idle" /\ queue' = (queue \/ q)
Goto(step) == pc' = step /\ UNCHANGED queue
Resource   == <<openshift, cr, mem, fresh>>

Names(s) == s.named \cup (s.store \cap ObjectStorages)

-----------------------------------------------------------------------------
(* Prechecks, in the order they are made.  Those that fail end the          *)
(* reconciliation without an error: it is not repeated.                     *)
checkImageVersion(s)      == s.ingress \in {"web", "ingress"} => s.same
checkIngressDefinition(s) == s.ingress \in {"nginx", "ingress"} => s.host

(* MultiStorageConfigured: more than one type is refused; the database may  *)
(* have none if it is external, the cache always.                           *)
checkStorageDefinitions(s) ==
  /\ Cardinality(s.store) = 1
  /\ Cardinality(s.cacheStore) <= 1
  /\ Cardinality(s.dbStore) <= 1 /\ (s.dbStore = {} => "db" \in s.named)

checkRouteNotOCP(s) == s.ingress = "route" => openshift

checkSecretsAvailable(s) ==
  \A o \in Names(s) \cap (ObjectStorages \cup {"sso", "db", "cache", "ldap", "ldapCA"}) : data[o] # None

checkFileStorage(s) == s.size <=> "class" \in s.store

checkAllowedContentChecksums(s) == s.sums # "invalid"

(* A complete LDAP Secret says where the CA is mounted, in a key that is    *)
(* found here and in setLDAPConfigs in small letters only.                  *)
caDefined == data["ldap"] \in Contents \ Recased

anyLDAP(s) == TRUE    \* mutant: the CA is not checked

checkLDAPCA(s) == "ldap" \in s.named => (caDefined <=> "ldapCA" \in s.named)

checkSigningScripts(s) == "scripts" \in s.named <=> "key" \in s.named
checkCAConfigmap(s)    == s.trustCA => openshift \/ "ca" \in s.named

prechecks(s) ==
  /\ checkImageVersion(s) /\ checkIngressDefinition(s) /\ checkStorageDefinitions(s)
  /\ checkRouteNotOCP(s) /\ checkSecretsAvailable(s) /\ checkFileStorage(s)
  /\ checkAllowedContentChecksums(s) /\ checkLDAPCA(s) /\ checkSigningScripts(s)
  /\ checkCAConfigmap(s)

-----------------------------------------------------------------------------
(* settings.py.  A section is left out, without an error, when the Secret   *)
(* it is made of cannot be read or lacks a key.                             *)
RetrieveSecretData(section, o) ==
  IF data[o] \in Contents THEN {<<section, data[o]>>} ELSE {}

(* A custom_pulp_settings ConfigMap that defines the keys of a section      *)
(* keeps the operator from writing it.                                      *)
addCustomPulpSettings(s) ==
  IF "custom" \in s.named /\ data["custom"] # None THEN {<<"CUSTOM", data["custom"]>>} ELSE {}

Custom(s) == "custom" \in s.named /\ data["custom"] \in Overriding

debugLogging(s) == IF s.debug THEN {<<"LOGGING", "DEBUG">>} ELSE {}

databaseSettings(s) ==
  CASE Custom(s) -> {}
    [] "db" \in s.named -> RetrieveSecretData("DATABASES", "db")
    [] OTHER -> IF "postgres" \in made THEN {<<"DATABASES", "own">>} ELSE {}

(* Without the Secret the values are empty, but CACHE_ENABLED is there.     *)
cacheSettings(s) ==
  CASE ~s.cached -> {}
    [] s.cached /\ "cache" \in s.named -> {<<"CACHE", IF data["cache"] \in Contents THEN data["cache"] ELSE Short>>}
    [] OTHER -> {<<"CACHE", "own">>}

(* azureSettings, gcsSettings and s3Settings.                               *)
storageSettings(s) ==
  IF Custom(s) THEN {} ELSE UNION {RetrieveSecretData("STORAGES", o) : o \in s.store \cap ObjectStorages}

ssoConfig(s)         == IF "sso" \in s.named THEN RetrieveSecretData("SSO", "sso") ELSE {}
tokenSettings(s)     == IF Custom(s) THEN {} ELSE {<<"TOKEN_SERVER", s.ingress>>}
secretKeySettings(s) == IF Custom(s) \/ "django" \notin made THEN {} ELSE {<<"SECRET_KEY", "own">>}
allowedContentChecksumsSettings(s) ==
  IF Custom(s) \/ s.sums = "none" THEN {} ELSE {<<"ALLOWED_CONTENT_CHECKSUMS", s.sums>>}

(* Every key that begins with AUTH_LDAP_, in letters of either case, is     *)
(* written in capital letters; without the one of the CA (Short) the others *)
(* still are.                                                               *)
ldapSettings(s) == IF "ldap" \in s.named /\ data["ldap"] # None THEN {<<"LDAP", data["ldap"]>>} ELSE {}

(* The loop takes the settings in any order and ends at the first that is   *)
(* false: what is written is the part before that, in that order.           *)
Orders == {p \in [1..Cardinality(Migrating) -> Migrating] : \A i, j \in DOMAIN p : p[i] = p[j] => i = j}

needsMigrationSetting(s) ==
  IF Custom(s) THEN {<<>>} ELSE
  {[i \in {i \in DOMAIN p : \A j \in 1..i : p[j] \in s.migrate} |-> p[i]] : p \in Orders}

Sections(s) ==
  addCustomPulpSettings(s) \cup debugLogging(s) \cup databaseSettings(s) \cup cacheSettings(s)
    \cup storageSettings(s) \cup ssoConfig(s) \cup tokenSettings(s) \cup secretKeySettings(s)
    \cup allowedContentChecksumsSettings(s) \cup ldapSettings(s)

pulpServerSecret(s) == [sections : {Sections(s)}, migrate : needsMigrationSetting(s)]

NoSettings == [sections |-> {}, migrate |-> <<>>]

-----------------------------------------------------------------------------
(* The pod templates.                                                       *)
FileStorage(s) == s.store \cap FileStorages # {}
Signing(s)     == "key" \in s.named

(* signingMetadataVolumes: an error of Get is dropped, and leaves a Secret  *)
(* without scripts.                                                         *)
Scripts(s) == IF Signing(s) /\ data["scripts"] \in Contents THEN {data["scripts"]} ELSE {}

SetCAVolumes(s) == IF s.trustCA THEN {"ca"} ELSE {}

setVolumes(c, s) ==
  {"server", "fields"}
    \cup (IF c = "worker" THEN {"ansible"} ELSE {})
    \cup (IF c = "worker" /\ ~s.ipv6 THEN {"probe"} ELSE {})
    \cup (IF c = "api" THEN {"admin", "token"} ELSE {})
    \cup (IF FileStorage(s) THEN {"file"} ELSE {})
    \cup (IF Signing(s) THEN {"key", "scripts"} ELSE {})
    \cup (IF Signing(s) /\ ~FileStorage(s) THEN {"gpg"} ELSE {})
    \cup SetCAVolumes(s)
    \cup (IF "ldapCA" \in s.named THEN {"ldapCA"} ELSE {})
    \cup (IF c = "api" /\ s.otel THEN {"otel"} ELSE {})

Mount(volume, path) == [volume |-> volume, path |-> path]

(* setLDAPConfigs: the CA is mounted where the LDAP Secret says, read once  *)
(* more; without that key the path is empty.                                *)
NoPath == "no path"
ASSUME ContentsArePaths == NoPath \notin Contents
fixedPath(s) ==    \* mutant: the CA is always mounted at the same place
  IF "ldapCA" \in s.named THEN {Mount("ldapCA", "ca.crt")} ELSE {}
setLDAPConfigs(s) ==
  IF "ldapCA" \notin s.named THEN {}
  ELSE {Mount("ldapCA", IF "ldap" \in s.named /\ caDefined THEN data["ldap"] ELSE NoPath)}

SetCAVolumeMounts(s) == IF s.trustCA THEN {Mount("ca", "/etc/pki")} ELSE {}

setVolumeMounts(c, s) ==
  {Mount("server", "settings.py"), Mount("fields", "fields.key")}
    \cup (IF c = "worker" THEN {Mount("ansible", "/.ansible/tmp")} ELSE {})
    \cup (IF c = "worker" /\ ~s.ipv6 THEN {Mount("probe", "wait_on_postgres.py")} ELSE {})
    \cup (IF c = "api" THEN {Mount("admin", "password"), Mount("token", "token.pem")} ELSE {})
    \cup (IF FileStorage(s) THEN {Mount("file", "/var/lib/pulp")} ELSE {})
    \cup (IF Signing(s) /\ ~FileStorage(s) THEN {Mount("gpg", "/var/lib/pulp/.gnupg")} ELSE {})
    \cup {Mount("scripts", script) : script \in Scripts(s)}
    \cup SetCAVolumeMounts(s)

(* The mounts of the init containers: settings, and the keyring of gpg.     *)
setInitContainerVolumeMounts(s) ==
  {Mount("server", "settings.py"), Mount("fields", "fields.key")}
    \cup (IF FileStorage(s) THEN {Mount("file", "/var/lib/pulp")} ELSE {})

setGpgInitContainer(s) ==
  IF ~Signing(s) THEN {}
  ELSE {Mount("key", "signing_service.gpg"),
        IF FileStorage(s) THEN Mount("file", "/var/lib/pulp") ELSE Mount("gpg", "/var/lib/pulp/.gnupg")}

telemetryConfig(c, s) == IF c = "api" /\ s.otel THEN {Mount("otel", "config.yaml")} ELSE {}

(* Where the variables of the containers come from.  An error while the     *)
(* fingerprint is read is dropped, and leaves it empty.                     *)
GetPostgresEnvVars(s) == {<<"POSTGRES", IF "db" \in s.named THEN "db" ELSE "own">>}

GetSigningKeyFingerprint == IF data["key"] \in Contents THEN data["key"] ELSE Short

setEnvVars(s) ==
  GetPostgresEnvVars(s)
    \cup (IF s.cached THEN {<<"REDIS", IF "cache" \in s.named THEN "cache" ELSE "own">>} ELSE {})
    \cup (IF Signing(s) THEN {<<"FINGERPRINT", GetSigningKeyFingerprint>>} ELSE {})

(* setAnnotations: the last_deployment_update of .status is an annotation   *)
(* of the pods, and a new time starts new ones.  Times are only compared    *)
(* with the one in .status, so the model keeps, of every template, that     *)
(* comparison and not the time.                                             *)
template(c, s) ==
  [volumes |-> setVolumes(c, s),
   mounts  |-> setVolumeMounts(c, s) \cup setLDAPConfigs(s),
   init    |-> setInitContainerVolumeMounts(s) \cup setGpgInitContainer(s) \cup telemetryConfig(c, s),
   env     |-> setEnvVars(s),
   current |-> TRUE]

NoTemplate == [none |-> 0]

(* What the API server asks of a template: every mount has a path, and a    *)
(* volume.                                                                  *)
Accepted(t) == \A m \in t.mounts \cup t.init : m.volume \in t.volumes /\ m.path # NoPath

-----------------------------------------------------------------------------
(* The reconciliation.                                                      *)
NoCopy == [no |-> "copy"]
End(q) == Return(q) /\ mem' = NoCopy /\ fresh' = FALSE /\ UNCHANGED <<openshift, cr>>

StartReconcile ==
  /\ pc = "idle" /\ queue /\ queue' = FALSE /\ pc' = "check"
  /\ mem' = cr /\ fresh' = TRUE
  /\ UNCHANGED <<openshift, cr, objects, loads, lost, counts>>

(* injectCertificates: a ConfigMap for OpenShift to fill in comes first.    *)
CreateEmptyConfigMap ==
  /\ pc = "check" /\ openshift /\ mem.trustCA /\ "bundle" \notin made
  /\ made' = made \cup {"bundle"}
  /\ End(TRUE)
  /\ UNCHANGED <<data, server, label, loads, lost, counts>>

Check ==
  /\ pc = "check" /\ (openshift /\ mem.trustCA => "bundle" \in made)
  /\ IF prechecks(mem) THEN Goto("database") /\ UNCHANGED Resource ELSE End(FALSE)
  /\ UNCHANGED <<objects, loads, lost, counts>>

(* databaseController, as far as settings.py needs it: its Secret.          *)
CreateDatabaseSecret ==
  /\ pc = "database"
  /\ IF "db" \in mem.named \/ "postgres" \in made
     THEN Goto("secrets") /\ UNCHANGED <<Resource, made>>
     ELSE made' = made \cup {"postgres"} /\ End(TRUE)
  /\ UNCHANGED <<data, server, label, loads, lost, counts>>

(* createSecrets creates one Secret per reconciliation: those before it in  *)
(* the order are there.                                                     *)
CreateSecret(i) ==
  /\ pc = "secrets" /\ Generated[i] \notin made
  /\ \A j \in 1..(i - 1) : Generated[j] \in made
  /\ i > 1 => server # NoSettings
  /\ made' = made \cup {Generated[i]}
  /\ End(TRUE)
  /\ UNCHANGED <<data, server, label, loads, lost, counts>>

CreateServerSecret ==
  /\ pc = "secrets" /\ Generated[1] \in made /\ server = NoSettings
  /\ server' \in pulpServerSecret(mem)
  /\ End(TRUE)
  /\ UNCHANGED <<data, made, label, loads, lost, counts>>

(* ReconcileObject: settings.py is compared with what it should be, and     *)
(* written; the pods are restarted whether or not it could be written.      *)
Written ==
  pc = "secrets" /\ server # NoSettings /\ \A i \in DOMAIN Generated : Generated[i] \in made

keepSettings ==    \* mutant: the restart is left out
  /\ Written
  /\ \E new \in pulpServerSecret(mem) :
       /\ server' = new
       /\ IF new = server THEN Goto("ca") /\ UNCHANGED Resource ELSE End(TRUE)
  /\ UNCHANGED <<data, made, label, loads, lost, counts>>

ReconcileSettings ==
  /\ Written
  /\ \E new \in pulpServerSecret(mem) :
       /\ server' = new
       /\ Goto(IF new = server THEN "ca" ELSE "restart")
       /\ lost' = (lost \/ new # server)
  /\ UNCHANGED <<Resource, data, made, label, loads, counts>>

ReconcileSettingsFails ==
  /\ Written /\ server \notin pulpServerSecret(mem)
  /\ Fault /\ Goto("restart")
  /\ UNCHANGED <<Resource, objects, loads, lost>>

(* caConfigMapChanged: the label is updated, and an error is only logged.   *)
(* A ConfigMap that is not there can not be updated, and always differs.    *)
caConfigMapChanged == label # data["ca"] \/ data["ca"] = None

nameHashed ==    \* mutant: the label is made of the name of the ConfigMap
  /\ pc = "ca"
  /\ IF "ca" \in mem.named /\ caConfigMapChanged
     THEN Goto("restart") /\ lost' = TRUE /\ label' = "ca"
     ELSE Goto("api") /\ UNCHANGED <<lost, label>>
  /\ UNCHANGED <<Resource, data, made, server, loads, counts>>

labelNotKept ==    \* mutant: the hash is not written to the label
  /\ pc = "ca"
  /\ Goto(IF "ca" \in mem.named /\ caConfigMapChanged THEN "restart" ELSE "api")
  /\ lost' = (lost \/ ("ca" \in mem.named /\ caConfigMapChanged))
  /\ UNCHANGED <<label, Resource, data, made, server, loads, counts>>

configMapTasks ==
  /\ pc = "ca"
  /\ IF "ca" \in mem.named /\ caConfigMapChanged
     THEN /\ Goto("restart") /\ lost' = TRUE
          /\ \/ label' = data["ca"] /\ UNCHANGED counts
             \/ UNCHANGED label /\ data["ca"] # None /\ Fault
     ELSE Goto("api") /\ UNCHANGED <<lost, label, counts>>
  /\ UNCHANGED <<Resource, data, made, server, loads>>

(* restartPulpCorePods records the time, and drops the error of the update. *)
(* With a new time in .status no template has the current one.              *)
Outdated(t) == IF t = NoTemplate THEN t ELSE [t EXCEPT !.current = FALSE]

restartPulpCorePods ==
  /\ pc = "restart"
  /\ \/ /\ fresh /\ lost' = FALSE /\ UNCHANGED counts
        /\ dep' = [c \in Core |-> Outdated(dep[c])]
     \/ /\ ~fresh /\ UNCHANGED <<lost, dep, counts>>
     \/ /\ fresh /\ Fault /\ UNCHANGED <<lost, dep>>
  /\ End(TRUE)
  /\ UNCHANGED <<objects, pods>>

(* A Deployment is created, or written if its template differs; new pods    *)
(* start with the settings.py there is.  createProbeConfigMap comes before  *)
(* the Deployment of the workers.                                           *)
After(c) == CASE c = "api" -> "content" [] c = "content" -> "worker" [] OTHER -> "end"

createProbeConfigMap ==
  /\ pc = "worker" /\ ~mem.ipv6 /\ "probe" \notin made
  /\ made' = made \cup {"probe"}
  /\ End(TRUE)
  /\ UNCHANGED <<data, server, label, loads, lost, counts>>

Provision(c) ==
  LET t == template(c, mem) IN
  /\ pc = c /\ (c = "worker" /\ ~mem.ipv6 => "probe" \in made)
  /\ IF dep[c] = t THEN Goto(After(c)) /\ UNCHANGED <<Resource, loads>>
     ELSE /\ End(TRUE)
          /\ IF Accepted(t)
             THEN /\ dep' = [dep EXCEPT ![c] = t]
                  /\ pods' = [pods EXCEPT ![c] = server]
             ELSE UNCHANGED loads
  /\ UNCHANGED <<objects, lost, counts>>

ProvisionFails(c) ==
  /\ pc = c /\ dep[c] # template(c, mem)
  /\ Fault /\ End(TRUE)
  /\ UNCHANGED <<objects, loads, lost>>

Finish ==
  /\ pc = "end" /\ End(FALSE)
  /\ UNCHANGED <<objects, loads, lost, counts>>

Crash ==
  /\ pc # "idle" /\ Fault /\ End(TRUE)
  /\ UNCHANGED <<objects, loads, lost>>

-----------------------------------------------------------------------------
(* Users change the resource, and what it names; both are watched.          *)
Edit == edits < MaxEdits /\ edits' = edits + 1 /\ UNCHANGED faults

EditSpec(s) ==
  /\ Edit /\ s # cr
  /\ cr' = s
  /\ queue' = TRUE /\ fresh' = FALSE
  /\ UNCHANGED <<pc, openshift, mem, objects, loads, lost>>

EditObject(o, new) ==
  /\ Edit /\ new # data[o] /\ o \in Names(cr)
  /\ data' = [data EXCEPT ![o] = new]
  /\ label' = IF o = "ca" /\ data[o] = None THEN None ELSE label
  /\ queue' = TRUE
  /\ UNCHANGED <<pc, Resource, made, server, loads, lost>>

Init ==
  /\ pc = "idle" /\ queue = TRUE /\ openshift \in BOOLEAN
  /\ cr \in Installed /\ mem = NoCopy /\ fresh = FALSE
  /\ data \in [Given -> Originals]
  /\ made = {} /\ server = NoSettings /\ label = None
  /\ dep = [c \in Core |-> NoTemplate]
  /\ pods = [c \in Core |-> NoSettings]
  /\ lost = FALSE /\ edits = 0 /\ faults = 0

Operator ==
  \/ StartReconcile \/ CreateEmptyConfigMap \/ Check \/ CreateDatabaseSecret
  \/ \E i \in DOMAIN Generated : CreateSecret(i)
  \/ CreateServerSecret \/ ReconcileSettings \/ configMapTasks \/ restartPulpCorePods
  \/ createProbeConfigMap \/ \E c \in Core : Provision(c)
  \/ Finish

Next ==
  \/ Operator
  \/ ReconcileSettingsFails \/ (\E c \in Core : ProvisionFails(c)) \/ Crash
  \/ \E s \in Specs : EditSpec(s)
  \/ \E o \in Given : \E new \in Contents \cup {None, Short} : EditObject(o, new)

Spec     == Init /\ [][Next]_vars
FairSpec == Spec /\ WF_vars(Operator)

-----------------------------------------------------------------------------
Steps == {"idle", "check", "database", "secrets", "restart", "ca", "end"} \cup Core
Made  == {Generated[i] : i \in DOMAIN Generated} \cup {"postgres", "bundle", "probe"}

(* Types of all variables.                                                  *)
TypeOK ==
  /\ pc \in Steps /\ {queue, openshift, fresh, lost} \subseteq BOOLEAN
  /\ cr \in Specs /\ (IF pc = "idle" THEN mem = NoCopy ELSE mem \in Specs)
  /\ data \in [Given -> Contents \cup {None, Short}] /\ made \subseteq Made
  /\ label \in Contents \cup {None, Short}
  /\ edits \in 0..MaxEdits /\ faults \in 0..MaxFaults

AtRest == pc = "idle" /\ ~queue /\ prechecks(cr)

(* When there is nothing left to do, settings.py and the templates are what *)
(* .spec and the objects it names ask for now, and the pods run with that   *)
(* settings.py: unless a restart was lost, because the operator stopped or  *)
(* .status could not be updated after settings.py was written               *)
(* (createSecrets, restartPulpCorePods).                                    *)
ConfigCurrent ==
  AtRest =>
    /\ server \in pulpServerSecret(cr)
    /\ \A c \in Core :
         /\ dep[c] = template(c, cr)
         /\ ~lost => pods[c] = server

(* What passes the prechecks can be deployed: the API server does not       *)
(* refuse a template, which would be built and refused again for ever.      *)
(* checkLDAPCA lets one resource through for which this is not so: with a   *)
(* CA, and without the LDAP configuration that says where to mount it.      *)
PrechecksSuffice ==
  prechecks(cr) /\ ("ldapCA" \in cr.named => "ldap" \in cr.named) =>
    \A c \in Core : Accepted(template(c, cr))

(* settings.py and the mount of the LDAP CA are made from two reads of one  *)
(* Secret, in two steps: when there is nothing left to do, the CA is where  *)
(* the settings the pods run with look for it.  The exception is a Secret   *)
(* that names it in a key with capital letters: ldapSettings writes that    *)
(* key, but checkLDAPCA and setLDAPConfigs do not know it, and nothing is   *)
(* mounted.                                                                 *)
CAFound ==
  AtRest /\ ~lost => \A c \in Core, v \in Contents \ Recased :
    <<"LDAP", v>> \in pods[c].sections => Mount("ldapCA", v) \in dep[c].mounts

(* What no reconciliation can bring to an end: a CA ConfigMap that is       *)
(* missing counts as a change in each of them; settings that need a         *)
(* migration are written in another order, or not at all, from one to the   *)
(* next; an LDAP CA without LDAP makes a template that is refused.          *)
Restless ==
  \/ "ca" \in cr.named /\ data["ca"] = None
  \/ cr.migrate # {} /\ ~Custom(cr)
  \/ "ldapCA" \in cr.named /\ "ldap" \notin cr.named

(* Once nobody changes anything, the reconciliations end, whatever errors   *)
(* and restarts there were; except for the three cases of Restless.         *)
Settles == <>[](pc = "idle" /\ ~queue) \/ <>[]Restless

(* The settings that are true in .spec are in settings.py, as the comments  *)
(* of the fields redirect_to_object_storage and hide_guarded_distributions  *)
(* promise.                                                                 *)
MigrateWritten ==
  AtRest /\ ~Custom(cr) => {server.migrate[i] : i \in DOMAIN server.migrate} = cr.migrate

=============================================================================
