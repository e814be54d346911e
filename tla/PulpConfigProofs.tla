-------------------------- MODULE PulpConfigProofs --------------------------
(***************************************************************************)
(* The configuration of the pods is the one that .spec and the objects it   *)
(* names ask for, whatever they contain and however often they change.      *)
(***************************************************************************)
EXTENDS PulpConfig, TLAPS

-----------------------------------------------------------------------------
(* Types.                                                                   *)
LocalOK == /\ pc \in Steps /\ queue \in BOOLEAN /\ openshift \in BOOLEAN /\ fresh \in BOOLEAN /\ lost \in BOOLEAN
CopyOK  == cr \in Specs /\ IF pc = "idle" THEN mem = NoCopy ELSE mem \in Specs
ObjectOK == data \in [Given -> Contents \cup {None, Short}] /\ made \subseteq Made
            /\ label \in Contents \cup {None, Short}
CountOK == edits \in 0..MaxEdits /\ faults \in 0..MaxFaults
LoadOK  == dep = [c \in Core |-> dep[c]] /\ pods = [c \in Core |-> pods[c]]
ConfigTypes == LocalOK /\ CopyOK /\ ObjectOK /\ CountOK /\ LoadOK

-----------------------------------------------------------------------------
(* The inductive invariant.  As long as nothing is queued, the copy is the  *)
(* resource itself.                                                         *)
CopyInv == (fresh => mem = cr) /\ (pc # "idle" /\ ~queue => fresh)

(* Steps after those for settings.py and for each Deployment.               *)
AfterWorker   == {"end"}
AfterContent  == {"worker"} \cup AfterWorker
AfterApi      == {"content"} \cup AfterContent
AfterSettings == {"ca", "api"} \cup AfterApi

(* Nothing came in since: what the steps of S did still holds.              *)
Still(S) == ~queue /\ (pc \in S \/ (pc = "idle" /\ prechecks(cr)))

SettingsInv == Still(AfterSettings) => server \in pulpServerSecret(cr)

TemplateInv ==
  /\ Still(AfterApi) => dep["api"] = template("api", cr)
  /\ Still(AfterContent) => dep["content"] = template("content", cr)
  /\ Still(AfterWorker) => dep["worker"] = template("worker", cr)

(* Pods of the current restart have the current settings.py.                *)
PodsInv ==
  /\ server # NoSettings \/ \A c \in Core : dep[c] = NoTemplate
  /\ pc \in AfterSettings => server # NoSettings
  /\ \A c \in Core : lost \/ dep[c] = NoTemplate \/ ~dep[c].current \/ pods[c] = server
  /\ \A c \in Core : dep[c] = NoTemplate \/ "current" \in DOMAIN dep[c]

ConfigInv == CopyInv /\ SettingsInv /\ TemplateInv /\ PodsInv

-----------------------------------------------------------------------------
(* Type correctness.                                                        *)
LEMMA TypeParts == ConfigTypes => TypeOK
  BY DEF ConfigTypes, TypeOK, LocalOK, CopyOK, ObjectOK, CountOK

(* The step goes on, or ends the reconciliation.                            *)
LEMMA GotoTypes ==
  ASSUME LocalOK, CopyOK, NEW s \in Steps \ {"idle"}, Goto(s), UNCHANGED Resource, pc # "idle", lost' \in BOOLEAN
  PROVE  LocalOK' /\ CopyOK'
  BY DEF LocalOK, CopyOK, Goto, Resource

LEMMA EndTypes ==
  ASSUME LocalOK, CopyOK, NEW q \in BOOLEAN, End(q), lost' \in BOOLEAN
  PROVE  LocalOK' /\ CopyOK'
  BY DEF LocalOK, CopyOK, End, Return, Steps

LEMMA CountStep == ASSUME CountOK, Fault \/ Edit \/ UNCHANGED counts PROVE CountOK'
  BY ConfigConstants DEF CountOK, Fault, Edit, counts

LEMMA MadeStep ==
  ASSUME ObjectOK, NEW x \in Made, made' = made \cup {x}, UNCHANGED <<data, label>>
  PROVE  ObjectOK'
  BY DEF ObjectOK

LEMMA GeneratedNames == \A i \in DOMAIN Generated : Generated[i] \in Made
  BY DEF Made

LEMMA AfterSteps == \A c \in Core : After(c) \in Steps \ {"idle"} /\ c \in Steps \ {"idle"}
  BY DEF After, Core, Steps

LEMMA TypeStep ==
  ASSUME ConfigTypes, [Next]_vars
  PROVE  ConfigTypes'
<1>t. LocalOK /\ CopyOK /\ ObjectOK /\ CountOK /\ LoadOK
  BY DEF ConfigTypes
<1> SUFFICES LocalOK' /\ CopyOK' /\ ObjectOK' /\ CountOK' /\ LoadOK'
  BY DEF ConfigTypes
<1>b. lost \in BOOLEAN /\ TRUE \in BOOLEAN /\ FALSE \in BOOLEAN
  BY <1>t DEF LocalOK
<1>e. lost' = lost /\ (End(TRUE) \/ End(FALSE)) => LocalOK' /\ CopyOK'
  BY <1>t, <1>b, EndTypes
<1>o. UNCHANGED <<data, made, label>> => ObjectOK'
  BY <1>t DEF ObjectOK
<1>c. Fault \/ Edit \/ UNCHANGED counts => CountOK'
  BY <1>t, CountStep
<1>l. UNCHANGED loads => LoadOK'
  BY <1>t DEF LoadOK, loads
<1>g. ASSUME NEW s \in Steps \ {"idle"}, Goto(s), UNCHANGED Resource, pc # "idle", lost' = lost
      PROVE  LocalOK' /\ CopyOK'
  BY <1>g, <1>t, <1>b, GotoTypes
<1>m. made' \in {made \cup {x} : x \in Made} /\ UNCHANGED <<data, label>> => ObjectOK'
  BY <1>t, MadeStep
<1>s. {"check", "database", "secrets", "restart", "ca", "end"} \cup Core \subseteq Steps \ {"idle"}
  BY DEF Steps, Core
<1>n. {"bundle", "postgres", "probe"} \subseteq Made
  BY DEF Made
<1>1. CASE StartReconcile
  <2>1. LocalOK' /\ CopyOK'
    BY <1>1, <1>t DEF StartReconcile, LocalOK, CopyOK, Steps
  <2> QED BY <1>1, <2>1, <1>o, <1>c, <1>l DEF StartReconcile, objects
<1>2. CASE CreateEmptyConfigMap
  BY <1>2, <1>e, <1>m, <1>n, <1>c, <1>l DEF CreateEmptyConfigMap
<1>3. CASE Check
  <2>1. (Goto("database") /\ UNCHANGED Resource) \/ End(FALSE)
    BY <1>3 DEF Check
  <2>2. LocalOK' /\ CopyOK'
    BY <1>3, <2>1, <1>e, <1>g, <1>s DEF Check
  <2> QED BY <1>3, <2>2, <1>o, <1>c, <1>l DEF Check, objects
<1>4. CASE CreateDatabaseSecret
  <2>1. \/ Goto("secrets") /\ UNCHANGED <<Resource, made>>
        \/ made' = made \cup {"postgres"} /\ End(TRUE)
    BY <1>4 DEF CreateDatabaseSecret
  <2>2. LocalOK' /\ CopyOK'
    BY <1>4, <2>1, <1>e, <1>g, <1>s DEF CreateDatabaseSecret
  <2>3. ObjectOK'
    BY <1>4, <2>1, <1>o, <1>m, <1>n DEF CreateDatabaseSecret
  <2> QED BY <1>4, <2>2, <2>3, <1>c, <1>l DEF CreateDatabaseSecret
<1>5. ASSUME NEW i \in DOMAIN Generated, CreateSecret(i)
      PROVE  LocalOK' /\ CopyOK' /\ ObjectOK' /\ CountOK' /\ LoadOK'
  BY <1>5, <1>e, <1>m, <1>c, <1>l, GeneratedNames DEF CreateSecret
<1>6. CASE CreateServerSecret
  BY <1>6, <1>e, <1>o, <1>c, <1>l DEF CreateServerSecret
<1>7. CASE ReconcileSettings
  <2>1. PICK new : Goto(IF new = server THEN "ca" ELSE "restart") /\ lost' = (lost \/ new # server)
    BY <1>7 DEF ReconcileSettings
  <2>2. lost' \in BOOLEAN /\ UNCHANGED Resource /\ pc # "idle" /\ (Goto("ca") \/ Goto("restart"))
    BY <1>7, <2>1 DEF ReconcileSettings, Written
  <2>3. LocalOK' /\ CopyOK'
    BY <2>2, <1>t, <1>s, GotoTypes
  <2> QED BY <1>7, <2>3, <1>o, <1>c, <1>l DEF ReconcileSettings
<1>8. CASE configMapTasks
  <2>1. UNCHANGED Resource /\ pc # "idle" /\ (Goto("restart") \/ Goto("api"))
    BY <1>8 DEF configMapTasks
  <2>2. lost' \in BOOLEAN /\ label' \in {label, data["ca"]} /\ (Fault \/ UNCHANGED counts)
    BY <1>8, <1>b DEF configMapTasks
  <2>3. data["ca"] \in Contents \cup {None, Short}
    BY <1>t DEF ObjectOK, Given
  <2>4. ObjectOK'
    BY <1>8, <2>2, <2>3, <1>t DEF configMapTasks, ObjectOK
  <2>5. "api" \in Core
    BY DEF Core
  <2>6. LocalOK' /\ CopyOK'
    BY <2>1, <2>2, <2>5, <1>t, <1>s, GotoTypes
  <2> QED BY <1>8, <2>2, <2>4, <2>6, <1>c, <1>l DEF configMapTasks
<1>9. CASE restartPulpCorePods
  <2>1. lost' \in BOOLEAN /\ (Fault \/ UNCHANGED counts) /\ End(TRUE)
    BY <1>9, <1>b DEF restartPulpCorePods
  <2>2. LocalOK' /\ CopyOK'
    BY <2>1, <1>b, <1>t, EndTypes
  <2>3. LoadOK'
    BY <1>9, <1>t DEF restartPulpCorePods, LoadOK
  <2> QED BY <1>9, <2>1, <2>2, <2>3, <1>o, <1>c DEF restartPulpCorePods, objects
<1>10. CASE createProbeConfigMap
  BY <1>10, <1>e, <1>m, <1>n, <1>c, <1>l DEF createProbeConfigMap
<1>11. ASSUME NEW k \in Core, Provision(k)
       PROVE  LocalOK' /\ CopyOK' /\ ObjectOK' /\ CountOK' /\ LoadOK'
  <2>1. pc = k /\ lost' = lost /\ UNCHANGED objects /\ UNCHANGED counts
    BY <1>11 DEF Provision
  <2>2. pc # "idle"
    BY <2>1, AfterSteps
  <2>3. (Goto(After(k)) /\ UNCHANGED <<Resource, loads>>) \/ End(TRUE)
    BY <1>11 DEF Provision
  <2>4. LocalOK' /\ CopyOK'
    <3>1. After(k) \in Steps \ {"idle"}
      BY AfterSteps
    <3> HIDE DEF After
    <3> QED BY <2>1, <2>2, <2>3, <3>1, <1>e, <1>g
  <2>5. LoadOK'
    <3>1. UNCHANGED loads \/ (dep' = [dep EXCEPT ![k] = template(k, mem)] /\ pods' = [pods EXCEPT ![k] = server])
      BY <1>11 DEF Provision
    <3> QED BY <3>1, <1>l, <1>t DEF LoadOK
  <2> QED BY <2>1, <2>4, <2>5, <1>o, <1>c DEF objects
<1>12. CASE Finish \/ Crash
  BY <1>12, <1>e, <1>o, <1>c, <1>l DEF Finish, Crash, objects
<1>13. CASE ReconcileSettingsFails
  BY <1>13, <1>g, <1>s, <1>o, <1>c, <1>l DEF ReconcileSettingsFails, Written, objects
<1>14. ASSUME NEW k \in Core, ProvisionFails(k)
       PROVE  LocalOK' /\ CopyOK' /\ ObjectOK' /\ CountOK' /\ LoadOK'
  BY <1>14, <1>e, <1>o, <1>c, <1>l DEF ProvisionFails, objects
<1>15. ASSUME NEW s \in Specs, EditSpec(s)
       PROVE  LocalOK' /\ CopyOK' /\ ObjectOK' /\ CountOK' /\ LoadOK'
  <2>1. cr' \in Specs
    BY <1>15 DEF EditSpec
  <2>2. LocalOK' /\ CopyOK'
    BY <1>15, <2>1, <1>t DEF EditSpec, LocalOK, CopyOK
  <2> QED BY <1>15, <2>2, <1>o, <1>c, <1>l DEF EditSpec, objects
<1>16. ASSUME NEW o \in Given, NEW new \in Contents \cup {None, Short}, EditObject(o, new)
       PROVE  LocalOK' /\ CopyOK' /\ ObjectOK' /\ CountOK' /\ LoadOK'
  <2>1. ObjectOK'
    BY <1>16, <1>t DEF EditObject, ObjectOK
  <2>2. LocalOK' /\ CopyOK'
    BY <1>16, <1>t DEF EditObject, LocalOK, CopyOK, Resource
  <2> QED BY <1>16, <2>1, <2>2, <1>c, <1>l DEF EditObject
<1>17. CASE UNCHANGED vars
  BY <1>17, <1>t DEF vars, LocalOK, CopyOK, ObjectOK, CountOK, LoadOK
<1> QED
  BY <1>1, <1>2, <1>3, <1>4, <1>5, <1>6, <1>7, <1>8, <1>9, <1>10, <1>11, <1>12, <1>13, <1>14, <1>15, <1>16, <1>17
     DEF Next, Operator

LEMMA TypeInit == Init => ConfigTypes
<1> SUFFICES ASSUME Init PROVE ConfigTypes
  OBVIOUS
<1>4. cr \in Specs
  BY ConfigConstants DEF Init
<1>1. LocalOK /\ CopyOK
  BY <1>4 DEF Init, LocalOK, CopyOK, Steps
<1>2. ObjectOK /\ CountOK
  BY ConfigConstants DEF Init, ObjectOK, CountOK
<1>3. LoadOK
  BY DEF Init, LoadOK
<1> QED BY <1>1, <1>2, <1>3 DEF ConfigTypes

LEMMA ConfigTypesHold == Spec => []ConfigTypes
<1>1. ConfigTypes /\ [Next]_vars => ConfigTypes'
  BY TypeStep
<1> QED BY <1>1, TypeInit, PTL DEF Spec

(* Variables have their types: a reconciliation works on a complete copy of *)
(* the resource, and what it reads of users' objects is complete, short of  *)
(* a key or missing.                                                        *)
THEOREM ConfigTypeCorrect == Spec => []TypeOK
  BY ConfigTypesHold, TypeParts, PTL

-----------------------------------------------------------------------------
(* What the operators read: the resource, users' objects and the kind of    *)
(* cluster; settings.py also the generated Secrets.                         *)
LEMMA PrechecksFrame ==
  ASSUME UNCHANGED <<openshift, data>>, cr' = cr
  PROVE  prechecks(cr)' = prechecks(cr)
  BY DEF prechecks, checkImageVersion, checkIngressDefinition, checkStorageDefinitions, checkRouteNotOCP,
         checkSecretsAvailable, checkFileStorage, checkAllowedContentChecksums, checkLDAPCA, caDefined,
         checkSigningScripts, checkCAConfigmap

LEMMA SettingsFrame ==
  ASSUME UNCHANGED <<data, made>>, cr' = cr
  PROVE  pulpServerSecret(cr)' = pulpServerSecret(cr)
  BY DEF pulpServerSecret, Sections, addCustomPulpSettings, debugLogging, databaseSettings, cacheSettings,
         storageSettings, ssoConfig, tokenSettings, secretKeySettings, allowedContentChecksumsSettings, ldapSettings,
         RetrieveSecretData, Custom, needsMigrationSetting

LEMMA TemplateFrame ==
  ASSUME UNCHANGED <<data, cr>>, NEW c
  PROVE  template(c, cr)' = template(c, cr)
  BY DEF template, setVolumes, setVolumeMounts, setLDAPConfigs, caDefined, setInitContainerVolumeMounts,
         setGpgInitContainer, telemetryConfig, setEnvVars, GetPostgresEnvVars, GetSigningKeyFingerprint, Scripts,
         SetCAVolumes, SetCAVolumeMounts, Signing, FileStorage

(* settings.py is never empty.                                              *)
LEMMA SettingsThere ==
  ASSUME NEW s, NEW t \in pulpServerSecret(s)
  PROVE  t # NoSettings
<1>1. Sections(s) # {}
  <2>1. CASE Custom(s)
    BY <2>1, ConfigConstants DEF Custom, Sections, addCustomPulpSettings
  <2>2. CASE ~Custom(s)
    BY <2>2 DEF Sections, tokenSettings
  <2> QED BY <2>1, <2>2
<1>2. t.sections = Sections(s)
  BY DEF pulpServerSecret
<1> QED BY <1>1, <1>2 DEF NoSettings

LEMMA TemplateThere ==
  \A c, s : template(c, s) # NoTemplate /\ template(c, s).current /\ "current" \in DOMAIN template(c, s)
  BY DEF template, NoTemplate

-----------------------------------------------------------------------------
(* Prechecks.                                                               *)
LEMMA MountFields == \A v, p : Mount(v, p).volume = v /\ Mount(v, p).path = p
  BY DEF Mount

LEMMA Volumes ==
  ASSUME NEW c, NEW s
  PROVE  /\ "server" \in setVolumes(c, s) /\ "fields" \in setVolumes(c, s)
         /\ c = "worker" => "ansible" \in setVolumes(c, s)
         /\ c = "worker" /\ ~s.ipv6 => "probe" \in setVolumes(c, s)
         /\ c = "api" => "admin" \in setVolumes(c, s) /\ "token" \in setVolumes(c, s)
         /\ FileStorage(s) => "file" \in setVolumes(c, s)
         /\ Signing(s) => "key" \in setVolumes(c, s) /\ "scripts" \in setVolumes(c, s)
         /\ Signing(s) /\ ~FileStorage(s) => "gpg" \in setVolumes(c, s)
         /\ s.trustCA => "ca" \in setVolumes(c, s)
         /\ "ldapCA" \in s.named => "ldapCA" \in setVolumes(c, s)
         /\ c = "api" /\ s.otel => "otel" \in setVolumes(c, s)
  BY DEF setVolumes, SetCAVolumes

Paths == {"settings.py", "fields.key", "/.ansible/tmp", "wait_on_postgres.py", "password", "token.pem",
          "/var/lib/pulp", "/var/lib/pulp/.gnupg", "/etc/pki", "signing_service.gpg", "config.yaml"}

(* A mount of a template's volume, at a fixed path or one that users give.  *)
Mounts(c, s) == {Mount(v, p) : v \in setVolumes(c, s), p \in Paths \cup Contents}

LEMMA MountsAccepted ==
  ASSUME NEW c, NEW s, NEW m \in Mounts(c, s)
  PROVE  m.volume \in setVolumes(c, s) /\ m.path # NoPath
<1>1. PICK v \in setVolumes(c, s), p \in Paths \cup Contents : m = Mount(v, p)
  BY DEF Mounts
<1>2. NoPath \notin Paths
  BY DEF NoPath, Paths
<1> QED BY <1>1, <1>2, MountFields, ContentsArePaths

LEMMA LDAPMount ==
  ASSUME NEW s, checkLDAPCA(s), "ldapCA" \in s.named => "ldap" \in s.named
  PROVE  setLDAPConfigs(s) = IF "ldapCA" \in s.named THEN {Mount("ldapCA", data["ldap"])} ELSE {}
  BY DEF checkLDAPCA, caDefined, setLDAPConfigs

LEMMA Deployable ==
  ASSUME prechecks(cr), "ldapCA" \in cr.named => "ldap" \in cr.named, NEW c \in Core
  PROVE  Accepted(template(c, cr))
<1> DEFINE s == cr
           t == template(c, cr)
<1>1. t.volumes = setVolumes(c, s)
  BY DEF template
<1>2. t.mounts = setVolumeMounts(c, s) \cup setLDAPConfigs(s)
  BY DEF template
<1>3. t.init = setInitContainerVolumeMounts(s) \cup setGpgInitContainer(s) \cup telemetryConfig(c, s)
  BY DEF template
<1> HIDE DEF t
<1> SUFFICES ASSUME NEW m \in t.mounts \cup t.init
             PROVE  m.volume \in setVolumes(c, s) /\ m.path # NoPath
  BY <1>1 DEF Accepted, t
<1> SUFFICES m \in Mounts(c, s)
  BY MountsAccepted
<1>m. \A v \in setVolumes(c, s), p \in Paths \cup Contents : Mount(v, p) \in Mounts(c, s)
  BY DEF Mounts
<1>p. Paths \subseteq Paths \cup Contents /\ Contents \subseteq Paths \cup Contents
  OBVIOUS
<1>4. CASE m \in setLDAPConfigs(s)
  <2>1. checkLDAPCA(s) /\ ("ldapCA" \in s.named => "ldap" \in s.named)
    BY DEF prechecks
  <2>2. m = Mount("ldapCA", data["ldap"]) /\ "ldapCA" \in s.named
    BY <1>4, <2>1, LDAPMount
  <2>3. data["ldap"] \in Contents
    BY <2>1, <2>2 DEF checkLDAPCA, caDefined
  <2>4. "ldapCA" \in setVolumes(c, s)
    BY <2>2, Volumes
  <2> QED BY <2>2, <2>3, <2>4, <1>m, <1>p
<1>5. CASE m \in setVolumeMounts(c, s)
  <2>1. CASE m \in {Mount("scripts", script) : script \in Scripts(s)}
    <3>1. PICK script \in Scripts(s) : m = Mount("scripts", script)
      BY <2>1
    <3>2. Signing(s) /\ script \in Contents
      BY <3>1 DEF Scripts
    <3>3. "scripts" \in setVolumes(c, s)
      BY <3>2, Volumes
    <3> QED BY <3>1, <3>2, <3>3, <1>m, <1>p
  <2>2. CASE m \in SetCAVolumeMounts(s)
    BY <2>2, <1>m, Volumes DEF SetCAVolumeMounts, Paths
  <2>3. CASE m \notin SetCAVolumeMounts(s) /\ m \notin {Mount("scripts", script) : script \in Scripts(s)}
    BY <1>5, <2>3, <1>m, Volumes DEF setVolumeMounts, Paths
  <2> QED BY <2>1, <2>2, <2>3
<1>6. CASE m \in setInitContainerVolumeMounts(s)
  BY <1>6, <1>m, Volumes DEF setInitContainerVolumeMounts, Paths
<1>7. CASE m \in setGpgInitContainer(s)
  BY <1>7, <1>m, Volumes DEF setGpgInitContainer, Paths
<1>8. CASE m \in telemetryConfig(c, s)
  BY <1>8, <1>m, Volumes DEF telemetryConfig, Paths
<1> QED BY <1>2, <1>3, <1>4, <1>5, <1>6, <1>7, <1>8

(* What passes checkStorageDefinitions, checkLDAPCA, checkSigningScripts    *)
(* and the other prechecks has a pod template that the API server accepts,  *)
(* for every combination of the fields of .spec.                            *)
THEOREM PrechecksEnough == Spec => []PrechecksSuffice
<1>1. PrechecksSuffice
  BY Deployable DEF PrechecksSuffice
<1> QED BY <1>1, PTL

-----------------------------------------------------------------------------
(* Who may change what.                                                     *)
Provisioned(k) ==
  /\ pc = k /\ mem \in Specs /\ cr' = cr /\ server' = server /\ lost' = lost
  /\ \/ /\ dep[k] = template(k, mem) /\ pc' = After(k) /\ UNCHANGED <<queue, openshift, mem, fresh, data, made, loads>>
     \/ /\ pc' = "idle" /\ queue' = TRUE /\ fresh' = FALSE
        /\ \/ UNCHANGED loads
           \/ dep' = [dep EXCEPT ![k] = template(k, mem)] /\ pods' = [pods EXCEPT ![k] = server]

LEMMA ProvisionEffect ==
  ASSUME ConfigTypes, NEW k \in Core, Provision(k)
  PROVE  Provisioned(k)
<1>1. pc = k /\ server' = server /\ lost' = lost /\ UNCHANGED <<data, made>>
  BY DEF Provision, objects
<1>2. mem \in Specs
  BY <1>1, AfterSteps DEF ConfigTypes, CopyOK
<1>3. CASE dep[k] = template(k, mem)
  <2>1. Goto(After(k)) /\ UNCHANGED <<Resource, loads>>
    BY <1>3 DEF Provision
  <2> QED BY <1>1, <1>2, <1>3, <2>1 DEF Provisioned, Goto, Resource
<1>4. CASE dep[k] # template(k, mem)
  <2>1. End(TRUE)
    BY <1>4 DEF Provision
  <2>2. UNCHANGED loads \/ (dep' = [dep EXCEPT ![k] = template(k, mem)] /\ pods' = [pods EXCEPT ![k] = server])
    BY <1>4 DEF Provision
  <2> QED BY <1>1, <1>2, <2>1, <2>2 DEF Provisioned, End, Return
<1> QED BY <1>3, <1>4

(* The copy of the resource, and requests.                                  *)
FlowFrame ==
  \/ StartReconcile
  \/ pc' = "idle" /\ fresh' = FALSE /\ queue' = TRUE
  \/ pc' = "idle" /\ fresh' = FALSE /\ queue' = queue /\ UNCHANGED <<openshift, cr, data, made, server, loads>>
     /\ (Finish \/ (Check /\ ~prechecks(mem)))
  \/ pc # "idle" /\ pc' # "idle" /\ UNCHANGED <<queue, openshift, cr, mem, fresh, data, made, loads>>
     /\ \/ pc' \notin AfterSettings
        \/ ReconcileSettings /\ pc' = "ca" /\ server' = server /\ server \in pulpServerSecret(mem)
        \/ pc = "ca" /\ pc' = "api" /\ server' = server
        \/ server' = server /\ \E k \in Core : pc = k /\ pc' = After(k) /\ dep[k] = template(k, mem)
  \/ pc' = pc /\ queue' = TRUE /\ mem' = mem
     /\ (fresh' = FALSE \/ UNCHANGED <<cr, fresh>>)
  \/ UNCHANGED vars

LEMMA FlowStep ==
  ASSUME ConfigTypes, [Next]_vars
  PROVE  FlowFrame
<1>e. End(TRUE) => FlowFrame
  BY DEF End, Return, FlowFrame
<1>b. queue \in BOOLEAN
  BY DEF ConfigTypes, LocalOK
<1>f. End(FALSE) => pc' = "idle" /\ fresh' = FALSE /\ queue' = queue /\ UNCHANGED <<openshift, cr>>
  BY <1>b DEF End, Return
<1>a. AfterSettings \cap {"idle", "check", "database", "secrets", "restart"} = {}
  BY DEF AfterSettings, AfterApi, AfterContent, AfterWorker
<1>1. CASE Check
  <2>1. UNCHANGED <<data, made, server, loads>> /\ pc # "idle"
    BY <1>1 DEF Check, objects
  <2>2. CASE prechecks(mem)
    <3>1. pc' = "database" /\ UNCHANGED <<queue, openshift, cr, mem, fresh>>
      BY <1>1, <2>2 DEF Check, Goto, Resource
    <3> QED BY <2>1, <3>1, <1>a DEF FlowFrame
  <2>3. CASE ~prechecks(mem)
    <3>1. End(FALSE)
      BY <1>1, <2>3 DEF Check
    <3> QED BY <1>1, <2>1, <2>3, <3>1, <1>f DEF FlowFrame
  <2> QED BY <2>2, <2>3
<1>2. CASE CreateDatabaseSecret
  <2>1. End(TRUE) \/ (pc' = "secrets" /\ UNCHANGED <<queue, openshift, cr, mem, fresh, made>>)
    BY <1>2 DEF CreateDatabaseSecret, Goto, Resource
  <2> QED BY <1>2, <2>1, <1>a, <1>e DEF CreateDatabaseSecret, FlowFrame
<1>3. CASE ReconcileSettings
  <2>1. PICK new \in pulpServerSecret(mem) : server' = new /\ Goto(IF new = server THEN "ca" ELSE "restart")
    BY <1>3 DEF ReconcileSettings
  <2>2. pc # "idle" /\ UNCHANGED <<queue, openshift, cr, mem, fresh, data, made, loads>>
    BY <1>3, <2>1 DEF ReconcileSettings, Written, Resource, Goto
  <2>3. CASE new = server
    BY <1>3, <2>1, <2>2, <2>3 DEF FlowFrame, Goto
  <2>4. CASE new # server
    BY <2>1, <2>2, <2>4, <1>a DEF FlowFrame, Goto
  <2> QED BY <2>3, <2>4
<1>4. CASE configMapTasks \/ ReconcileSettingsFails
  <2>1. CASE configMapTasks
    <3>1. pc = "ca" /\ pc' \in {"restart", "api"} /\ server' = server
          /\ UNCHANGED <<queue, openshift, cr, mem, fresh, data, made, loads>>
      BY <2>1 DEF configMapTasks, Resource, Goto
    <3> QED BY <3>1, <1>a DEF FlowFrame
  <2>2. CASE ReconcileSettingsFails
    <3>1. pc = "secrets" /\ pc' = "restart" /\ UNCHANGED <<queue, openshift, cr, mem, fresh, data, made, loads>>
      BY <2>2 DEF ReconcileSettingsFails, Written, Resource, Goto, objects
    <3> QED BY <3>1, <1>a DEF FlowFrame
  <2> QED BY <1>4, <2>1, <2>2
<1>5. CASE restartPulpCorePods
  BY <1>5, <1>e DEF restartPulpCorePods
<1>6. ASSUME NEW k \in Core, Provision(k)
      PROVE  FlowFrame
  <2>1. Provisioned(k) /\ k # "idle" /\ After(k) # "idle"
    BY <1>6, ProvisionEffect, AfterSteps
  <2> QED BY <2>1 DEF Provisioned, FlowFrame
<1>7. CASE Finish
  BY <1>7, <1>f DEF Finish, FlowFrame, objects
<1>8. CASE CreateEmptyConfigMap \/ CreateServerSecret \/ createProbeConfigMap \/ Crash
  BY <1>8, <1>e DEF CreateEmptyConfigMap, CreateServerSecret, createProbeConfigMap, Crash
<1>9. ASSUME NEW i \in DOMAIN Generated, CreateSecret(i)
      PROVE  FlowFrame
  BY <1>9, <1>e DEF CreateSecret
<1>10. ASSUME NEW k \in Core, ProvisionFails(k)
       PROVE  FlowFrame
  BY <1>10, <1>e DEF ProvisionFails
<1>11. ASSUME NEW s \in Specs, EditSpec(s)
       PROVE  FlowFrame
  BY <1>11 DEF EditSpec, FlowFrame
<1>12. ASSUME NEW o \in Given, NEW new \in Contents \cup {None, Short}, EditObject(o, new)
       PROVE  FlowFrame
  BY <1>12 DEF EditObject, Resource, FlowFrame
<1>13. CASE StartReconcile \/ UNCHANGED vars
  BY <1>13 DEF FlowFrame
<1> QED
  BY <1>1, <1>2, <1>3, <1>4, <1>5, <1>6, <1>7, <1>8, <1>9, <1>10, <1>11, <1>12, <1>13 DEF Next, Operator

LEMMA CopyStep ==
  ASSUME ConfigTypes, CopyInv, [Next]_vars
  PROVE  CopyInv'
<1>f. FlowFrame
  BY FlowStep
<1>b. queue \in BOOLEAN /\ fresh \in BOOLEAN
  BY DEF ConfigTypes, LocalOK
<1>1. CASE StartReconcile
  BY <1>1 DEF StartReconcile, CopyInv
<1>2. CASE UNCHANGED vars
  BY <1>2 DEF vars, CopyInv
<1>3. CASE ~StartReconcile /\ ~UNCHANGED vars
  BY <1>f, <1>b, <1>3 DEF FlowFrame, CopyInv
<1> QED BY <1>1, <1>2, <1>3

(* Nothing came in since the steps of S: it was so before, or the last of   *)
(* them was just made, with a copy that is the resource.                    *)
Entered ==
  \/ ReconcileSettings /\ pc = "secrets" /\ pc' = "ca" /\ server \in pulpServerSecret(cr)
  \/ pc = "ca" /\ pc' = "api"
  \/ \E k \in Core : pc = k /\ pc' = After(k) /\ dep[k] = template(k, cr)

LEMMA StillStep ==
  ASSUME ConfigTypes, CopyInv, [Next]_vars, NEW S, S \subseteq AfterSettings, "end" \in S, Still(S)'
  PROVE  /\ UNCHANGED <<openshift, cr, data, made, server, dep>>
         /\ Still(S) \/ (pc' \in S /\ pc \notin S /\ Entered)
<1>f. FlowFrame
  BY FlowStep
<1>a. AfterSettings \cap {"idle", "check", "database", "secrets", "restart"} = {}
  BY DEF AfterSettings, AfterApi, AfterContent, AfterWorker
<1>q. queue \in BOOLEAN /\ queue' = FALSE
  BY TypeStep DEF ConfigTypes, LocalOK, Still
<1>1. ~StartReconcile
  BY <1>a DEF StartReconcile, Still
<1>2. CASE UNCHANGED vars
  <2>1. UNCHANGED <<openshift, cr, data, made, server, dep, queue, pc>>
    BY <1>2 DEF vars
  <2>2. prechecks(cr)' = prechecks(cr)
    BY <2>1, PrechecksFrame
  <2> QED BY <2>1, <2>2 DEF Still
<1>3. CASE pc' = "idle" /\ fresh' = FALSE /\ queue' = queue /\ UNCHANGED <<openshift, cr, data, made, server, loads>>
           /\ (Finish \/ (Check /\ ~prechecks(mem)))
  <2>1. prechecks(cr)' = prechecks(cr)
    BY <1>3, PrechecksFrame
  <2>2. prechecks(cr) /\ UNCHANGED <<openshift, cr, data, made, server, dep>>
    BY <1>3, <2>1, <1>a DEF Still, loads
  <2>3. ~Check \/ prechecks(mem)
    <3>1. Check => pc # "idle"
      BY DEF Check
    <3>2. Check => mem = cr
      BY <1>3, <3>1, <1>q DEF CopyInv
    <3> QED BY <2>2, <3>2
  <2>4. Finish
    BY <1>3, <2>3
  <2>5. pc = "end"
    BY <2>4 DEF Finish
  <2> QED BY <1>3, <1>q, <2>2, <2>5 DEF Still
<1>4. CASE pc # "idle" /\ pc' # "idle" /\ UNCHANGED <<queue, openshift, cr, mem, fresh, data, made, loads>>
           /\ \/ pc' \notin AfterSettings
              \/ ReconcileSettings /\ pc' = "ca" /\ server' = server /\ server \in pulpServerSecret(mem)
              \/ pc = "ca" /\ pc' = "api" /\ server' = server
              \/ server' = server /\ \E k \in Core : pc = k /\ pc' = After(k) /\ dep[k] = template(k, mem)
  <2>1. pc' \in S /\ queue = FALSE /\ mem = cr /\ server' = server /\ dep' = dep
    BY <1>4, <1>q DEF Still, CopyInv, loads
  <2>2. ReconcileSettings => pc = "secrets"
    BY DEF ReconcileSettings, Written
  <2>3. Entered
    BY <1>4, <2>1, <2>2 DEF Entered
  <2> QED BY <1>4, <2>1, <2>3 DEF Still
<1> QED BY <1>f, <1>q, <1>1, <1>2, <1>3, <1>4 DEF FlowFrame

LEMMA Afters == After("api") = "content" /\ After("content") = "worker" /\ After("worker") = "end"
  BY DEF After

LEMMA SettingsStep ==
  ASSUME ConfigTypes, CopyInv, SettingsInv, [Next]_vars
  PROVE  SettingsInv'
<1> SUFFICES ASSUME Still(AfterSettings)' PROVE (server \in pulpServerSecret(cr))'
  BY DEF SettingsInv
<1>1. "end" \in AfterSettings /\ Core \cup {"ca"} \subseteq AfterSettings
  BY DEF AfterSettings, AfterApi, AfterContent, AfterWorker, Core
<1>2. /\ UNCHANGED <<cr, data, made, server>>
      /\ Still(AfterSettings) \/ (pc' \in AfterSettings /\ pc \notin AfterSettings /\ Entered)
  BY <1>1, StillStep
<1>3. pulpServerSecret(cr)' = pulpServerSecret(cr)
  BY <1>2, SettingsFrame
<1>4. server \in pulpServerSecret(cr)
  BY <1>1, <1>2 DEF SettingsInv, Entered
<1> QED BY <1>2, <1>3, <1>4

LEMMA TemplateStep ==
  ASSUME ConfigTypes, CopyInv, TemplateInv, [Next]_vars
  PROVE  TemplateInv'
<1> USE DEF AfterSettings, AfterApi, AfterContent, AfterWorker
<1>1. ASSUME NEW S, S \subseteq AfterSettings, "end" \in S, Still(S)', NEW k \in Core,
             Still(S) => dep[k] = template(k, cr),
             pc' \in S /\ pc \notin S /\ Entered => dep[k] = template(k, cr)
      PROVE  dep'[k] = template(k, cr)'
  <2>1. UNCHANGED <<cr, data, dep>> /\ dep[k] = template(k, cr)
    BY <1>1, StillStep
  <2>2. template(k, cr)' = template(k, cr)
    BY <2>1, TemplateFrame
  <2> QED BY <2>1, <2>2
<1>2. Still(AfterApi)' => dep'["api"] = template("api", cr)'
  <2>1. pc' \in AfterApi /\ pc \notin AfterApi /\ Entered => dep["api"] = template("api", cr)
    BY Afters DEF Entered, Core
  <2> QED BY <2>1, <1>1 DEF TemplateInv, Core
<1>3. Still(AfterContent)' => dep'["content"] = template("content", cr)'
  <2>1. pc' \in AfterContent /\ pc \notin AfterContent /\ Entered => dep["content"] = template("content", cr)
    BY Afters DEF Entered, Core
  <2> QED BY <2>1, <1>1 DEF TemplateInv, Core
<1>4. Still(AfterWorker)' => dep'["worker"] = template("worker", cr)'
  <2>1. pc' \in AfterWorker /\ pc \notin AfterWorker /\ Entered => dep["worker"] = template("worker", cr)
    BY Afters DEF Entered, Core
  <2> QED BY <2>1, <1>1 DEF TemplateInv, Core
<1> QED BY <1>2, <1>3, <1>4 DEF TemplateInv

(* settings.py and the pods.                                                *)
PodsFrame ==
  /\ server' = server \/ (server' # NoSettings /\ UNCHANGED <<loads, cr>>
                          /\ \/ CreateServerSecret /\ pc = "secrets" /\ server = NoSettings /\ lost' = lost
                             \/ lost' = TRUE)
  /\ UNCHANGED loads \/ restartPulpCorePods \/ \E k \in Core : Provision(k)
  /\ lost' = lost \/ lost' = TRUE \/ restartPulpCorePods
  /\ pc' \in AfterSettings => pc \in AfterSettings \/ server' # NoSettings

LEMMA PodsFrameStep ==
  ASSUME ConfigTypes, [Next]_vars
  PROVE  PodsFrame
<1>a. AfterSettings \cap {"idle", "check", "database", "secrets", "restart"} = {}
  BY DEF AfterSettings, AfterApi, AfterContent, AfterWorker
<1>1. ASSUME UNCHANGED <<server, loads, lost>>, pc' \in AfterSettings => pc \in AfterSettings
      PROVE  PodsFrame
  BY <1>1 DEF PodsFrame
<1>2. ASSUME UNCHANGED <<server, loads, lost>>, End(TRUE) \/ End(FALSE)
      PROVE  PodsFrame
  BY <1>2, <1>1, <1>a DEF End, Return
<1>3. CASE StartReconcile
  BY <1>3, <1>1, <1>a DEF StartReconcile, objects
<1>4. CASE Check
  <2>1. UNCHANGED <<server, loads, lost>> /\ (End(FALSE) \/ (pc' = "database" /\ cr' = cr))
    BY <1>4 DEF Check, objects, Goto, Resource
  <2> QED BY <2>1, <1>1, <1>2, <1>a
<1>5. CASE CreateDatabaseSecret
  <2>1. UNCHANGED <<server, loads, lost>> /\ (End(TRUE) \/ (pc' = "secrets" /\ cr' = cr))
    BY <1>5 DEF CreateDatabaseSecret, Goto, Resource
  <2> QED BY <2>1, <1>1, <1>2, <1>a
<1>6. CASE CreateServerSecret
  <2>1. server' # NoSettings
    BY <1>6, SettingsThere DEF CreateServerSecret
  <2>2. UNCHANGED <<loads, lost, cr>> /\ pc = "secrets" /\ server = NoSettings /\ pc' = "idle"
    BY <1>6 DEF CreateServerSecret, End, Return
  <2> QED BY <1>6, <2>1, <2>2, <1>a DEF PodsFrame
<1>7. CASE ReconcileSettings
  <2>1. PICK new \in pulpServerSecret(mem) : server' = new /\ lost' = (lost \/ new # server)
    BY <1>7 DEF ReconcileSettings
  <2>2. server' # NoSettings /\ UNCHANGED <<loads, cr>>
    BY <1>7, <2>1, SettingsThere DEF ReconcileSettings, Resource
  <2>3. (server' = server /\ lost' = lost) \/ lost' = TRUE
    BY <2>1 DEF ConfigTypes, LocalOK
  <2> QED BY <2>2, <2>3 DEF PodsFrame
<1>8. CASE configMapTasks
  <2>1. UNCHANGED <<server, loads, cr>> /\ pc = "ca" /\ (lost' = TRUE \/ lost' = lost)
    BY <1>8 DEF configMapTasks, Resource
  <2> QED BY <2>1 DEF PodsFrame, AfterSettings
<1>9. CASE restartPulpCorePods
  <2>1. server' = server /\ pc' = "idle"
    BY <1>9 DEF restartPulpCorePods, objects, End, Return
  <2> QED BY <1>9, <2>1, <1>a DEF PodsFrame
<1>10. ASSUME NEW k \in Core, Provision(k)
       PROVE  PodsFrame
  <2>1. Provisioned(k) /\ k \in AfterSettings
    BY <1>10, ProvisionEffect DEF AfterSettings, AfterApi, AfterContent, Core
  <2> QED BY <1>10, <2>1 DEF Provisioned, PodsFrame
<1>11. CASE CreateEmptyConfigMap \/ createProbeConfigMap \/ Finish \/ Crash
  BY <1>11, <1>2 DEF CreateEmptyConfigMap, createProbeConfigMap, Finish, Crash, objects
<1>12. ASSUME NEW i \in DOMAIN Generated, CreateSecret(i)
       PROVE  PodsFrame
  BY <1>12, <1>2 DEF CreateSecret
<1>13. ASSUME NEW k \in Core, ProvisionFails(k)
       PROVE  PodsFrame
  BY <1>13, <1>2 DEF ProvisionFails, objects
<1>14. CASE ReconcileSettingsFails
  BY <1>14, <1>1, <1>a DEF ReconcileSettingsFails, objects, Goto, Resource
<1>15. ASSUME NEW s \in Specs, EditSpec(s)
       PROVE  PodsFrame
  BY <1>15, <1>1 DEF EditSpec, objects
<1>16. ASSUME NEW o \in Given, NEW new \in Contents \cup {None, Short}, EditObject(o, new)
       PROVE  PodsFrame
  BY <1>16, <1>1 DEF EditObject, Resource
<1>17. CASE UNCHANGED vars
  BY <1>17, <1>1 DEF vars, loads
<1> QED
  BY <1>3, <1>4, <1>5, <1>6, <1>7, <1>8, <1>9, <1>10, <1>11, <1>12, <1>13, <1>14, <1>15, <1>16, <1>17
     DEF Next, Operator

LEMMA PodsStep ==
  ASSUME ConfigTypes, CopyInv, PodsInv, [Next]_vars
  PROVE  PodsInv'
<1>f. PodsFrame
  BY PodsFrameStep
<1>1. CASE restartPulpCorePods
  <2>1. UNCHANGED <<server, pods>> /\ pc' = "idle" /\ (UNCHANGED <<dep, lost>> \/ dep' = [c \in Core |-> Outdated(dep[c])])
    BY <1>1 DEF restartPulpCorePods, objects, End, Return
  <2>2. CASE UNCHANGED <<dep, lost>>
    BY <2>1, <2>2 DEF PodsInv, AfterSettings, AfterApi, AfterContent, AfterWorker
  <2>3. CASE dep' = [c \in Core |-> Outdated(dep[c])]
    <3>1. \A c \in Core : dep[c] = NoTemplate => dep'[c] = NoTemplate
      BY <2>3 DEF Outdated
    <3>2. \A c \in Core : dep[c] # NoTemplate => dep'[c] = [dep[c] EXCEPT !.current = FALSE]
      BY <2>3 DEF Outdated
    <3>3. \A c \in Core : dep'[c] = NoTemplate \/ ~dep'[c].current
      BY <3>1, <3>2 DEF PodsInv
    <3>4. \A c \in Core : dep'[c] = NoTemplate \/ "current" \in DOMAIN dep'[c]
      BY <3>1, <3>2 DEF PodsInv
    <3> QED BY <2>1, <3>1, <3>3, <3>4 DEF PodsInv, AfterSettings, AfterApi, AfterContent, AfterWorker
  <2> QED BY <2>1, <2>2, <2>3
<1>2. ASSUME NEW k \in Core, Provision(k)
      PROVE  PodsInv'
  <2>1. Provisioned(k)
    BY <1>2, ProvisionEffect
  <2>2. k # "idle" /\ k \in AfterSettings
    BY DEF AfterSettings, AfterApi, AfterContent, Core
  <2>3. pc = k /\ server # NoSettings /\ server' = server /\ cr' = cr /\ lost' = lost
    BY <2>1, <2>2 DEF Provisioned, PodsInv
  <2>4. CASE UNCHANGED loads
    BY <2>3, <2>4 DEF PodsInv, loads
  <2>5. CASE dep' = [dep EXCEPT ![k] = template(k, mem)] /\ pods' = [pods EXCEPT ![k] = server]
    <3>1. dep'[k] = template(k, mem) /\ pods'[k] = server
      BY <2>5 DEF ConfigTypes, LoadOK
    <3>2. dep'[k].current /\ "current" \in DOMAIN dep'[k]
      BY <3>1, TemplateThere
    <3>3. \A c \in Core : c # k => dep'[c] = dep[c] /\ pods'[c] = pods[c]
      BY <2>5 DEF ConfigTypes, LoadOK
    <3> QED BY <2>3, <3>1, <3>2, <3>3 DEF PodsInv
  <2> QED BY <2>1, <2>4, <2>5 DEF Provisioned
<1>3. CASE UNCHANGED loads /\ ~restartPulpCorePods
  <2>1. UNCHANGED <<dep, pods>> /\ (lost' = lost \/ lost' = TRUE)
    BY <1>3, <1>f DEF PodsFrame, loads
  <2>2. CASE server' = server
    BY <1>f, <2>1, <2>2 DEF PodsFrame, PodsInv
  <2>3. CASE server' # server
    BY <1>f, <2>1, <2>3 DEF PodsFrame, PodsInv
  <2> QED BY <2>2, <2>3
<1> QED BY <1>f, <1>1, <1>2, <1>3 DEF PodsFrame

-----------------------------------------------------------------------------
LEMMA InvInit == Init => ConfigTypes /\ ConfigInv
<1> SUFFICES ASSUME Init PROVE ConfigTypes /\ ConfigInv
  OBVIOUS
<1>1. pc = "idle" /\ queue = TRUE /\ fresh = FALSE
  BY DEF Init
<1>2. CopyInv /\ SettingsInv /\ TemplateInv
  BY <1>1 DEF CopyInv, SettingsInv, TemplateInv, Still
<1>3. PodsInv
  BY DEF Init, PodsInv, AfterSettings, AfterApi, AfterContent, AfterWorker
<1> QED BY <1>2, <1>3, TypeInit DEF ConfigInv

LEMMA InvStep == ConfigTypes /\ ConfigInv /\ [Next]_vars => ConfigTypes' /\ ConfigInv'
  BY TypeStep, CopyStep, SettingsStep, TemplateStep, PodsStep DEF ConfigInv

LEMMA InvHolds == Spec => [](ConfigTypes /\ ConfigInv)
  BY InvInit, InvStep, PTL DEF Spec

LEMMA Current == ASSUME ConfigInv PROVE ConfigCurrent
<1> SUFFICES ASSUME AtRest, NEW c \in Core
             PROVE  /\ server \in pulpServerSecret(cr)
                    /\ dep[c] = template(c, cr)
                    /\ ~lost => pods[c] = server
  BY DEF ConfigCurrent, Core
<1>1. \A S : Still(S)
  BY DEF AtRest, Still
<1>2. server \in pulpServerSecret(cr)
  BY <1>1 DEF ConfigInv, SettingsInv
<1>3. dep[c] = template(c, cr)
  BY <1>1 DEF ConfigInv, TemplateInv, Core
<1>4. dep[c] # NoTemplate /\ dep[c].current
  BY <1>3, TemplateThere
<1> QED BY <1>2, <1>3, <1>4 DEF ConfigInv, PodsInv

(* Whatever is edited while createSecrets, configMapTasks and the           *)
(* component controllers run, the operator does not come to rest with a     *)
(* settings.py or a pod template of other contents, nor with pods that      *)
(* started with another settings.py unless a restart was lost.              *)
THEOREM ConfigKept == Spec => []ConfigCurrent
  BY InvHolds, Current, PTL

(* Only ldapSettings writes the section LDAP.                               *)
LEMMA LDAPSection ==
  ASSUME NEW s, NEW v, <<"LDAP", v>> \in Sections(s)
  PROVE  "ldap" \in s.named /\ v = data["ldap"]
<1>1. <<"LDAP", v>> \notin addCustomPulpSettings(s) \cup debugLogging(s) \cup databaseSettings(s) \cup cacheSettings(s)
  BY DEF addCustomPulpSettings, debugLogging, databaseSettings, cacheSettings, RetrieveSecretData
<1>2. <<"LDAP", v>> \notin storageSettings(s) \cup ssoConfig(s) \cup tokenSettings(s) \cup secretKeySettings(s)
                           \cup allowedContentChecksumsSettings(s)
  BY DEF storageSettings, ssoConfig, tokenSettings, secretKeySettings, allowedContentChecksumsSettings,
         RetrieveSecretData
<1>3. <<"LDAP", v>> \in ldapSettings(s)
  BY <1>1, <1>2 DEF Sections
<1> QED BY <1>3 DEF ldapSettings

LEMMA Found == ASSUME ConfigCurrent PROVE CAFound
<1> SUFFICES ASSUME AtRest, ~lost, NEW c \in Core, NEW v \in Contents \ Recased, <<"LDAP", v>> \in pods[c].sections
             PROVE  Mount("ldapCA", v) \in dep[c].mounts
  BY DEF CAFound
<1>1. pods[c].sections = Sections(cr) /\ dep[c] = template(c, cr)
  BY DEF ConfigCurrent, pulpServerSecret
<1>2. "ldap" \in cr.named /\ v = data["ldap"]
  BY <1>1, LDAPSection
<1>3. "ldapCA" \in cr.named
  BY <1>2 DEF AtRest, prechecks, checkLDAPCA, caDefined
<1>4. Mount("ldapCA", v) \in setLDAPConfigs(cr)
  BY <1>2, <1>3 DEF setLDAPConfigs, caDefined
<1> QED BY <1>1, <1>4 DEF template

(* ldapSettings and setLDAPConfigs, which read the LDAP Secret separately,  *)
(* agree on the place of the CA when there is nothing left to do, as long   *)
(* as the key of the CA is in the small letters that setLDAPConfigs reads.  *)
THEOREM CAWhereExpected == Spec => []CAFound
  BY ConfigKept, Found, PTL
=============================================================================
