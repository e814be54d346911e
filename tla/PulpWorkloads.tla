--------------------------- MODULE PulpWorkloads ----------------------------
(***************************************************************************)
(* A pulpcore Deployment, and the objects beside it that come and go with   *)
(* fields of the Pulp resource: autoscaler, disruption budget, the Redis    *)
(* the operator deploys, and the telemetry objects.                         *)
(*                                                                          *)
(* Whether a Deployment is as it should be is told by hashes.  The API      *)
(* server completes what is written (the default values), so the operator   *)
(* sends a dry run first and takes the hash of what comes back; with an     *)
(* autoscaler the hashes leave replicas out.  Autoscaler and disruption     *)
(* budget are compared with what there is; Redis and telemetry objects are  *)
(* removed because .status says that they were deployed.                    *)
(*                                                                          *)
(* The api Deployment stands for content and worker too.  Reads return the  *)
(* current objects; stale ones are the subject of RepoManager.              *)
(***************************************************************************)
EXTENDS Naturals

CONSTANTS
  Images,      \* what a pod template is told apart by, besides cache and telemetry
  Budgets,     \* fields of a disruption budget with their values
  MaxReplicas, \* replicas go up to this
  Specs,       \* the values that users give to the fields of .spec
  Installed,   \* those a new installation begins with
  MaxEdits,    \* changes of .spec, and of the Deployment by hand
  MaxScales,   \* changes of the replicas by the autoscaler
  MaxFaults    \* calls that fail, and restarts

Sizes == 0..MaxReplicas

(* hpa: the autoscaler's smallest number of replicas (0: not given), and    *)
(* whether it is enabled; cache: none, deployed by the operator, external.  *)
Fields == [image : Images, replicas : Sizes, hpa : [on : BOOLEAN, min : Sizes],
           pdb : SUBSET Budgets, cache : {"off", "own", "external"}, otel : BOOLEAN]

ASSUME WorkloadConstants ==
  /\ Specs \subseteq Fields /\ Installed \subseteq Specs
  /\ {MaxReplicas, MaxEdits, MaxScales, MaxFaults} \subseteq Nat /\ MaxReplicas > 0

Redis     == {"service", "deployment"}
Telemetry == {"configmap", "service"}
Unset     == MaxReplicas + 1    \* replicas is not in the specification
Absent    == [no |-> "object"]

(* What is in the pod template, and in .spec of a Deployment: full once the *)
(* API server has filled in the defaults.                                   *)
Templates   == [image : Images, cache : {"off", "own", "external"}, otel : BOOLEAN]
Deployments == [template : Templates, replicas : Sizes \cup {Unset}, full : BOOLEAN]
Autoscalers == [min : 1..MaxReplicas]

VARIABLES
  pc,      \* the step the reconciliation is at
  queue,   \* the workqueue holds a request
  cr,      \* the Pulp resource: .spec, and what .status tells of cache and telemetry
  mem,     \* the reconciliation's copy of it
  fresh,   \* that copy carries the current resourceVersion
  dep,     \* .spec of the Deployment, and its hash label
  want,    \* the Deployment about to be written, and the one the dry run saw
  hpa, pdb, redis, otel,
  edits, scales, faults

optional == <<hpa, pdb, redis, otel>>
counts   == <<edits, scales, faults>>
vars     == <<pc, queue, cr, mem, fresh, dep, want, hpa, pdb, redis, otel, edits, scales, faults>>

Fault      == faults < MaxFaults /\ faults' = faults + 1 /\ UNCHANGED <<edits, scales>>
Same       == UNCHANGED <<cr, mem, fresh>>
End(q)     == pc' = "idle" /\ queue' = (queue \/ q) /\ mem' = Absent /\ fresh' = FALSE /\ want' = Absent
Return(q)  == End(q) /\ UNCHANGED cr
Goto(step) == pc' = step /\ UNCHANGED <<queue, want>>

(* The same after a call that changed an owned object: its event is queued. *)
GotoAfter(step, changed) == pc' = step /\ queue' = (queue \/ changed) /\ UNCHANGED want

(* r.Status().Update, whose outcome is dropped: refused if the resource was *)
(* changed since it was read, or failed.                                    *)
Store(new) ==
  /\ mem' = new /\ UNCHANGED fresh
  /\ \/ cr' = (IF fresh THEN new ELSE cr) /\ UNCHANGED counts
     \/ fresh /\ cr' = cr /\ Fault

StartReconcile ==
  /\ pc = "idle" /\ queue /\ queue' = FALSE /\ pc' = "cache"
  /\ mem' = cr /\ fresh' = TRUE
  /\ UNCHANGED <<cr, dep, want, optional, counts>>

-----------------------------------------------------------------------------
(* cacheTasks.  pulpCacheController creates the Service, then the           *)
(* Deployment, each in a reconciliation of its own, and then records it.    *)
NextRedis == IF "service" \in redis THEN "deployment" ELSE "service"

unrecorded(m)   == ~m.st.cache /\ redis # Redis    \* mutant: what .status says is believed
RedisMissing(m) == redis # Redis

pulpCacheController ==
  /\ pc = "cache" /\ mem.spec.cache = "own"
  /\ IF RedisMissing(mem)
     THEN redis' = redis \cup {NextRedis} /\ Return(TRUE) /\ UNCHANGED counts
     ELSE Store([mem EXCEPT !.st.cache = TRUE]) /\ Goto("deprovision") /\ UNCHANGED redis
  /\ UNCHANGED <<dep, hpa, pdb, otel>>

NoCacheTasks ==
  /\ pc = "cache" /\ mem.spec.cache # "own"
  /\ Goto("deprovision")
  /\ Same /\ UNCHANGED <<dep, optional, counts>>

recorded(m) == m.st.cache    \* mutant: what .spec says is not compared
managedCacheDisabled(m) == m.spec.cache # "external" /\ (m.spec.cache = "own") # m.st.cache

(* The errors of Delete are dropped.                                        *)
deprovisionCache ==
  /\ pc = "deprovision"
  /\ IF managedCacheDisabled(mem)
     THEN \/ redis' = {} /\ Store([mem EXCEPT !.st.cache = mem.spec.cache = "own"])
          \/ \E left \in SUBSET redis \ {{}} :
               /\ redis' = left /\ Fault
               /\ mem' = [mem EXCEPT !.st.cache = FALSE] /\ UNCHANGED fresh
               /\ cr' = IF fresh THEN mem' ELSE cr
     ELSE Same /\ UNCHANGED <<redis, counts>>
  /\ GotoAfter("create", redis' # redis)
  /\ UNCHANGED <<dep, hpa, pdb, otel>>

-----------------------------------------------------------------------------
(* The Deployment.                                                          *)
template(m) == [image |-> m.spec.image, cache |-> m.spec.cache, otel |-> m.spec.otel]

isHPAManagedDeployment(m) == m.spec.hpa.on

setReplicas(m) == IF m.spec.hpa.on THEN Unset ELSE m.spec.replicas

build(m) == [template |-> template(m), replicas |-> setReplicas(m), full |-> FALSE]

(* External: what the API server makes of a Deployment.                     *)
Mutated(d) == [d EXCEPT !.full = TRUE, !.replicas = IF d.replicas = Unset THEN 1 ELSE d.replicas]

hashAll(d, m) == d    \* mutant: replicas is part of the hash in any case
CalculateDeploymentHash(d, m) == IF isHPAManagedDeployment(m) THEN [d EXCEPT !.replicas = Unset] ELSE d

(* Without an answer to the dry run, and with it.                           *)
hashBuilt(m)       == CalculateDeploymentHash(build(m), m)
HashFromMutated(m) == CalculateDeploymentHash(Mutated(build(m)), m)

(* Deployment, Service (not modelled) and, with telemetry, its ConfigMap    *)
(* and Service are created in this order.  The label is the hash of a dry   *)
(* run, or of what was built if that fails.                                 *)
NextTelemetry == IF "configmap" \in otel THEN "service" ELSE "configmap"

CreateDeployment ==
  /\ pc = "create" /\ dep = Absent
  /\ \E label \in {HashFromMutated(mem), hashBuilt(mem)} :
       /\ dep' = [spec |-> Mutated(build(mem)), label |-> label]
       /\ (label = HashFromMutated(mem) /\ UNCHANGED counts) \/ Fault
  /\ Return(TRUE)
  /\ UNCHANGED optional

CreateTelemetry ==
  /\ pc = "create" /\ dep # Absent /\ mem.spec.otel /\ otel # Telemetry
  /\ otel' = otel \cup {NextTelemetry}
  /\ Return(TRUE)
  /\ UNCHANGED <<dep, hpa, pdb, redis, counts>>

deploymentChanged(current, expected, m) ==
  current.label # expected \/ CalculateDeploymentHash(current.spec, m) # expected

(* If the dry run for the label fails, so may the second one, for the hash  *)
(* that is expected.                                                        *)
Compare(expected, label, saw) ==
  \/ deploymentChanged(dep, expected, mem) /\ pc' = "write" /\ want' = [label |-> label, saw |-> saw]
  \/ ~deploymentChanged(dep, expected, mem) /\ pc' = "pdb" /\ UNCHANGED want

CheckDeploymentSpec ==
  /\ pc = "create" /\ dep # Absent /\ (mem.spec.otel => otel = Telemetry)
  /\ \/ Compare(HashFromMutated(mem), HashFromMutated(mem), dep) /\ UNCHANGED counts
     \/ /\ \E expected \in {HashFromMutated(mem), hashBuilt(mem)} : Compare(expected, hashBuilt(mem), Absent)
        /\ Fault
  /\ UNCHANGED queue /\ Same
  /\ UNCHANGED <<dep, optional>>

(* The dry run brought the resourceVersion: an Update of a Deployment that  *)
(* was changed since is refused, and the reconciliation begins anew.        *)
updateObject ==
  /\ pc = "write"
  /\ \/ /\ dep' = IF dep # Absent /\ want.saw \in {dep, Absent}
                  THEN [spec |-> Mutated(build(mem)), label |-> want.label] ELSE dep
        /\ UNCHANGED counts
     \/ UNCHANGED dep /\ Fault
  /\ Return(TRUE)
  /\ UNCHANGED optional

-----------------------------------------------------------------------------
(* pdbController.  DeepDerivative looks at the fields that are set in the   *)
(* Pulp resource only.  An error of Delete is dropped.                      *)
pdbController ==
  /\ pc = "pdb"
  /\ IF mem.spec.pdb = {} \/ mem.spec.pdb \subseteq pdb
     THEN /\ \/ pdb' = (IF mem.spec.pdb = {} THEN {} ELSE pdb) /\ UNCHANGED counts
             \/ mem.spec.pdb = {} /\ pdb # {} /\ UNCHANGED pdb /\ Fault
          /\ GotoAfter("hpa", pdb' # pdb) /\ Same
     ELSE /\ \/ pdb' = mem.spec.pdb /\ UNCHANGED counts
             \/ UNCHANGED pdb /\ Fault
          /\ Return(TRUE)
  /\ UNCHANGED <<dep, hpa, redis, otel>>

(* reconcileHPA creates, updates or deletes it; an error ends the           *)
(* reconciliation, but for one of Get when the autoscaler is disabled.      *)
(* minReplicas is 1 unless given (0: not given).                            *)
noDefault(m) ==    \* mutant: minReplicas is passed on as it is
  IF m.spec.hpa.on THEN [min |-> m.spec.hpa.min] ELSE Absent
neverDeleted(m) ==    \* mutant: the autoscaler is left when it is disabled
  IF m.spec.hpa.on THEN [min |-> IF m.spec.hpa.min = 0 THEN 1 ELSE m.spec.hpa.min] ELSE hpa
buildHPA(m) ==
  IF m.spec.hpa.on THEN [min |-> IF m.spec.hpa.min = 0 THEN 1 ELSE m.spec.hpa.min] ELSE Absent

reconcileHPA ==
  /\ pc = "hpa"
  /\ \/ /\ \/ hpa' = buildHPA(mem) /\ UNCHANGED counts
           \/ ~mem.spec.hpa.on /\ UNCHANGED hpa /\ Fault
        /\ GotoAfter("telemetry", hpa' # hpa) /\ Same
     \/ hpa # buildHPA(mem) /\ UNCHANGED hpa /\ Fault /\ Return(TRUE)
  /\ UNCHANGED <<dep, pdb, redis, otel>>

swapped(m)           == m.spec.otel /\ ~m.st.otel    \* mutant: .spec and .status exchanged
TelemetryDisabled(m) == m.st.otel /\ ~m.spec.otel

(* The errors of Delete are dropped here too.                               *)
RemoveTelemetryResources ==
  /\ pc = "telemetry"
  /\ IF TelemetryDisabled(mem)
     THEN \/ otel' = {} /\ Store([mem EXCEPT !.st.otel = FALSE])
          \/ \E left \in SUBSET otel \ {{}} :
               /\ otel' = left /\ Fault
               /\ mem' = [mem EXCEPT !.st.otel = FALSE] /\ UNCHANGED fresh
               /\ cr' = IF fresh THEN mem' ELSE cr
     ELSE Same /\ UNCHANGED <<otel, counts>>
  /\ GotoAfter("status", otel' # otel)
  /\ UNCHANGED <<dep, hpa, pdb, redis>>

(* setStatusFields, at the end of the reconciliation.                       *)
telemetryEnabledCondition == mem.st.otel # mem.spec.otel

setStatusFields ==
  /\ pc = "status"
  /\ \/ /\ cr' = IF telemetryEnabledCondition /\ fresh
                 THEN [cr EXCEPT !.st.otel = mem.spec.otel] ELSE cr
        /\ UNCHANGED counts
     \/ telemetryEnabledCondition /\ fresh /\ UNCHANGED cr /\ Fault
  /\ End(FALSE)
  /\ UNCHANGED <<dep, optional>>

(* A Create that fails, or a restart of the operator.                       *)
Crash ==
  /\ pc # "idle" /\ Fault /\ Return(TRUE)
  /\ UNCHANGED <<dep, optional>>

-----------------------------------------------------------------------------
(* The users, and the autoscaler.                                           *)
EditSpec(s) ==
  /\ edits < MaxEdits /\ edits' = edits + 1
  /\ s # cr.spec /\ cr' = [cr EXCEPT !.spec = s]
  /\ fresh' = FALSE /\ queue' = TRUE
  /\ UNCHANGED <<pc, mem, dep, want, optional, scales, faults>>

(* An owned object is changed or deleted by hand.                           *)
Drift ==
  /\ edits < MaxEdits /\ edits' = edits + 1 /\ queue' = TRUE
  /\ \/ /\ dep # Absent /\ UNCHANGED optional
        /\ \/ dep' = Absent
           \/ \E i \in Images, n \in Sizes :
                dep' = [dep EXCEPT !.spec.template.image = i, !.spec.replicas = n]
     \/ UNCHANGED <<dep, otel>> /\ hpa' = Absent /\ pdb' = {} /\ \E o \in redis : redis' = redis \ {o}
     \/ UNCHANGED <<dep, hpa, pdb, redis>> /\ \E o \in otel : otel' = otel \ {o}
  /\ UNCHANGED <<pc, cr, mem, fresh, want, scales, faults>>

(* External: the autoscaler sets the replicas of the Deployment.            *)
Scale(n) ==
  /\ hpa # Absent /\ dep # Absent /\ scales < MaxScales /\ scales' = scales + 1
  /\ n >= hpa.min /\ n # dep.spec.replicas
  /\ dep' = [dep EXCEPT !.spec.replicas = n] /\ queue' = TRUE
  /\ UNCHANGED <<pc, cr, mem, fresh, want, optional, edits, faults>>

-----------------------------------------------------------------------------
Init ==
  /\ pc = "idle" /\ queue = TRUE
  /\ \E s \in Installed : cr = [spec |-> s, st |-> [cache |-> FALSE, otel |-> FALSE]]
  /\ mem = Absent /\ fresh = FALSE /\ dep = Absent /\ want = Absent
  /\ hpa = Absent /\ pdb = {} /\ redis = {} /\ otel = {}
  /\ edits = 0 /\ scales = 0 /\ faults = 0

Operator ==
  \/ StartReconcile \/ pulpCacheController \/ NoCacheTasks \/ deprovisionCache
  \/ CreateDeployment \/ CreateTelemetry \/ CheckDeploymentSpec \/ updateObject
  \/ pdbController \/ reconcileHPA \/ RemoveTelemetryResources \/ setStatusFields

Next ==
  \/ Operator
  \/ Crash
  \/ \E s \in Specs : EditSpec(s)
  \/ Drift
  \/ \E n \in Sizes : Scale(n)

Spec == Init /\ [][Next]_vars

(* The workqueue hands out the request and the workers run: a               *)
(* reconciliation goes on as long as it can.                                *)
FairSpec == Spec /\ WF_vars(Operator)

-----------------------------------------------------------------------------
(* Types; what is written is complete, what is remembered is remembered by  *)
(* a reconciliation that runs.                                              *)
TypeOK ==
  /\ pc \in {"idle", "cache", "deprovision", "create", "write", "pdb", "hpa", "telemetry", "status"}
  /\ queue \in BOOLEAN /\ fresh \in BOOLEAN
  /\ cr \in [spec : Specs, st : [cache : BOOLEAN, otel : BOOLEAN]]
  /\ mem \in [spec : Specs, st : [cache : BOOLEAN, otel : BOOLEAN]] \cup {Absent}
  /\ dep \in [spec : Deployments, label : Deployments] \cup {Absent}
  /\ dep # Absent => dep.spec.full /\ dep.spec.replicas # Unset
  /\ (want = Absent) = (pc # "write") /\ (mem = Absent) = (pc = "idle")
  /\ hpa \in Autoscalers \cup {Absent} /\ pdb \subseteq Budgets
  /\ redis \subseteq Redis /\ otel \subseteq Telemetry
  /\ edits \in 0..MaxEdits /\ scales \in 0..MaxScales /\ faults \in 0..MaxFaults

AtRest == pc = "idle" /\ ~queue

(* Two edits, two sides that write replicas, and dry runs that fail: when   *)
(* the operator comes to rest the Deployment, its label, the autoscaler and *)
(* the disruption budget are what .spec asks for (CheckDeploymentSpec,      *)
(* reconcileHPA, pdbController), and replicas is .spec's number unless the  *)
(* autoscaler decides.  A budget or an autoscaler that is not wanted may be *)
(* left only after a Delete of the one, or a Get of the other, that failed. *)
WorkloadsCurrent ==
  AtRest =>
    /\ dep # Absent /\ dep.spec.template = template(cr) /\ ~deploymentChanged(dep, HashFromMutated(cr), cr)
    /\ ~cr.spec.hpa.on => dep.spec.replicas = cr.spec.replicas
    /\ (cr.spec.hpa.on => hpa # Absent) /\ (~cr.spec.hpa.on /\ faults = 0 => hpa = Absent)
    /\ cr.spec.hpa.on /\ cr.spec.hpa.min > 0 => hpa.min = cr.spec.hpa.min
    /\ cr.spec.pdb \subseteq pdb /\ (cr.spec.pdb = {} /\ faults = 0 => pdb = {})

(* Whatever was removed by hand, by deprovisionCache and by                 *)
(* RemoveTelemetryResources: pods at rest that are told to use the          *)
(* operator's Redis or the collector's configuration find them.             *)
NeedsThere ==
  AtRest /\ dep # Absent =>
    /\ dep.spec.template.cache = "own" => redis = Redis
    /\ dep.spec.template.otel => otel = Telemetry

(* .status forgets Redis or the telemetry objects only when they are gone,  *)
(* the call that failed in the same step excepted: what is forgotten is     *)
(* never deleted (managedCacheDisabled, telemetryEnabledCondition).         *)
RecordedUntilRemoved ==
  [][faults' = faults =>
       /\ cr.st.cache /\ ~cr'.st.cache => redis' = {}
       /\ cr.st.otel /\ ~cr'.st.otel => otel' = {}]_vars

(* Next to an autoscaler the operator changes replicas only together with   *)
(* the template or the label, never because the autoscaler (or a user)      *)
(* changed them; dry runs that were answered presumed (CheckDeploymentSpec).*)
ScalingKept ==
  [][pc = "write" /\ pc' # pc /\ mem.spec.hpa.on /\ want.saw # Absent /\ dep # Absent
       /\ dep'.spec.replicas # dep.spec.replicas
     => dep'.spec.template # dep.spec.template \/ dep'.label # dep.label]_vars

(* The reconciliations end: hashes of what was built and of what the API    *)
(* server made of it agree, and no two steps undo each other.               *)
Settles == <>[]AtRest

=============================================================================
