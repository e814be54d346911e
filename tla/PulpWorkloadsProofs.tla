------------------------ MODULE PulpWorkloadsProofs -------------------------
(***************************************************************************)
(* What is true of a Deployment and of the objects beside it for any        *)
(* values of .spec, any number of replicas, edits, scalings and faults.     *)
(***************************************************************************)
EXTENDS PulpWorkloads, TLAPS

-----------------------------------------------------------------------------
(* Types.                                                                   *)
Status == [cache : BOOLEAN, otel : BOOLEAN]
Pulp   == [spec : Specs, st : Status]
Owned  == [spec : Deployments, label : Deployments]
Steps  == {"idle", "cache", "deprovision", "create", "write", "pdb", "hpa", "telemetry", "status"}

LocalOK == pc \in Steps /\ queue \in BOOLEAN /\ fresh \in BOOLEAN
CopyOK  == cr \in Pulp /\ mem \in Pulp \cup {Absent} /\ (mem = Absent) = (pc = "idle")
DepOK   == dep \in Owned \cup {Absent} /\ (dep # Absent => dep.spec.full /\ dep.spec.replicas # Unset)
WantOK  == (want = Absent) = (pc # "write")
OtherOK == hpa \in Autoscalers \cup {Absent} /\ pdb \subseteq Budgets /\ redis \subseteq Redis /\ otel \subseteq Telemetry
CountOK == edits \in 0..MaxEdits /\ scales \in 0..MaxScales /\ faults \in 0..MaxFaults

LEMMA TypeParts == TypeOK <=> LocalOK /\ CopyOK /\ DepOK /\ WantOK /\ OtherOK /\ CountOK
  BY DEF TypeOK, LocalOK, CopyOK, DepOK, WantOK, OtherOK, CountOK, Pulp, Status, Owned, Steps

(* What is there is not Absent.                                             *)
LEMMA PulpThere == ASSUME NEW p \in Pulp PROVE p # Absent
  BY DEF Pulp, Absent

LEMMA OwnedThere == ASSUME NEW d \in Owned PROVE d # Absent
  BY DEF Owned, Absent

LEMMA WantThere == ASSUME NEW l, NEW s PROVE [label |-> l, saw |-> s] # Absent
  BY DEF Absent

LEMMA ScalerThere == ASSUME NEW a \in Autoscalers PROVE a # Absent
  BY DEF Autoscalers, Absent

LEMMA Numbers ==
  /\ MaxReplicas \in Nat /\ MaxReplicas > 0 /\ MaxEdits \in Nat /\ MaxScales \in Nat /\ MaxFaults \in Nat
  /\ Unset \notin Sizes /\ 1 \in Sizes /\ \A k \in Sizes : k \in Nat /\ (k # 0 => k \in 1..MaxReplicas)
  BY WorkloadConstants DEF Unset, Sizes

LEMMA SpecFields ==
  ASSUME NEW s \in Specs
  PROVE  /\ s.image \in Images /\ s.replicas \in Sizes /\ s.hpa.on \in BOOLEAN /\ s.hpa.min \in Sizes
         /\ s.pdb \subseteq Budgets /\ s.cache \in {"off", "own", "external"} /\ s.otel \in BOOLEAN
  BY WorkloadConstants DEF Fields

LEMMA StatusTypes ==
  ASSUME NEW p \in Pulp, NEW v \in BOOLEAN
  PROVE  /\ [p EXCEPT !.st.cache = v] \in Pulp /\ [p EXCEPT !.st.cache = v].spec = p.spec
         /\ [p EXCEPT !.st.cache = v].st.cache = v /\ [p EXCEPT !.st.cache = v].st.otel = p.st.otel
         /\ [p EXCEPT !.st.otel = v] \in Pulp /\ [p EXCEPT !.st.otel = v].spec = p.spec
         /\ [p EXCEPT !.st.otel = v].st.otel = v /\ [p EXCEPT !.st.otel = v].st.cache = p.st.cache
  BY DEF Pulp, Status

LEMMA EditTypes ==
  ASSUME NEW p \in Pulp, NEW s \in Specs
  PROVE  /\ [p EXCEPT !.spec = s] \in Pulp /\ [p EXCEPT !.spec = s].st = p.st /\ [p EXCEPT !.spec = s].spec = s
  BY DEF Pulp

LEMMA BuildTypes ==
  ASSUME NEW m \in Pulp
  PROVE  /\ build(m) \in Deployments /\ Mutated(build(m)) \in Deployments
         /\ Mutated(build(m)).full = TRUE /\ Mutated(build(m)).replicas # Unset
         /\ Mutated(build(m)).template = template(m)
         /\ ~m.spec.hpa.on => Mutated(build(m)).replicas = m.spec.replicas
         /\ build(m).full = FALSE
<1>1. m.spec \in Specs
  BY DEF Pulp
<1>2. template(m) \in Templates
  BY <1>1, SpecFields DEF template, Templates
<1>3. setReplicas(m) \in Sizes \cup {Unset} /\ (~m.spec.hpa.on => setReplicas(m) = m.spec.replicas)
  BY <1>1, SpecFields DEF setReplicas
<1>4. build(m) \in Deployments /\ build(m).full = FALSE
      /\ build(m).template = template(m) /\ build(m).replicas = setReplicas(m)
  BY <1>2, <1>3 DEF build, Deployments
<1>5. ASSUME NEW d \in Deployments
      PROVE  /\ Mutated(d) \in Deployments /\ Mutated(d).full = TRUE /\ Mutated(d).template = d.template
             /\ Mutated(d).replicas = IF d.replicas = Unset THEN 1 ELSE d.replicas
  BY Numbers DEF Mutated, Deployments
<1> QED BY <1>1, <1>3, <1>4, <1>5, Numbers, SpecFields

LEMMA HashTypes ==
  ASSUME NEW m \in Pulp, NEW d \in Deployments
  PROVE  /\ CalculateDeploymentHash(d, m) \in Deployments
         /\ CalculateDeploymentHash(d, m).template = d.template
         /\ CalculateDeploymentHash(d, m).full = d.full
         /\ CalculateDeploymentHash(d, m).replicas = IF m.spec.hpa.on THEN Unset ELSE d.replicas
  BY DEF CalculateDeploymentHash, isHPAManagedDeployment, Deployments

LEMMA HashBuiltTypes ==
  ASSUME NEW m \in Pulp
  PROVE  hashBuilt(m) \in Deployments /\ HashFromMutated(m) \in Deployments
         /\ hashBuilt(m).full = FALSE /\ HashFromMutated(m).full = TRUE
         /\ HashFromMutated(m).template = template(m)
  BY BuildTypes, HashTypes DEF hashBuilt, HashFromMutated

LEMMA FaultTypes == ASSUME CountOK, Fault PROVE CountOK' /\ faults' # 0 /\ faults' # faults
  BY Numbers DEF CountOK, Fault

LEMMA SameCounts == ASSUME CountOK, UNCHANGED counts PROVE CountOK' /\ faults' = faults
  BY DEF CountOK, counts

LEMMA EndTypes ==
  ASSUME LocalOK, CopyOK, NEW q \in BOOLEAN, End(q), cr' \in Pulp
  PROVE  LocalOK' /\ CopyOK' /\ WantOK'
  BY DEF LocalOK, CopyOK, WantOK, End, Steps

LEMMA ReturnTypes ==
  ASSUME LocalOK, CopyOK, NEW q \in BOOLEAN, Return(q)
  PROVE  LocalOK' /\ CopyOK' /\ WantOK'
  BY EndTypes DEF Return, CopyOK

LEMMA GotoTypes ==
  ASSUME LocalOK, WantOK, pc # "write", pc # "idle", NEW s \in Steps \ {"idle", "write"}, NEW q \in BOOLEAN,
         Goto(s) \/ GotoAfter(s, q), cr' \in Pulp, mem' \in Pulp, fresh' = fresh
  PROVE  LocalOK' /\ CopyOK' /\ WantOK'
<1>1. mem' # Absent
  BY PulpThere
<1> QED BY <1>1 DEF LocalOK, CopyOK, WantOK, Goto, GotoAfter, Steps

LEMMA StoreTypes ==
  ASSUME CopyOK, CountOK, NEW p \in Pulp, Store(p)
  PROVE  cr' \in Pulp /\ mem' \in Pulp /\ fresh' = fresh /\ CountOK'
<1>1. CountOK'
  BY FaultTypes, SameCounts DEF Store
<1> QED BY <1>1 DEF Store, CopyOK

LEMMA BuildHPATypes ==
  ASSUME NEW m \in Pulp
  PROVE  /\ buildHPA(m) \in Autoscalers \cup {Absent}
         /\ (buildHPA(m) = Absent) = ~m.spec.hpa.on
         /\ m.spec.hpa.on /\ m.spec.hpa.min > 0 => buildHPA(m).min = m.spec.hpa.min
<1>1. m.spec.hpa.on \in BOOLEAN /\ m.spec.hpa.min \in Sizes
  BY SpecFields DEF Pulp
<1>2. CASE m.spec.hpa.on
  <2> DEFINE k == IF m.spec.hpa.min = 0 THEN 1 ELSE m.spec.hpa.min
  <2>1. k \in 1..MaxReplicas /\ (m.spec.hpa.min > 0 => k = m.spec.hpa.min)
    BY <1>1, Numbers
  <2>2. buildHPA(m) = [min |-> k]
    BY <1>2 DEF buildHPA
  <2> HIDE DEF k
  <2>3. [min |-> k] \in Autoscalers /\ [min |-> k].min = k
    BY <2>1 DEF Autoscalers
  <2>4. buildHPA(m) # Absent
    BY <2>2, <2>3, ScalerThere
  <2> QED BY <1>2, <2>1, <2>2, <2>3, <2>4
<1>3. CASE ~m.spec.hpa.on
  BY <1>3 DEF buildHPA
<1> QED BY <1>1, <1>2, <1>3

(* A reconciliation that runs has its copy.                                 *)
LEMMA Copy == ASSUME CopyOK, pc # "idle" PROVE mem \in Pulp /\ mem.spec \in Specs /\ mem.st \in Status
  BY DEF CopyOK, Pulp

LEMMA WrittenTypes ==
  ASSUME NEW m \in Pulp, NEW l \in Deployments, NEW d, d = [spec |-> Mutated(build(m)), label |-> l]
  PROVE  d \in Owned /\ d # Absent /\ d.spec.full /\ d.spec.replicas # Unset
  BY BuildTypes, OwnedThere DEF Owned

LEMMA CompareTypes ==
  ASSUME LocalOK, CopyOK, WantOK, pc = "create", NEW e, NEW l, NEW w, Compare(e, l, w), UNCHANGED queue, Same
  PROVE  LocalOK' /\ CopyOK' /\ WantOK'
<1>1. CASE pc' = "write" /\ want' = [label |-> l, saw |-> w]
  BY <1>1, WantThere DEF LocalOK, CopyOK, WantOK, Same, Steps
<1>2. CASE pc' = "pdb" /\ UNCHANGED want
  BY <1>2 DEF LocalOK, CopyOK, WantOK, Same, Steps
<1> QED BY <1>1, <1>2 DEF Compare

(* What is about to be written is the hash of what was built from the copy, *)
(* and if the dry run was answered, it saw a Deployment that differs.       *)
WriteInv ==
  pc = "write" =>
    /\ want.label \in {HashFromMutated(mem), hashBuilt(mem)}
    /\ want.saw # Absent => /\ want.label = HashFromMutated(mem)
                            /\ deploymentChanged(want.saw, HashFromMutated(mem), mem)

LEMMA TypeStep ==
  ASSUME TypeOK, WriteInv, [Next]_vars
  PROVE  TypeOK'
<1> USE DEF LocalOK
<1> SUFFICES (LocalOK /\ CopyOK /\ DepOK /\ WantOK /\ OtherOK /\ CountOK)'
  BY TypeParts DEF TypeOK, LocalOK, CopyOK, DepOK, WantOK, OtherOK, CountOK, Pulp, Status, Owned, Steps
<1>t. LocalOK /\ CopyOK /\ DepOK /\ WantOK /\ OtherOK /\ CountOK
  BY TypeParts
<1>d. UNCHANGED dep => DepOK'
  BY <1>t DEF DepOK
<1>o. UNCHANGED optional => OtherOK'
  BY <1>t DEF OtherOK, optional
<1>c. UNCHANGED counts => CountOK'
  BY <1>t, SameCounts
<1>b. TRUE \in BOOLEAN /\ FALSE \in BOOLEAN
  OBVIOUS
<1>m. pc # "idle" => mem \in Pulp /\ mem.spec \in Specs /\ mem.st \in Status
  BY <1>t, Copy
<1>s. Same => cr' \in Pulp /\ mem' = mem /\ fresh' = fresh
  BY <1>t DEF Same, CopyOK
<1>1. CASE StartReconcile
  <2>1. mem' \in Pulp /\ mem' # Absent
    BY <1>1, <1>t, PulpThere DEF StartReconcile, CopyOK
  <2>2. LocalOK' /\ CopyOK' /\ WantOK'
    BY <1>1, <1>t, <2>1 DEF StartReconcile, CopyOK, WantOK, Steps
  <2> QED BY <1>1, <2>2, <1>d, <1>o, <1>c DEF StartReconcile
<1>2. CASE pulpCacheController
  <2>1. CASE RedisMissing(mem)
    <3>1. LocalOK' /\ CopyOK' /\ WantOK'
      BY <1>2, <2>1, <1>t, <1>b, ReturnTypes DEF pulpCacheController
    <3>2. OtherOK'
      BY <1>2, <2>1, <1>t DEF pulpCacheController, OtherOK, NextRedis, Redis
    <3> QED BY <1>2, <2>1, <3>1, <3>2, <1>d, <1>c DEF pulpCacheController
  <2>2. CASE ~RedisMissing(mem)
    <3>1. [mem EXCEPT !.st.cache = TRUE] \in Pulp
      BY <1>2, <1>m, <1>b, StatusTypes DEF pulpCacheController
    <3>2. cr' \in Pulp /\ mem' \in Pulp /\ fresh' = fresh /\ CountOK'
      BY <1>2, <2>2, <3>1, <1>t, StoreTypes DEF pulpCacheController
    <3>3. LocalOK' /\ CopyOK' /\ WantOK'
      BY <1>2, <2>2, <3>2, <1>t, GotoTypes DEF pulpCacheController, Steps
    <3> QED BY <1>2, <2>2, <3>2, <3>3, <1>d, <1>o DEF pulpCacheController, optional
  <2> QED BY <2>1, <2>2
<1>3. CASE NoCacheTasks
  <2>1. LocalOK' /\ CopyOK' /\ WantOK'
    BY <1>3, <1>t, <1>m, <1>s, GotoTypes DEF NoCacheTasks, Steps
  <2> QED BY <1>3, <2>1, <1>d, <1>o, <1>c DEF NoCacheTasks
<1>4. CASE deprovisionCache
  <2>0. mem \in Pulp /\ (mem.spec.cache = "own") \in BOOLEAN
    BY <1>4, <1>m DEF deprovisionCache
  <2>1. cr' \in Pulp /\ mem' \in Pulp /\ fresh' = fresh /\ CountOK' /\ redis' \subseteq Redis
    <3>1. CASE redis' = {} /\ Store([mem EXCEPT !.st.cache = mem.spec.cache = "own"])
      <4>1. [mem EXCEPT !.st.cache = mem.spec.cache = "own"] \in Pulp
        BY <2>0, StatusTypes
      <4> QED BY <3>1, <4>1, <1>t, StoreTypes
    <3>2. ASSUME NEW left \in SUBSET redis \ {{}}, redis' = left, Fault,
                 mem' = [mem EXCEPT !.st.cache = FALSE], UNCHANGED fresh, cr' = IF fresh THEN mem' ELSE cr
          PROVE  cr' \in Pulp /\ mem' \in Pulp /\ fresh' = fresh /\ CountOK' /\ redis' \subseteq Redis
      <4>1. mem' \in Pulp
        BY <2>0, <3>2, <1>b, StatusTypes
      <4> QED BY <3>2, <4>1, <1>t, FaultTypes DEF CopyOK, OtherOK
    <3>3. CASE Same /\ UNCHANGED <<redis, counts>>
      BY <3>3, <2>0, <1>s, <1>t, <1>c DEF OtherOK, Same
    <3> QED BY <1>4, <3>1, <3>2, <3>3 DEF deprovisionCache
  <2>2. LocalOK' /\ CopyOK' /\ WantOK'
    <3>1. GotoAfter("create", redis' # redis) /\ (redis' # redis) \in BOOLEAN /\ pc = "deprovision"
      BY <1>4 DEF deprovisionCache
    <3> QED BY <3>1, <2>1, <1>t, GotoTypes DEF Steps
  <2>3. OtherOK'
    BY <1>4, <2>1, <1>t DEF deprovisionCache, OtherOK
  <2> QED BY <1>4, <2>1, <2>2, <2>3, <1>d DEF deprovisionCache
<1>5. CASE CreateDeployment
  <2>1. LocalOK' /\ CopyOK' /\ WantOK'
    BY <1>5, <1>t, <1>b, ReturnTypes DEF CreateDeployment
  <2>2. DepOK'
    <3>1. mem \in Pulp
      BY <1>5, <1>m DEF CreateDeployment
    <3>2. HashFromMutated(mem) \in Deployments /\ hashBuilt(mem) \in Deployments
      BY <3>1, HashBuiltTypes
    <3>3. PICK label \in {HashFromMutated(mem), hashBuilt(mem)} :
            dep' = [spec |-> Mutated(build(mem)), label |-> label]
      BY <1>5 DEF CreateDeployment
    <3> QED BY <3>1, <3>2, <3>3, WrittenTypes DEF DepOK
  <2>3. CountOK'
    BY <1>5, <1>t, <1>c, FaultTypes DEF CreateDeployment
  <2> QED BY <1>5, <2>1, <2>2, <2>3, <1>o DEF CreateDeployment
<1>6. CASE CreateTelemetry
  <2>1. LocalOK' /\ CopyOK' /\ WantOK'
    BY <1>6, <1>t, <1>b, ReturnTypes DEF CreateTelemetry
  <2>2. OtherOK'
    BY <1>6, <1>t DEF CreateTelemetry, OtherOK, NextTelemetry, Telemetry
  <2> QED BY <1>6, <2>1, <2>2, <1>d, <1>c DEF CreateTelemetry
<1>7. CASE CheckDeploymentSpec
  <2>1. LocalOK' /\ CopyOK' /\ WantOK'
    BY <1>7, <1>t, CompareTypes DEF CheckDeploymentSpec
  <2>2. CountOK'
    BY <1>7, <1>t, <1>c, FaultTypes DEF CheckDeploymentSpec
  <2> QED BY <1>7, <2>1, <2>2, <1>d, <1>o DEF CheckDeploymentSpec
<1>8. CASE updateObject
  <2>1. LocalOK' /\ CopyOK' /\ WantOK'
    BY <1>8, <1>t, <1>b, ReturnTypes DEF updateObject
  <2>2. CountOK'
    BY <1>8, <1>t, <1>c, FaultTypes DEF updateObject
  <2>3. DepOK'
    <3>1. mem \in Pulp
      BY <1>8, <1>m DEF updateObject
    <3>2. want.label \in Deployments
      BY <1>8, <3>1, HashBuiltTypes DEF updateObject, WriteInv
    <3>3. dep' = dep \/ dep' = [spec |-> Mutated(build(mem)), label |-> want.label]
      BY <1>8 DEF updateObject
    <3>4. CASE dep' = [spec |-> Mutated(build(mem)), label |-> want.label]
      BY <3>1, <3>2, <3>4, WrittenTypes DEF DepOK
    <3> QED BY <3>3, <3>4, <1>d
  <2> QED BY <1>8, <2>1, <2>2, <2>3, <1>o DEF updateObject
<1>9. CASE pdbController
  <2>0. mem \in Pulp /\ mem.spec.pdb \subseteq Budgets /\ pc = "pdb"
    BY <1>9, <1>m, SpecFields DEF pdbController
  <2>1. OtherOK'
    BY <1>9, <2>0, <1>t DEF pdbController, OtherOK
  <2>2. CountOK'
    BY <1>9, <1>t, <1>c, FaultTypes DEF pdbController
  <2>3. LocalOK' /\ CopyOK' /\ WantOK'
    <3>1. CASE GotoAfter("hpa", pdb' # pdb) /\ Same
      <4>1. (pdb' # pdb) \in BOOLEAN
        OBVIOUS
      <4> QED BY <3>1, <4>1, <2>0, <1>s, <1>t, GotoTypes DEF Steps
    <3>2. CASE Return(TRUE)
      BY <3>2, <1>t, <1>b, ReturnTypes
    <3> QED BY <1>9, <3>1, <3>2 DEF pdbController
  <2> QED BY <1>9, <2>1, <2>2, <2>3, <1>d DEF pdbController
<1>10. CASE reconcileHPA
  <2>0. mem \in Pulp /\ pc = "hpa" /\ buildHPA(mem) \in Autoscalers \cup {Absent}
    BY <1>10, <1>m, BuildHPATypes DEF reconcileHPA
  <2>1. OtherOK'
    BY <1>10, <2>0, <1>t DEF reconcileHPA, OtherOK
  <2>2. CountOK'
    BY <1>10, <1>t, <1>c, FaultTypes DEF reconcileHPA
  <2>3. LocalOK' /\ CopyOK' /\ WantOK'
    <3>1. CASE GotoAfter("telemetry", hpa' # hpa) /\ Same
      <4>1. (hpa' # hpa) \in BOOLEAN
        OBVIOUS
      <4> QED BY <3>1, <4>1, <2>0, <1>s, <1>t, GotoTypes DEF Steps
    <3>2. CASE Return(TRUE)
      BY <3>2, <1>t, <1>b, ReturnTypes
    <3> QED BY <1>10, <3>1, <3>2 DEF reconcileHPA
  <2> QED BY <1>10, <2>1, <2>2, <2>3, <1>d DEF reconcileHPA
<1>11. CASE RemoveTelemetryResources
  <2>0. mem \in Pulp /\ pc = "telemetry"
    BY <1>11, <1>m DEF RemoveTelemetryResources
  <2>1. cr' \in Pulp /\ mem' \in Pulp /\ fresh' = fresh /\ CountOK' /\ otel' \subseteq Telemetry
    <3>1. CASE otel' = {} /\ Store([mem EXCEPT !.st.otel = FALSE])
      <4>1. [mem EXCEPT !.st.otel = FALSE] \in Pulp
        BY <2>0, <1>b, StatusTypes
      <4> QED BY <3>1, <4>1, <1>t, StoreTypes
    <3>2. ASSUME NEW left \in SUBSET otel \ {{}}, otel' = left, Fault,
                 mem' = [mem EXCEPT !.st.otel = FALSE], UNCHANGED fresh, cr' = IF fresh THEN mem' ELSE cr
          PROVE  cr' \in Pulp /\ mem' \in Pulp /\ fresh' = fresh /\ CountOK' /\ otel' \subseteq Telemetry
      <4>1. mem' \in Pulp
        BY <2>0, <3>2, <1>b, StatusTypes
      <4> QED BY <3>2, <4>1, <1>t, FaultTypes DEF CopyOK, OtherOK
    <3>3. CASE Same /\ UNCHANGED <<otel, counts>>
      BY <3>3, <2>0, <1>s, <1>t, <1>c DEF OtherOK, Same
    <3> QED BY <1>11, <3>1, <3>2, <3>3 DEF RemoveTelemetryResources
  <2>2. LocalOK' /\ CopyOK' /\ WantOK'
    <3>1. GotoAfter("status", otel' # otel) /\ (otel' # otel) \in BOOLEAN
      BY <1>11 DEF RemoveTelemetryResources
    <3> QED BY <3>1, <2>0, <2>1, <1>t, GotoTypes DEF Steps
  <2>3. OtherOK'
    BY <1>11, <2>1, <1>t DEF RemoveTelemetryResources, OtherOK
  <2> QED BY <1>11, <2>1, <2>2, <2>3, <1>d DEF RemoveTelemetryResources
<1>12. CASE setStatusFields
  <2>0. mem.spec.otel \in BOOLEAN
    BY <1>12, <1>m, SpecFields DEF setStatusFields
  <2>1. cr' \in Pulp
    <3>1. [cr EXCEPT !.st.otel = mem.spec.otel] \in Pulp
      BY <2>0, <1>t, StatusTypes DEF CopyOK
    <3> QED BY <1>12, <3>1, <1>t DEF setStatusFields, CopyOK
  <2>2. CountOK'
    BY <1>12, <1>t, <1>c, FaultTypes DEF setStatusFields
  <2>3. LocalOK' /\ CopyOK' /\ WantOK'
    BY <1>12, <2>1, <1>t, <1>b, EndTypes DEF setStatusFields
  <2> QED BY <1>12, <2>2, <2>3, <1>d, <1>o DEF setStatusFields
<1>13. CASE Crash
  <2>1. LocalOK' /\ CopyOK' /\ WantOK'
    BY <1>13, <1>t, <1>b, ReturnTypes DEF Crash
  <2> QED BY <1>13, <2>1, <1>t, <1>d, <1>o, FaultTypes DEF Crash
<1>14. ASSUME NEW s \in Specs, EditSpec(s)
       PROVE  (LocalOK /\ CopyOK /\ DepOK /\ WantOK /\ OtherOK /\ CountOK)'
  <2>1. cr' \in Pulp
    BY <1>14, <1>t, EditTypes DEF EditSpec, CopyOK
  <2>2. CountOK'
    BY <1>14, <1>t, Numbers DEF EditSpec, CountOK
  <2>3. LocalOK' /\ CopyOK' /\ WantOK'
    BY <1>14, <2>1, <1>t DEF EditSpec, CopyOK, WantOK
  <2> QED BY <1>14, <2>2, <2>3, <1>d, <1>o DEF EditSpec
<1>15. CASE Drift
  <2>1. CountOK'
    <3>1. edits < MaxEdits /\ edits' = edits + 1 /\ UNCHANGED <<scales, faults>>
      BY <1>15 DEF Drift
    <3> QED BY <3>1, <1>t, Numbers DEF CountOK
  <2>2. LocalOK' /\ CopyOK' /\ WantOK'
    BY <1>15, <1>t DEF Drift, CopyOK, WantOK
  <2>3. OtherOK'
    BY <1>15, <1>t, <1>o DEF Drift, OtherOK
  <2>4. DepOK'
    <3>1. ASSUME NEW i \in Images, NEW k \in Sizes, dep # Absent,
                 dep' = [dep EXCEPT !.spec.template.image = i, !.spec.replicas = k]
          PROVE  DepOK'
      <4>1. dep' \in Owned /\ dep'.spec.full = dep.spec.full /\ dep'.spec.replicas = k
        BY <3>1, <1>t DEF DepOK, Owned, Deployments, Templates
      <4> QED BY <4>1, <3>1, <1>t, Numbers DEF DepOK
    <3>2. CASE dep' = Absent
      BY <3>2 DEF DepOK
    <3> QED BY <1>15, <3>1, <3>2, <1>d DEF Drift
  <2> QED BY <2>1, <2>2, <2>3, <2>4
<1>16. ASSUME NEW k \in Sizes, Scale(k)
       PROVE  (LocalOK /\ CopyOK /\ DepOK /\ WantOK /\ OtherOK /\ CountOK)'
  <2>1. CountOK'
    BY <1>16, <1>t, Numbers DEF Scale, CountOK
  <2>2. LocalOK' /\ CopyOK' /\ WantOK'
    BY <1>16, <1>t DEF Scale, CopyOK, WantOK
  <2>3. DepOK'
    <3>1. dep' \in Owned /\ dep'.spec.full = dep.spec.full /\ dep'.spec.replicas = k
      BY <1>16, <1>t DEF Scale, DepOK, Owned, Deployments
    <3> QED BY <3>1, <1>16, <1>t, Numbers DEF DepOK, Scale
  <2> QED BY <1>16, <2>1, <2>2, <2>3, <1>o DEF Scale
<1>17. CASE UNCHANGED vars
  BY <1>17, <1>t, <1>d, <1>o, <1>c DEF vars, optional, counts, CopyOK, WantOK
<1> QED
  BY <1>1, <1>2, <1>3, <1>4, <1>5, <1>6, <1>7, <1>8, <1>9, <1>10, <1>11, <1>12, <1>13, <1>14, <1>15, <1>16, <1>17
  DEF Next, Operator

-----------------------------------------------------------------------------
(* Which steps leave what the copy says, and what is about to be written.   *)
LEMMA WriteStep ==
  ASSUME TypeOK, WriteInv, [Next]_vars
  PROVE  WriteInv'
<1>t. LocalOK /\ CopyOK /\ DepOK /\ WantOK /\ OtherOK /\ CountOK
  BY TypeParts
<1>1. CASE CheckDeploymentSpec
  <2>m. mem' = mem
    BY <1>1 DEF CheckDeploymentSpec, Same
  <2>1. CASE Compare(HashFromMutated(mem), HashFromMutated(mem), dep)
    <3>1. ASSUME pc' = "write"
          PROVE  want' = [label |-> HashFromMutated(mem), saw |-> dep]
                 /\ deploymentChanged(dep, HashFromMutated(mem), mem)
      BY <2>1, <3>1 DEF Compare
    <3>2. ASSUME pc' = "write"
          PROVE  want'.label = HashFromMutated(mem) /\ want'.saw = dep
      BY <3>1, <3>2
    <3> QED BY <3>1, <3>2, <2>m DEF WriteInv, HashFromMutated, hashBuilt, deploymentChanged
  <2>2. ASSUME NEW e \in {HashFromMutated(mem), hashBuilt(mem)}, Compare(e, hashBuilt(mem), Absent)
        PROVE  WriteInv'
    <3>1. ASSUME pc' = "write"
          PROVE  want'.label = hashBuilt(mem) /\ want'.saw = Absent
      BY <2>2, <3>1 DEF Compare
    <3> QED BY <3>1, <2>m DEF WriteInv, HashFromMutated, hashBuilt
  <2> QED BY <1>1, <2>1, <2>2 DEF CheckDeploymentSpec
<1>2. CASE ~CheckDeploymentSpec
  <2>1. pc' = "write" => pc = "write" /\ UNCHANGED <<want, mem>>
    <3>1. CASE StartReconcile \/ pulpCacheController \/ NoCacheTasks \/ deprovisionCache
      BY <3>1 DEF StartReconcile, pulpCacheController, NoCacheTasks, deprovisionCache, Return, End, Goto, GotoAfter
    <3>2. CASE CreateDeployment \/ CreateTelemetry \/ updateObject \/ pdbController \/ reconcileHPA
      BY <3>2 DEF CreateDeployment, CreateTelemetry, updateObject, pdbController, reconcileHPA, Return, End, GotoAfter
    <3>3. CASE RemoveTelemetryResources \/ setStatusFields \/ Crash
      BY <3>3 DEF RemoveTelemetryResources, setStatusFields, Crash, Return, End, GotoAfter
    <3>4. ASSUME NEW s \in Specs, EditSpec(s) PROVE UNCHANGED <<pc, want, mem>>
      BY <3>4 DEF EditSpec
    <3>5. CASE Drift \/ UNCHANGED vars
      BY <3>5 DEF Drift, vars
    <3>6. ASSUME NEW k \in Sizes, Scale(k) PROVE UNCHANGED <<pc, want, mem>>
      BY <3>6 DEF Scale
    <3> QED BY <1>2, <3>1, <3>2, <3>3, <3>4, <3>5, <3>6 DEF Next, Operator
  <2> QED BY <2>1 DEF WriteInv, HashFromMutated, hashBuilt, deploymentChanged
<1> QED BY <1>1, <1>2

LEMMA WorkloadInit == Init => TypeOK /\ WriteInv
<1> SUFFICES ASSUME Init PROVE TypeOK /\ WriteInv
  OBVIOUS
<1>1. PICK s \in Installed : cr = [spec |-> s, st |-> [cache |-> FALSE, otel |-> FALSE]]
  BY DEF Init
<1>2. cr \in Pulp
  BY <1>1, WorkloadConstants DEF Pulp, Status
<1>3. 0 \in 0..MaxEdits /\ 0 \in 0..MaxScales /\ 0 \in 0..MaxFaults
  BY Numbers
<1>4. LocalOK /\ CopyOK /\ DepOK /\ WantOK /\ OtherOK /\ CountOK
  BY <1>2, <1>3 DEF Init, LocalOK, CopyOK, DepOK, WantOK, OtherOK, CountOK, Steps
<1> QED BY <1>4, TypeParts DEF Init, WriteInv

LEMMA WorkloadInvariant == Spec => [](TypeOK /\ WriteInv)
<1>1. TypeOK /\ WriteInv /\ [Next]_vars => TypeOK' /\ WriteInv'
  BY TypeStep, WriteStep
<1> QED BY <1>1, WorkloadInit, PTL DEF Spec

(* TypeOK of PulpWorkloads, for any .spec and any number of edits, scalings *)
(* and faults; the autoscaler's minimum is never 0, and a Deployment that   *)
(* is written is complete.                                                  *)
THEOREM WorkloadTypeCorrect == Spec => []TypeOK
  BY WorkloadInvariant, PTL

-----------------------------------------------------------------------------
(* What the dry run saw and what is written do not differ in replicas only. *)
LEMMA ScalingStep ==
  ASSUME TypeOK, WriteInv, [Next]_vars,
         pc = "write", pc' # pc, mem.spec.hpa.on, want.saw # Absent, dep # Absent,
         dep'.spec.replicas # dep.spec.replicas
  PROVE  dep'.spec.template # dep.spec.template \/ dep'.label # dep.label
<1>t. LocalOK /\ CopyOK /\ DepOK /\ WantOK /\ OtherOK /\ CountOK
  BY TypeParts
<1>1. updateObject \/ Crash
  BY DEF Next, Operator, StartReconcile, pulpCacheController, NoCacheTasks, deprovisionCache, CreateDeployment,
         CreateTelemetry, CheckDeploymentSpec, pdbController, reconcileHPA, RemoveTelemetryResources,
         setStatusFields, EditSpec, Drift, Scale, vars
<1>2. dep' # dep
  OBVIOUS
<1>3. dep' = [spec |-> Mutated(build(mem)), label |-> want.label] /\ want.saw = dep
  BY <1>1, <1>2 DEF updateObject, Crash
<1>4. want.label = HashFromMutated(mem) /\ deploymentChanged(dep, HashFromMutated(mem), mem)
  BY <1>3 DEF WriteInv
<1>5. mem \in Pulp /\ dep \in Owned /\ dep.spec \in Deployments /\ dep.spec.full = TRUE
  BY <1>t, Copy DEF DepOK, Owned, Deployments
<1>6. SUFFICES ASSUME dep'.spec.template = dep.spec.template, dep'.label = dep.label
               PROVE  FALSE
  OBVIOUS
<1>7. dep.label = HashFromMutated(mem) /\ dep.spec.template = template(mem)
  BY <1>3, <1>4, <1>5, <1>6, BuildTypes
<1>8. CalculateDeploymentHash(dep.spec, mem) # HashFromMutated(mem)
  BY <1>4, <1>7 DEF deploymentChanged
<1>9. Mutated(build(mem)) \in Deployments /\ Mutated(build(mem)).full = TRUE
      /\ Mutated(build(mem)).template = template(mem)
  BY <1>5, BuildTypes
<1>10. ASSUME NEW d \in Deployments, NEW e \in Deployments, d.template = e.template, d.full = e.full,
              d.replicas = e.replicas
       PROVE  d = e
  BY <1>10 DEF Deployments
<1>11. /\ CalculateDeploymentHash(dep.spec, mem) \in Deployments
       /\ CalculateDeploymentHash(dep.spec, mem).template = template(mem)
       /\ CalculateDeploymentHash(dep.spec, mem).full = TRUE
       /\ CalculateDeploymentHash(dep.spec, mem).replicas = Unset
  BY <1>5, <1>7, HashTypes
<1>12. /\ HashFromMutated(mem) \in Deployments
       /\ HashFromMutated(mem).template = template(mem)
       /\ HashFromMutated(mem).full = TRUE
       /\ HashFromMutated(mem).replicas = Unset
  BY <1>5, <1>9, HashTypes DEF HashFromMutated
<1> QED BY <1>8, <1>10, <1>11, <1>12

(* The operator does not undo what the autoscaler did: ScalingKept of       *)
(* PulpWorkloads, for any number of replicas and scalings.                  *)
THEOREM AutoscalerKept == Spec => ScalingKept
<1>1. TypeOK /\ WriteInv /\ [Next]_vars =>
        [pc = "write" /\ pc' # pc /\ mem.spec.hpa.on /\ want.saw # Absent /\ dep # Absent
           /\ dep'.spec.replicas # dep.spec.replicas
         => dep'.spec.template # dep.spec.template \/ dep'.label # dep.label]_vars
  BY ScalingStep
<1> QED BY <1>1, WorkloadInvariant, PTL DEF Spec, ScalingKept

-----------------------------------------------------------------------------
(* .status and what it tells of.  As long as updates of the copy would be   *)
(* accepted, the copy has forgotten only what is gone.                      *)
RecordInv ==
  /\ pc # "idle" /\ fresh =>
       /\ mem.spec = cr.spec
       /\ cr.st.cache /\ ~mem.st.cache => redis = {}
       /\ cr.st.otel /\ ~mem.st.otel => otel = {}
  /\ pc = "status" => ~(mem.st.otel /\ ~mem.spec.otel)

RecordedStep ==
  faults' = faults =>
    /\ cr.st.cache /\ ~cr'.st.cache => redis' = {}
    /\ cr.st.otel /\ ~cr'.st.otel => otel' = {}

LEMMA StoreStep ==
  ASSUME CountOK, NEW p \in Pulp, Store(p)
  PROVE  /\ mem' = p /\ fresh' = fresh
         /\ cr' = (IF fresh THEN p ELSE cr) \/ (cr' = cr /\ fresh)
  BY DEF Store

LEMMA RecordStep ==
  ASSUME TypeOK, RecordInv, [Next]_vars
  PROVE  RecordInv' /\ RecordedStep
<1>t. LocalOK /\ CopyOK /\ DepOK /\ WantOK /\ OtherOK /\ CountOK
  BY TypeParts
<1>c. cr \in Pulp /\ cr.st.cache \in BOOLEAN /\ cr.st.otel \in BOOLEAN
  BY <1>t DEF CopyOK, Pulp, Status
<1>m. pc # "idle" => /\ mem \in Pulp /\ mem.st.cache \in BOOLEAN /\ mem.st.otel \in BOOLEAN
                     /\ mem.spec.otel \in BOOLEAN
  BY <1>t, Copy, SpecFields DEF Status
<1>b. TRUE \in BOOLEAN /\ FALSE \in BOOLEAN
  OBVIOUS
<1>i. pc' = "idle" /\ cr' = cr => RecordInv' /\ RecordedStep
  BY DEF RecordInv, RecordedStep
<1>1. CASE StartReconcile
  BY <1>1 DEF StartReconcile, RecordInv, RecordedStep
<1>2. CASE pulpCacheController
  <2>1. CASE RedisMissing(mem)
    BY <1>2, <2>1, <1>i DEF pulpCacheController, Return, End
  <2>2. CASE ~RedisMissing(mem)
    <3> DEFINE p == [mem EXCEPT !.st.cache = TRUE]
    <3>1. p \in Pulp /\ p.spec = mem.spec /\ p.st.cache = TRUE /\ p.st.otel = mem.st.otel
      BY <1>2, <1>m, <1>b, StatusTypes DEF pulpCacheController
    <3>2. Store(p) /\ pc = "cache" /\ pc' = "deprovision" /\ UNCHANGED <<redis, otel>>
      BY <1>2, <2>2 DEF pulpCacheController, Goto
    <3> HIDE DEF p
    <3>3. mem' = p /\ fresh' = fresh /\ (cr' = (IF fresh THEN p ELSE cr) \/ (cr' = cr /\ fresh))
      BY <3>1, <3>2, <1>t, StoreStep
    <3> QED BY <3>1, <3>2, <3>3 DEF RecordInv, RecordedStep
  <2> QED BY <2>1, <2>2
<1>3. CASE NoCacheTasks
  BY <1>3 DEF NoCacheTasks, Same, Goto, optional, RecordInv, RecordedStep
<1>4. CASE deprovisionCache
  <2>0. pc = "deprovision" /\ pc' = "create" /\ otel' = otel /\ (mem.spec.cache = "own") \in BOOLEAN
    BY <1>4 DEF deprovisionCache, GotoAfter
  <2>1. CASE redis' = {} /\ Store([mem EXCEPT !.st.cache = mem.spec.cache = "own"])
    <3>0. PICK v \in BOOLEAN : v = (mem.spec.cache = "own")
      BY <2>0
    <3> DEFINE p == [mem EXCEPT !.st.cache = v]
    <3>m. mem \in Pulp
      BY <2>0, <1>m
    <3>1. p \in Pulp /\ p.spec = mem.spec /\ p.st.otel = mem.st.otel
      BY <3>m DEF Pulp, Status
    <3>2. Store(p)
      BY <2>1, <3>0
    <3> HIDE DEF p
    <3>3. mem' = p /\ fresh' = fresh /\ (cr' = (IF fresh THEN p ELSE cr) \/ (cr' = cr /\ fresh))
      BY <3>1, <3>2, <1>t, StoreStep
    <3> QED BY <2>0, <2>1, <3>1, <3>3 DEF RecordInv, RecordedStep
  <2>2. CASE Fault /\ UNCHANGED fresh /\ mem' = [mem EXCEPT !.st.cache = FALSE]
               /\ cr' = IF fresh THEN mem' ELSE cr
    <3>1. faults' # faults
      BY <2>2, <1>t, FaultTypes
    <3>2. mem'.spec = mem.spec
      BY <2>0, <2>2, <1>m, <1>b, StatusTypes
    <3> QED BY <2>0, <2>2, <3>1 DEF RecordInv, RecordedStep
  <2>3. CASE Same /\ UNCHANGED redis
    BY <2>0, <2>3 DEF Same, RecordInv, RecordedStep
  <2> QED BY <1>4, <2>1, <2>2, <2>3 DEF deprovisionCache
<1>5. CASE CreateDeployment \/ CreateTelemetry \/ updateObject \/ Crash
  BY <1>5, <1>i DEF CreateDeployment, CreateTelemetry, updateObject, Crash, Return, End
<1>6. CASE CheckDeploymentSpec
  BY <1>6 DEF CheckDeploymentSpec, Compare, Same, optional, RecordInv, RecordedStep
<1>7. CASE pdbController
  <2>1. CASE Return(TRUE)
    BY <2>1, <1>i DEF Return, End
  <2>2. CASE GotoAfter("hpa", pdb' # pdb) /\ Same
    BY <1>7, <2>2 DEF pdbController, GotoAfter, Same, RecordInv, RecordedStep
  <2> QED BY <1>7, <2>1, <2>2 DEF pdbController
<1>8. CASE reconcileHPA
  <2>1. CASE Return(TRUE)
    BY <2>1, <1>i DEF Return, End
  <2>2. CASE GotoAfter("telemetry", hpa' # hpa) /\ Same
    BY <1>8, <2>2 DEF reconcileHPA, GotoAfter, Same, RecordInv, RecordedStep
  <2> QED BY <1>8, <2>1, <2>2 DEF reconcileHPA
<1>9. CASE RemoveTelemetryResources
  <2>0. pc = "telemetry" /\ pc' = "status" /\ redis' = redis
    BY <1>9 DEF RemoveTelemetryResources, GotoAfter
  <2>1. CASE otel' = {} /\ Store([mem EXCEPT !.st.otel = FALSE])
    <3> DEFINE p == [mem EXCEPT !.st.otel = FALSE]
    <3>1. p \in Pulp /\ p.spec = mem.spec /\ p.st.cache = mem.st.cache /\ p.st.otel = FALSE
      BY <2>0, <1>m, <1>b, StatusTypes
    <3>2. Store(p)
      BY <2>1
    <3> HIDE DEF p
    <3>3. mem' = p /\ fresh' = fresh /\ (cr' = (IF fresh THEN p ELSE cr) \/ (cr' = cr /\ fresh))
      BY <3>1, <3>2, <1>t, StoreStep
    <3> QED BY <2>0, <2>1, <3>1, <3>3 DEF RecordInv, RecordedStep
  <2>2. CASE Fault /\ UNCHANGED fresh /\ mem' = [mem EXCEPT !.st.otel = FALSE]
               /\ cr' = IF fresh THEN mem' ELSE cr
    <3>1. faults' # faults
      BY <2>2, <1>t, FaultTypes
    <3>2. mem'.spec = mem.spec /\ mem'.st.otel = FALSE
      BY <2>0, <2>2, <1>m, <1>b, StatusTypes
    <3> QED BY <2>0, <2>2, <3>1, <3>2 DEF RecordInv, RecordedStep
  <2>3. CASE Same /\ UNCHANGED otel /\ ~TelemetryDisabled(mem)
    BY <2>0, <2>3 DEF Same, RecordInv, RecordedStep, TelemetryDisabled
  <2> QED BY <1>9, <2>1, <2>2, <2>3 DEF RemoveTelemetryResources
<1>10. CASE setStatusFields
  <2>0. pc = "status" /\ pc' = "idle" /\ UNCHANGED <<redis, otel>>
    BY <1>10 DEF setStatusFields, End, optional
  <2>1. CASE cr' = cr
    BY <2>0, <2>1, <1>i
  <2>2. CASE cr' = [cr EXCEPT !.st.otel = mem.spec.otel] /\ telemetryEnabledCondition
    <3>1. mem.spec.otel = TRUE
      BY <2>0, <2>2, <1>m DEF telemetryEnabledCondition, RecordInv
    <3>c. cr' = [cr EXCEPT !.st.otel = TRUE]
      BY <2>2, <3>1
    <3>2. cr'.st.cache = cr.st.cache /\ cr'.st.otel = TRUE
      BY <3>c, <1>c, <1>b, StatusTypes
    <3> QED BY <2>0, <3>2 DEF RecordInv, RecordedStep
  <2> QED BY <1>10, <2>1, <2>2 DEF setStatusFields
<1>11. ASSUME NEW s \in Specs, EditSpec(s) PROVE RecordInv' /\ RecordedStep
  <2>1. cr'.st = cr.st
    BY <1>11, <1>c, EditTypes DEF EditSpec
  <2> QED BY <1>11, <2>1 DEF EditSpec, RecordInv, RecordedStep
<1>12. CASE Drift
  <2>1. UNCHANGED <<pc, cr, mem, fresh>> /\ redis' \subseteq redis /\ otel' \subseteq otel
    BY <1>12 DEF Drift, optional
  <2> QED BY <2>1 DEF RecordInv, RecordedStep
<1>13. ASSUME NEW k \in Sizes, Scale(k) PROVE RecordInv' /\ RecordedStep
  BY <1>13 DEF Scale, optional, RecordInv, RecordedStep
<1>14. CASE UNCHANGED vars
  BY <1>14 DEF vars, RecordInv, RecordedStep
<1> QED
  BY <1>1, <1>2, <1>3, <1>4, <1>5, <1>6, <1>7, <1>8, <1>9, <1>10, <1>11, <1>12, <1>13, <1>14 DEF Next, Operator

(* Redis and the telemetry objects are forgotten by .status only when they  *)
(* are gone: RecordedUntilRemoved of PulpWorkloads, whatever the sequence   *)
(* of edits, refused updates and restarts.                                  *)
THEOREM ForgottenWhenGone == Spec => RecordedUntilRemoved
<1>1. Init => RecordInv
  BY DEF Init, RecordInv
<1>2. TypeOK /\ RecordInv /\ [Next]_vars => RecordInv' /\ RecordedStep
  BY RecordStep
<1>3. RecordedStep => [faults' = faults =>
       /\ cr.st.cache /\ ~cr'.st.cache => redis' = {}
       /\ cr.st.otel /\ ~cr'.st.otel => otel' = {}]_vars
  BY DEF RecordedStep
<1> QED BY <1>1, <1>2, <1>3, WorkloadTypeCorrect, PTL DEF Spec, RecordedUntilRemoved

-----------------------------------------------------------------------------
(* What a reconciliation has brought in order stays so unless a request is  *)
(* queued, for nothing that .spec is compared with changes without one.     *)
Passed(S) == ~queue /\ pc \in S \cup {"idle"}

SpecRead  == ~queue /\ pc # "idle" => mem.spec = cr.spec
CacheDone == Passed({"deprovision", "create", "write", "pdb", "hpa", "telemetry", "status"}) =>
               (cr.spec.cache = "own" => redis = Redis)
DepDone   == Passed({"pdb", "hpa", "telemetry", "status"}) =>
               /\ dep # Absent /\ ~deploymentChanged(dep, HashFromMutated(cr), cr)
               /\ cr.spec.otel => otel = Telemetry
PdbDone   == Passed({"hpa", "telemetry", "status"}) =>
               cr.spec.pdb \subseteq pdb /\ (cr.spec.pdb = {} /\ faults = 0 => pdb = {})
HpaDone   == Passed({"telemetry", "status"}) => hpa = buildHPA(cr) \/ (~cr.spec.hpa.on /\ faults # 0)

CurrentInv == SpecRead /\ CacheDone /\ DepDone /\ PdbDone /\ HpaDone

(* Of the Pulp resource the builders look at .spec only.                    *)
LEMMA SameSpec ==
  ASSUME NEW p, NEW q, p.spec = q.spec
  PROVE  /\ HashFromMutated(p) = HashFromMutated(q) /\ hashBuilt(p) = hashBuilt(q)
         /\ \A d, e : deploymentChanged(d, e, p) = deploymentChanged(d, e, q)
         /\ buildHPA(p) = buildHPA(q)
<1>1. build(p) = build(q)
  BY DEF build, template, setReplicas
<1>2. \A d : CalculateDeploymentHash(d, p) = CalculateDeploymentHash(d, q)
  BY DEF CalculateDeploymentHash, isHPAManagedDeployment
<1> QED BY <1>1, <1>2 DEF HashFromMutated, hashBuilt, deploymentChanged, buildHPA

(* What a step other than the first of a reconciliation leaves as it was if *)
(* it queues no request.                                                    *)
Quiet ==
  /\ ~queue /\ pc # "idle"
  /\ cr'.spec = cr.spec /\ (pc' # "idle" => mem'.spec = cr.spec)
  /\ faults = 0 \/ faults' # 0

LEMMA QuietStore ==
  ASSUME CopyOK, CountOK, SpecRead, ~queue, pc # "idle", NEW p \in Pulp, p.spec = mem.spec, Store(p)
  PROVE  cr'.spec = cr.spec /\ mem'.spec = cr.spec /\ (faults = 0 \/ faults' # 0)
<1>1. mem.spec = cr.spec
  BY DEF SpecRead
<1>2. mem' = p /\ (cr' = p \/ cr' = cr)
  BY StoreStep
<1>3. faults = 0 \/ faults' # 0
  BY FaultTypes, SameCounts DEF Store
<1> QED BY <1>1, <1>2, <1>3

LEMMA QuietStep ==
  ASSUME TypeOK, SpecRead, Next, ~StartReconcile, ~queue'
  PROVE  Quiet
<1>t. LocalOK /\ CopyOK /\ DepOK /\ WantOK /\ OtherOK /\ CountOK
  BY TypeParts
<1>b. TRUE \in BOOLEAN /\ FALSE \in BOOLEAN
  OBVIOUS
<1>r. ~Return(TRUE)
  BY DEF Return, End
<1>m. pc # "idle" => mem \in Pulp
  BY <1>t, Copy
<1>f. Fault \/ UNCHANGED counts => faults = 0 \/ faults' # 0
  BY <1>t, FaultTypes, SameCounts
<1>s. ~queue /\ pc # "idle" /\ Same => cr'.spec = cr.spec /\ mem'.spec = cr.spec
  BY DEF Same, SpecRead
<1>1. CASE pulpCacheController
  <2>1. ~RedisMissing(mem)
    BY <1>1, <1>r DEF pulpCacheController
  <2>2. ~queue /\ pc # "idle" /\ Store([mem EXCEPT !.st.cache = TRUE])
    BY <1>1, <2>1 DEF pulpCacheController, Goto
  <2>3. [mem EXCEPT !.st.cache = TRUE] \in Pulp /\ [mem EXCEPT !.st.cache = TRUE].spec = mem.spec
    BY <2>2, <1>m, <1>b, StatusTypes
  <2> QED BY <2>2, <2>3, <1>t, QuietStore DEF Quiet
<1>2. CASE NoCacheTasks
  BY <1>2, <1>s, <1>f DEF NoCacheTasks, Goto, Quiet
<1>3. CASE deprovisionCache
  <2>0. ~queue /\ pc # "idle"
    BY <1>3 DEF deprovisionCache, GotoAfter
  <2>m. mem \in Pulp
    BY <2>0, <1>m
  <2>1. CASE Store([mem EXCEPT !.st.cache = mem.spec.cache = "own"])
    <3>0. PICK v \in BOOLEAN : v = (mem.spec.cache = "own")
      OBVIOUS
    <3>1. [mem EXCEPT !.st.cache = v] \in Pulp /\ [mem EXCEPT !.st.cache = v].spec = mem.spec
      BY <2>m DEF Pulp, Status
    <3>2. Store([mem EXCEPT !.st.cache = v])
      BY <2>1, <3>0
    <3> QED BY <2>0, <3>1, <3>2, <1>t, QuietStore DEF Quiet
  <2>2. CASE Fault /\ mem' = [mem EXCEPT !.st.cache = FALSE] /\ cr' = IF fresh THEN mem' ELSE cr
    <3>1. mem'.spec = mem.spec
      BY <2>2, <2>m, <1>b, StatusTypes
    <3>2. mem.spec = cr.spec
      BY <2>0 DEF SpecRead
    <3> QED BY <2>0, <2>2, <3>1, <3>2, <1>f DEF Quiet
  <2>3. CASE Same /\ UNCHANGED counts
    BY <2>0, <2>3, <1>s, <1>f DEF Quiet
  <2> QED BY <1>3, <2>1, <2>2, <2>3 DEF deprovisionCache
<1>4. CASE CheckDeploymentSpec
  BY <1>4, <1>s, <1>f DEF CheckDeploymentSpec, Quiet
<1>5. CASE pdbController
  BY <1>5, <1>r, <1>s, <1>f DEF pdbController, GotoAfter, Quiet
<1>6. CASE reconcileHPA
  BY <1>6, <1>r, <1>s, <1>f DEF reconcileHPA, GotoAfter, Quiet
<1>7. CASE RemoveTelemetryResources
  <2>0. ~queue /\ pc # "idle"
    BY <1>7 DEF RemoveTelemetryResources, GotoAfter
  <2>m. mem \in Pulp
    BY <2>0, <1>m
  <2>e. [mem EXCEPT !.st.otel = FALSE] \in Pulp /\ [mem EXCEPT !.st.otel = FALSE].spec = mem.spec
    BY <2>m, <1>b, StatusTypes
  <2>1. CASE Store([mem EXCEPT !.st.otel = FALSE])
    BY <2>0, <2>1, <2>e, <1>t, QuietStore DEF Quiet
  <2>2. CASE Fault /\ mem' = [mem EXCEPT !.st.otel = FALSE] /\ cr' = IF fresh THEN mem' ELSE cr
    <3>1. mem.spec = cr.spec
      BY <2>0 DEF SpecRead
    <3> QED BY <2>0, <2>2, <2>e, <3>1, <1>f DEF Quiet
  <2>3. CASE Same /\ UNCHANGED counts
    BY <2>0, <2>3, <1>s, <1>f DEF Quiet
  <2> QED BY <1>7, <2>1, <2>2, <2>3 DEF RemoveTelemetryResources
<1>8. CASE setStatusFields
  <2>1. ~queue /\ pc # "idle" /\ pc' = "idle"
    BY <1>8 DEF setStatusFields, End
  <2>2. mem.spec.otel \in BOOLEAN /\ cr \in Pulp
    BY <2>1, <1>t, Copy, SpecFields DEF CopyOK
  <2>3. [cr EXCEPT !.st.otel = mem.spec.otel].spec = cr.spec
    BY <2>2 DEF Pulp
  <2> QED BY <1>8, <2>1, <2>3, <1>f DEF setStatusFields, Quiet
<1>9. ~(CreateDeployment \/ CreateTelemetry \/ updateObject \/ Crash)
  BY <1>r DEF CreateDeployment, CreateTelemetry, updateObject, Crash
<1>10. ~Drift /\ (\A s \in Specs : ~EditSpec(s)) /\ (\A k \in Sizes : ~Scale(k))
  BY DEF Drift, EditSpec, Scale
<1> QED BY <1>1, <1>2, <1>3, <1>4, <1>5, <1>6, <1>7, <1>8, <1>9, <1>10 DEF Next, Operator

LEMMA CurrentStep ==
  ASSUME TypeOK, CurrentInv, [Next]_vars
  PROVE  CurrentInv'
<1>t. LocalOK /\ CopyOK /\ DepOK /\ WantOK /\ OtherOK /\ CountOK
  BY TypeParts
<1>i. SpecRead /\ CacheDone /\ DepDone /\ PdbDone /\ HpaDone
  BY DEF CurrentInv
<1>1. CASE queue'
  BY <1>1 DEF CurrentInv, SpecRead, CacheDone, DepDone, PdbDone, HpaDone, Passed
<1>2. CASE StartReconcile
  BY <1>2 DEF StartReconcile, CurrentInv, SpecRead, CacheDone, DepDone, PdbDone, HpaDone, Passed
<1>3. CASE UNCHANGED vars
  BY <1>3 DEF vars, CurrentInv, SpecRead, CacheDone, DepDone, PdbDone, HpaDone, Passed, buildHPA, HashFromMutated,
              CalculateDeploymentHash, isHPAManagedDeployment, Mutated, build, template, setReplicas, deploymentChanged
<1>4. CASE Next /\ ~StartReconcile /\ ~queue'
  <2>q. Quiet
    BY <1>4, <1>i, QuietStep
  <2>s. ~queue /\ mem.spec = cr.spec /\ cr'.spec = cr.spec
    BY <2>q, <1>i DEF Quiet, SpecRead
  <2>f. faults' = 0 => faults = 0
    BY <2>q DEF Quiet
  <2>h. /\ HashFromMutated(cr)' = HashFromMutated(cr)
        /\ deploymentChanged(dep, HashFromMutated(cr), cr)' = deploymentChanged(dep', HashFromMutated(cr), cr)
        /\ buildHPA(cr)' = buildHPA(cr)
    BY <2>s DEF buildHPA, HashFromMutated, CalculateDeploymentHash, isHPAManagedDeployment, Mutated, build,
                template, setReplicas, deploymentChanged
  <2>m. HashFromMutated(mem) = HashFromMutated(cr) /\ buildHPA(mem) = buildHPA(cr)
        /\ \A e : deploymentChanged(dep, e, mem) = deploymentChanged(dep, e, cr)
    BY <2>s, SameSpec
  <2>r. ~Return(TRUE)
    BY <1>4 DEF Return, End, GotoAfter
  <2>0. SpecRead'
    BY <2>q DEF Quiet, SpecRead
  <2>1. CASE pulpCacheController
    <3>1. pc' = "deprovision" /\ redis' = redis /\ redis = Redis
      BY <2>1, <2>r DEF pulpCacheController, Goto, RedisMissing
    <3> QED BY <2>0, <3>1 DEF CurrentInv, CacheDone, DepDone, PdbDone, HpaDone, Passed
  <2>2. CASE NoCacheTasks
    <3>1. pc' = "deprovision" /\ cr'.spec.cache # "own"
      BY <2>2, <2>s DEF NoCacheTasks, Goto
    <3> QED BY <2>0, <3>1 DEF CurrentInv, CacheDone, DepDone, PdbDone, HpaDone, Passed
  <2>3. CASE deprovisionCache
    <3>1. pc = "deprovision" /\ pc' = "create" /\ redis' = redis
      BY <2>3, <1>4 DEF deprovisionCache, GotoAfter
    <3> QED BY <2>0, <2>s, <3>1, <1>i DEF CurrentInv, CacheDone, DepDone, PdbDone, HpaDone, Passed
  <2>4. CASE CheckDeploymentSpec
    <3>1. pc = "create" /\ pc' \in {"write", "pdb"} /\ redis' = redis
      BY <2>4 DEF CheckDeploymentSpec, Compare, optional
    <3>2. CacheDone'
      BY <2>s, <3>1, <1>i DEF CacheDone, Passed
    <3>3. ASSUME pc' = "pdb"
          PROVE  dep' # Absent /\ ~deploymentChanged(dep', HashFromMutated(cr), cr) /\ (cr.spec.otel => otel' = Telemetry)
      <4>1. dep' = dep /\ otel' = otel /\ dep # Absent /\ (cr.spec.otel => otel = Telemetry)
        BY <2>4, <2>s DEF CheckDeploymentSpec, optional
      <4>2. \/ ~deploymentChanged(dep, HashFromMutated(mem), mem)
            \/ ~deploymentChanged(dep, hashBuilt(mem), mem)
        BY <2>4, <3>3 DEF CheckDeploymentSpec, Compare
      <4>3. mem \in Pulp /\ dep \in Owned /\ dep.spec \in Deployments /\ dep.spec.full = TRUE
        BY <3>1, <4>1, <1>t, Copy DEF DepOK, Owned, Deployments
      <4>4. CalculateDeploymentHash(dep.spec, mem).full = TRUE /\ hashBuilt(mem).full = FALSE
        BY <4>3, HashTypes, HashBuiltTypes
      <4>5. CalculateDeploymentHash(dep.spec, mem) # hashBuilt(mem)
        BY <4>4
      <4>6. ~deploymentChanged(dep, HashFromMutated(mem), mem)
        BY <4>2, <4>5 DEF deploymentChanged
      <4> QED BY <4>1, <4>6, <2>m
    <3>4. DepDone'
      BY <3>1, <3>3, <2>h, <2>s DEF DepDone, Passed
    <3> QED BY <2>0, <3>1, <3>2, <3>4 DEF CurrentInv, PdbDone, HpaDone, Passed
  <2>5. CASE pdbController
    <3>1. /\ pc = "pdb" /\ pc' = "hpa" /\ UNCHANGED <<dep, redis, otel>> /\ pdb' = pdb
          /\ mem.spec.pdb = {} \/ mem.spec.pdb \subseteq pdb
          /\ mem.spec.pdb = {} => pdb' = {} \/ Fault
      BY <2>5, <2>r, <1>4 DEF pdbController, GotoAfter
    <3>2. CacheDone' /\ DepDone'
      BY <2>s, <2>h, <3>1, <1>i DEF CacheDone, DepDone, Passed
    <3>3. Fault => faults' # 0
      BY <1>t, FaultTypes
    <3>4. PdbDone'
      BY <2>s, <3>1, <3>3 DEF PdbDone, Passed
    <3> QED BY <2>0, <3>1, <3>2, <3>4 DEF CurrentInv, HpaDone, Passed
  <2>6. CASE reconcileHPA
    <3>1. /\ pc = "hpa" /\ pc' = "telemetry" /\ UNCHANGED <<dep, redis, otel, pdb>>
          /\ hpa' = buildHPA(mem) \/ (~mem.spec.hpa.on /\ Fault)
      BY <2>6, <2>r DEF reconcileHPA, GotoAfter
    <3>2. CacheDone' /\ DepDone'
      BY <2>s, <2>h, <3>1, <1>i DEF CacheDone, DepDone, Passed
    <3>3. PdbDone'
      BY <2>s, <2>f, <3>1, <1>i DEF PdbDone, Passed
    <3>5. Fault => faults' # 0
      BY <1>t, FaultTypes
    <3>4. HpaDone'
      BY <3>1, <3>5, <2>h, <2>m, <2>s DEF HpaDone
    <3> QED BY <2>0, <3>2, <3>3, <3>4 DEF CurrentInv
  <2>7. CASE RemoveTelemetryResources \/ setStatusFields
    <3>1. /\ pc \in {"telemetry", "status"} /\ pc' \in {"status", "idle"}
          /\ UNCHANGED <<dep, hpa, pdb, redis, otel>>
      BY <2>7, <1>4 DEF RemoveTelemetryResources, setStatusFields, GotoAfter, End, optional
    <3>2. CacheDone' /\ DepDone'
      BY <2>s, <2>h, <3>1, <1>i DEF CacheDone, DepDone, Passed
    <3>3. PdbDone'
      BY <2>s, <2>f, <3>1, <1>i DEF PdbDone, Passed
    <3>4. HpaDone'
      BY <3>1, <2>h, <2>f, <2>s, <1>i DEF HpaDone, Passed
    <3> QED BY <2>0, <3>2, <3>3, <3>4 DEF CurrentInv
  <2>8. ~(CreateDeployment \/ CreateTelemetry \/ updateObject \/ Crash)
    BY <2>r DEF CreateDeployment, CreateTelemetry, updateObject, Crash
  <2>9. ~Drift /\ (\A s \in Specs : ~EditSpec(s)) /\ (\A k \in Sizes : ~Scale(k))
    BY <1>4 DEF Drift, EditSpec, Scale
  <2> QED BY <1>4, <2>1, <2>2, <2>3, <2>4, <2>5, <2>6, <2>7, <2>8, <2>9 DEF Next, Operator
<1> QED BY <1>1, <1>2, <1>3, <1>4

LEMMA CurrentInvariant == Spec => [](TypeOK /\ CurrentInv)
<1>1. Init => CurrentInv
  BY DEF Init, CurrentInv, SpecRead, CacheDone, DepDone, PdbDone, HpaDone, Passed
<1>2. TypeOK /\ CurrentInv /\ [Next]_vars => CurrentInv'
  BY CurrentStep
<1> QED BY <1>1, <1>2, WorkloadTypeCorrect, PTL DEF Spec

(* What the equality of the hashes says of a Deployment.                    *)
LEMMA HashSays ==
  ASSUME NEW m \in Pulp, NEW d \in Owned, ~deploymentChanged(d, HashFromMutated(m), m)
  PROVE  d.spec.template = template(m) /\ (~m.spec.hpa.on => d.spec.replicas = m.spec.replicas)
<1>1. d.spec \in Deployments
  BY DEF Owned
<1>2. CalculateDeploymentHash(d.spec, m) = CalculateDeploymentHash(Mutated(build(m)), m)
  BY DEF deploymentChanged, HashFromMutated
<1>3. /\ Mutated(build(m)) \in Deployments /\ Mutated(build(m)).template = template(m)
      /\ ~m.spec.hpa.on => Mutated(build(m)).replicas = m.spec.replicas
  BY BuildTypes
<1>4. d.spec.template = template(m)
  BY <1>1, <1>2, <1>3, HashTypes
<1>5. ASSUME ~m.spec.hpa.on PROVE d.spec.replicas = m.spec.replicas
  BY <1>1, <1>2, <1>3, <1>5, HashTypes
<1> QED BY <1>4, <1>5

(* At rest the Deployment, the autoscaler and the disruption budget are     *)
(* what .spec asks for: WorkloadsCurrent of PulpWorkloads, whatever users   *)
(* and autoscaler changed on the way and whatever dry runs failed.          *)
THEOREM RestsCurrent == Spec => []WorkloadsCurrent
<1>1. ASSUME TypeOK, CurrentInv, AtRest
      PROVE  /\ dep # Absent /\ dep.spec.template = template(cr) /\ ~deploymentChanged(dep, HashFromMutated(cr), cr)
             /\ ~cr.spec.hpa.on => dep.spec.replicas = cr.spec.replicas
             /\ (cr.spec.hpa.on => hpa # Absent) /\ (~cr.spec.hpa.on /\ faults = 0 => hpa = Absent)
             /\ cr.spec.hpa.on /\ cr.spec.hpa.min > 0 => hpa.min = cr.spec.hpa.min
             /\ cr.spec.pdb \subseteq pdb /\ (cr.spec.pdb = {} /\ faults = 0 => pdb = {})
  <2>1. cr \in Pulp /\ dep \in Owned \cup {Absent}
    BY <1>1, TypeParts DEF CopyOK, DepOK
  <2>2. /\ dep # Absent /\ ~deploymentChanged(dep, HashFromMutated(cr), cr)
        /\ hpa = buildHPA(cr) \/ (~cr.spec.hpa.on /\ faults # 0)
        /\ cr.spec.pdb \subseteq pdb /\ (cr.spec.pdb = {} /\ faults = 0 => pdb = {})
    BY <1>1 DEF AtRest, CurrentInv, DepDone, PdbDone, HpaDone, Passed
  <2>3. dep.spec.template = template(cr) /\ (~cr.spec.hpa.on => dep.spec.replicas = cr.spec.replicas)
    BY <2>1, <2>2, HashSays
  <2>4. /\ (cr.spec.hpa.on => hpa # Absent) /\ (~cr.spec.hpa.on /\ faults = 0 => hpa = Absent)
        /\ cr.spec.hpa.on /\ cr.spec.hpa.min > 0 => hpa.min = cr.spec.hpa.min
    BY <2>1, <2>2, BuildHPATypes
  <2> QED BY <2>2, <2>3, <2>4
<1>2. TypeOK /\ CurrentInv => WorkloadsCurrent
  BY <1>1 DEF WorkloadsCurrent
<1> QED BY <1>2, CurrentInvariant, PTL

(* Pods at rest find the Redis and the collector's configuration they are   *)
(* told to use: NeedsThere of PulpWorkloads, whatever was removed on the    *)
(* way.                                                                     *)
THEOREM RestsServed == Spec => []NeedsThere
<1>1. ASSUME TypeOK, CurrentInv, AtRest, dep # Absent
      PROVE  /\ dep.spec.template.cache = "own" => redis = Redis
             /\ dep.spec.template.otel => otel = Telemetry
  <2>1. cr \in Pulp /\ dep \in Owned
    BY <1>1, TypeParts DEF CopyOK, DepOK
  <2>2. /\ ~deploymentChanged(dep, HashFromMutated(cr), cr)
        /\ cr.spec.cache = "own" => redis = Redis
        /\ cr.spec.otel => otel = Telemetry
    BY <1>1 DEF AtRest, CurrentInv, CacheDone, DepDone, Passed
  <2>3. dep.spec.template = template(cr)
    BY <2>1, <2>2, HashSays
  <2>4. template(cr).cache = cr.spec.cache /\ template(cr).otel = cr.spec.otel
    BY DEF template
  <2> QED BY <2>2, <2>3, <2>4
<1>2. TypeOK /\ CurrentInv => NeedsThere
  BY <1>1 DEF NeedsThere
<1> QED BY <1>2, CurrentInvariant, PTL
=============================================================================
