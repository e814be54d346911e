------------------------- MODULE RepoManagerProofs -------------------------
(* Theorems about RepoManager, for every set of components, every number of *)
(* versions of .spec, every lag of the informer and every number of faults. *)
EXTENDS RepoManager, TLAPS

USE DEF Versions

LEMMA CondTypes ==
  /\ \A r \in ResourceSet : CondOf[r] \in Conds
  /\ Gated \subseteq Conds
  /\ Gated \subseteq ResourceSet
  /\ \A i \in DOMAIN Resources : Resources[i] \in ResourceSet
  /\ 1 \in DOMAIN Resources
  /\ DOMAIN Resources = 1..Len(Resources)
  /\ Len(Resources) \in Nat
<1>1. /\ \A i \in DOMAIN Resources : Resources[i] \in ResourceSet
      /\ \A r \in ResourceSet : CondOf[r] \in Conds
  BY DEF ResourceSet, Conds
<1>2. Gated \subseteq ResourceSet /\ Gated \subseteq Conds
  BY <1>1, ResourcesAssumption
<1>3. 1 \in DOMAIN Resources /\ DOMAIN Resources = 1..Len(Resources) /\ Len(Resources) \in Nat
  BY ResourcesAssumption
<1> QED BY <1>1, <1>2, <1>3

LEMMA CreatedType == Created \in Pulp
  BY SpecAssumption, EnvironmentAssumption DEF Created, Pulp, CondStatus

LEMMA MissingType == ASSUME NEW v \in 0..MaxVersion PROVE Missing(v) \in Objects
  BY DEF Missing, Objects

(* Setting or removing a condition, clearing Finished and filling in a      *)
(* field yields a custom resource again.                                    *)
LEMMA PulpUpdates ==
  ASSUME NEW m \in Pulp
  PROVE  /\ ClearFinished(m) \in Pulp
         /\ Initialized(m) \in Pulp
         /\ \A c \in Conds, s \in CondStatus : WithCond(m, c, s) \in Pulp
         /\ [m EXCEPT !.fin = "True"] \in Pulp
         /\ [m EXCEPT !.def = TRUE] \in Pulp
         /\ Copied(m) \in Pulp
         /\ WithoutWayIn(m) \in Pulp
<1>1. ClearFinished(m) \in Pulp
  BY DEF ClearFinished, Pulp, CondStatus
<1>2. Initialized(m) \in Pulp
  BY DEF Initialized, Pulp, CondStatus
<1>3. ASSUME NEW c \in Conds, NEW s \in CondStatus
      PROVE  WithCond(m, c, s) \in Pulp
  BY <1>1 DEF WithCond, Pulp
<1>4. [m EXCEPT !.fin = "True"] \in Pulp
  BY DEF Pulp, CondStatus
<1>5. [m EXCEPT !.def = TRUE] \in Pulp
  BY DEF Pulp
<1>6. TypeOf[m.ver] \in IngressTypes /\ m.ver \in 0..MaxVersion
  BY SpecAssumption DEF Pulp, IngressTypes
<1>7. Copied(m) \in Pulp
  BY <1>6 DEF Copied, Pulp
<1>8. WithoutWayIn(m) \in Pulp
  BY <1>6 DEF WithoutWayIn, Pulp, CondStatus
<1> QED BY <1>1, <1>2, <1>3, <1>4, <1>5, <1>7, <1>8

LEMMA InitializedFin ==
  ASSUME NEW m \in Pulp
  PROVE  /\ m.fin = "none" => Initialized(m).fin = "False"
         /\ m.fin # "none" => Initialized(m) = m
         /\ Initialized(m).ver = m.ver /\ Initialized(m).def = m.def
  BY DEF Initialized, Pulp

(* setStatusFields and the removal of a way in leave the rest alone.        *)
LEMMA KeptByUpdates ==
  ASSUME NEW m \in Pulp
  PROVE  /\ Copied(m).ver = m.ver /\ Copied(m).def = m.def
         /\ Copied(m).cond = m.cond /\ Copied(m).fin = m.fin
         /\ WithoutWayIn(m).ver = m.ver /\ WithoutWayIn(m).def = m.def
         /\ WithoutWayIn(m).fin = m.fin
         /\ \A c \in Conds : WithoutWayIn(m).cond[c] \in {m.cond[c], "none"}
  BY DEF Copied, WithoutWayIn, Pulp

-----------------------------------------------------------------------------
(* Type correctness.                                                        *)

LEMMA NoLag == <<>> \in Seq(Pulp) /\ Len(<<>>) <= MaxLag
  BY EnvironmentAssumption

LEMMA StoreType ==
  ASSUME TypeOK, NEW o \in Pulp, Store(o)
  PROVE  cr' \in Pulp /\ lag' \in Seq(Pulp) /\ Len(lag') <= MaxLag
<1>1. CASE o = cr /\ UNCHANGED <<cr, lag>>
  BY <1>1 DEF TypeOK
<1>2. CASE o # cr /\ Len(lag) < MaxLag /\ cr' = o /\ lag' = Append(lag, o)
  BY <1>2, EnvironmentAssumption DEF TypeOK
<1> QED BY <1>1, <1>2 DEF Store

LEMMA FaultType == ASSUME TypeOK, Fault PROVE faults' \in 0..MaxFaults
  BY EnvironmentAssumption DEF TypeOK, Fault

LEMMA AcceptedType ==
  ASSUME TypeOK, NEW m \in Pulp, Accepted(m)
  PROVE  cr' \in Pulp /\ lag' \in Seq(Pulp) /\ Len(lag') <= MaxLag /\ faults' \in 0..MaxFaults
<1>1. Store(m) /\ UNCHANGED faults
  BY DEF Accepted
<1> QED BY <1>1, StoreType DEF TypeOK

LEMMA RefusedType ==
  ASSUME TypeOK, Refused
  PROVE  cr' \in Pulp /\ lag' \in Seq(Pulp) /\ Len(lag') <= MaxLag /\ faults' \in 0..MaxFaults
<1>1. UNCHANGED <<cr, lag>> /\ (UNCHANGED faults \/ Fault)
  BY DEF Refused
<1> QED BY <1>1, FaultType DEF TypeOK

LEMMA StatusUpdateType ==
  ASSUME TypeOK, NEW m \in Pulp, StatusUpdate(m)
  PROVE  /\ cr' \in Pulp /\ lag' \in Seq(Pulp) /\ Len(lag') <= MaxLag /\ faults' \in 0..MaxFaults
         /\ mem' \in Pulp /\ fresh' \in BOOLEAN
<1>1. mem' = m /\ UNCHANGED fresh /\ (Accepted(m) \/ Refused)
  BY DEF StatusUpdate
<1> QED BY <1>1, AcceptedType, RefusedType DEF TypeOK

LEMMA UpdateStatusType ==
  ASSUME TypeOK, NEW c \in Conds, NEW s \in CondStatus, UpdateStatus(c, s)
  PROVE  /\ cr' \in Pulp /\ lag' \in Seq(Pulp) /\ Len(lag') <= MaxLag /\ faults' \in 0..MaxFaults
         /\ mem' \in Pulp /\ fresh' \in BOOLEAN
<1>0. mem \in Pulp
  BY DEF TypeOK
<1>1. CASE mem' = ClearFinished(mem) /\ UNCHANGED <<cr, lag, fresh, faults>>
  BY <1>0, <1>1, PulpUpdates DEF TypeOK
<1>2. CASE StatusUpdate(WithCond(mem, c, s))
  BY <1>0, <1>2, PulpUpdates, StatusUpdateType
<1> QED BY <1>1, <1>2 DEF UpdateStatus

LEMMA ReturnType ==
  ASSUME TypeOK, NEW q \in BOOLEAN, Return(q)
  PROVE  /\ pc' = "idle" /\ k' \in DOMAIN Resources /\ mem' \in Pulp /\ fresh' \in BOOLEAN
         /\ queue' \in BOOLEAN
         /\ g' \in [Gated -> {"todo", "send", "recv", "done"}]
         /\ saw' \in [Gated -> {"none", "ready", "unready"}]
         /\ resp' \in SUBSET [comp : Gated, obj : Pulp, fresh : BOOLEAN]
  BY CondTypes, CreatedType DEF Return, TypeOK

LEMMA OvertakenType ==
  ASSUME TypeOK, NEW o
  PROVE  Overtaken(o) \in SUBSET [comp : Gated, obj : Pulp, fresh : BOOLEAN]
  BY DEF Overtaken, TypeOK

(* TypeOK: every variable keeps its type.                                   *)
THEOREM TypeCorrect == Spec => []TypeOK
<1>1. Init => TypeOK
  <2> SUFFICES ASSUME Init PROVE TypeOK
    OBVIOUS
  <2>1. dep \in [ResourceSet -> Objects]
    BY SpecAssumption, MissingType DEF Init
  <2>2. lag \in Seq(Pulp) /\ Len(lag) <= MaxLag
    BY NoLag DEF Init
  <2>3. resp = {} /\ faults \in 0..MaxFaults /\ k \in DOMAIN Resources
    BY EnvironmentAssumption, CondTypes DEF Init
  <2> QED BY <2>1, <2>2, <2>3, CreatedType DEF Init, TypeOK
<1>2. TypeOK /\ [Next]_vars => TypeOK'
  <2> SUFFICES ASSUME TypeOK, [Next]_vars PROVE TypeOK'
    OBVIOUS
  <2>0. mem \in Pulp /\ cache \in Pulp /\ cr \in Pulp
    BY DEF TypeOK
  <2>1. CASE StartReconcile
    BY <2>1 DEF StartReconcile, Get, CacheFresh, TypeOK, crVars
  <2>2. CASE SkipUnmanaged
    BY <2>2 DEF SkipUnmanaged, TypeOK, crVars, opVars
  <2>3. CASE InitializeFails
    BY <2>3, ReturnType, RefusedType DEF InitializeFails, TypeOK
  <2>4. CASE PrechecksReject
    <3>1. Initialized(mem) \in Pulp
      BY <2>0, PulpUpdates
    <3>2. cr' \in Pulp /\ lag' \in Seq(Pulp) /\ Len(lag') <= MaxLag /\ faults' \in 0..MaxFaults
      BY <2>4, <3>1, AcceptedType DEF PrechecksReject, TypeOK
    <3> QED BY <2>4, <3>2, ReturnType DEF PrechecksReject, TypeOK
  <2>5. CASE PrechecksPass
    <3>1. Initialized(mem) \in Pulp
      BY <2>0, PulpUpdates
    <3>2. cr' \in Pulp /\ lag' \in Seq(Pulp) /\ Len(lag') <= MaxLag /\ faults' \in 0..MaxFaults
      BY <2>5, <3>1, AcceptedType DEF PrechecksPass, TypeOK
    <3> QED BY <2>5, <3>1, <3>2 DEF PrechecksPass, TypeOK
  <2>6. CASE UpdateCRField
    <3>1. [cr EXCEPT !.def = TRUE] \in Pulp
      BY <2>0, PulpUpdates
    <3>2. mem' \in Pulp /\ cr' \in Pulp /\ lag' \in Seq(Pulp) /\ Len(lag') <= MaxLag
      BY <2>6, <3>1, StoreType DEF UpdateCRField
    <3> QED BY <2>6, <3>2 DEF UpdateCRField, TypeOK
  <2>7. CASE UpdateCRFieldFails
    BY <2>7, ReturnType, FaultType DEF UpdateCRFieldFails, TypeOK, crVars
  <2>8. CASE MarkUpdating
    <3>1. CondOf[Group] \in Conds /\ "False" \in CondStatus
      BY CondTypes DEF Group, TypeOK, CondStatus
    <3>2. /\ cr' \in Pulp /\ lag' \in Seq(Pulp) /\ Len(lag') <= MaxLag /\ faults' \in 0..MaxFaults
          /\ mem' \in Pulp /\ fresh' \in BOOLEAN
      BY <2>8, <3>1, UpdateStatusType DEF MarkUpdating
    <3> QED BY <2>8, <3>2 DEF MarkUpdating, TypeOK
  <2>9. CASE Apply
    <3>1. Deployed(dep[Group], mem.ver) \in Objects
      BY CondTypes, <2>0 DEF Deployed, Objects, Group, TypeOK, Pulp
    <3>2. dep' \in [ResourceSet -> Objects]
      BY <2>9, <3>1 DEF Apply, TypeOK
    <3> QED BY <2>9, <3>2, ReturnType DEF Apply, TypeOK, crVars
  <2>10. CASE ApplyFails
    BY <2>10, ReturnType, FaultType DEF ApplyFails, TypeOK, crVars
  <2>11. CASE Unmodified
    <3>1. CondOf[Group] \in Conds /\ "True" \in CondStatus
      BY CondTypes DEF Group, TypeOK, CondStatus
    <3>2. /\ cr' \in Pulp /\ lag' \in Seq(Pulp) /\ Len(lag') <= MaxLag /\ faults' \in 0..MaxFaults
          /\ mem' \in Pulp /\ fresh' \in BOOLEAN
      BY <2>11, <3>1, UpdateStatusType DEF Unmodified, TypeOK
    <3>3. k' \in DOMAIN Resources /\ pc' \in {pc, "fields"}
      BY <2>11, CondTypes DEF Unmodified, NextStage, TypeOK
    <3> QED BY <2>11, <3>2, <3>3 DEF Unmodified, TypeOK
  <2>12. CASE SetStatusFields
    <3>1. Copied(mem) \in Pulp
      BY <2>0, PulpUpdates
    <3>2. /\ cr' \in Pulp /\ lag' \in Seq(Pulp) /\ Len(lag') <= MaxLag /\ faults' \in 0..MaxFaults
          /\ mem' \in Pulp /\ fresh' \in BOOLEAN
      BY <2>12, <3>1, StatusUpdateType DEF SetStatusFields
    <3> QED BY <2>12, <3>2 DEF SetStatusFields, TypeOK
  <2>13. ASSUME NEW c \in Gated, StatusChecks(c) PROVE TypeOK'
    <3>0. c \in Conds /\ "True" \in CondStatus /\ "False" \in CondStatus
      BY CondTypes DEF CondStatus
    <3>1. CASE CheckUnready(c)
      <4>1. mem' \in Pulp
        <5>1. WithCond(mem, c, "False") \in Pulp /\ ClearFinished(mem) \in Pulp
          BY <3>0, <2>0, PulpUpdates
        <5> QED BY <3>1, <5>1 DEF CheckUnready
      <4> QED BY <3>1, <4>1 DEF CheckUnready, Found, TypeOK, crVars
    <3>2. CASE CheckReady(c)
      <4>1. mem' \in Pulp
        <5>1. WithCond(mem, c, "True") \in Pulp
          BY <3>0, <2>0, PulpUpdates
        <5> QED BY <3>2, <2>0, <5>1 DEF CheckReady
      <4> QED BY <3>2, <4>1 DEF CheckReady, Found, TypeOK, crVars
    <3>3. CASE CheckFails(c)
      BY <3>3, FaultType DEF CheckFails, Found, TypeOK, crVars
    <3>4. CASE SendStatus(c)
      <4>1. /\ cr' \in Pulp /\ lag' \in Seq(Pulp) /\ Len(lag') <= MaxLag
            /\ faults' \in 0..MaxFaults
        BY <3>4, <2>0, AcceptedType, RefusedType DEF SendStatus
      <4>2. fresh' \in BOOLEAN
        BY <3>4 DEF SendStatus, TypeOK
      <4>3. [comp |-> c, obj |-> mem, fresh |-> TRUE] \in [comp : Gated, obj : Pulp, fresh : BOOLEAN]
        BY <2>0
      <4>4. resp' \in SUBSET [comp : Gated, obj : Pulp, fresh : BOOLEAN]
        BY <3>4, <4>3, OvertakenType DEF SendStatus, TypeOK
      <4> QED BY <3>4, <4>1, <4>2, <4>4 DEF SendStatus, TypeOK
    <3>5. CASE DecodeResponse(c)
      BY <3>5 DEF DecodeResponse, TypeOK, crVars
    <3> QED BY <2>13, <3>1, <3>2, <3>3, <3>4, <3>5 DEF StatusChecks
  <2>14. CASE GateRetry
    BY <2>14, ReturnType DEF GateRetry, TypeOK, crVars
  <2>15. CASE GateFinished
    BY <2>15, ReturnType DEF GateFinished, TypeOK, crVars
  <2>16. CASE GatePass
    BY <2>16 DEF GatePass, Get, CacheFresh, TypeOK, crVars
  <2>17. CASE SetFinished
    <3>1. [cache EXCEPT !.fin = "True"] \in Pulp
      BY <2>0, PulpUpdates
    <3> QED BY <2>17, <3>1 DEF SetFinished, CacheFresh, TypeOK, crVars
  <2>18. CASE WriteFinished
    BY <2>18, <2>0, ReturnType, AcceptedType DEF WriteFinished, TypeOK
  <2>19. CASE WriteFinishedFails
    BY <2>19, ReturnType, FaultType DEF WriteFinishedFails, TypeOK, crVars
  <2>20. CASE Deliver
    <3>1. lag \in Seq(Pulp) /\ lag # <<>> /\ Len(lag) <= MaxLag
      BY <2>20 DEF Deliver, TypeOK
    <3>2. cache' \in Pulp /\ lag' \in Seq(Pulp) /\ Len(lag') <= MaxLag
      BY <2>20, <3>1, EnvironmentAssumption DEF Deliver
    <3>3. queue' \in BOOLEAN
      BY <2>20 DEF Deliver
    <3> QED BY <2>20, <3>2, <3>3 DEF Deliver, TypeOK, opVars
  <2>21. ASSUME NEW c \in Gated, Rollout(c) PROVE TypeOK'
    <3>1. c \in ResourceSet /\ dep[c] \in Objects
      BY CondTypes DEF TypeOK
    <3>2. CASE ObserveRollout(c)
      <4>1. PICK b \in {FALSE, dep[c].ready} :
              dep' = [dep EXCEPT ![c] = [@ EXCEPT !.rolled = TRUE, !.ready = b]]
        BY <3>2 DEF ObserveRollout
      <4>2. [dep[c] EXCEPT !.rolled = TRUE, !.ready = b] \in Objects
        BY <3>1, <4>1 DEF Objects
      <4>3. dep' \in [ResourceSet -> Objects]
        BY <4>1, <4>2 DEF TypeOK
      <4> QED BY <3>2, <4>3 DEF ObserveRollout, TypeOK, crVars, opVars
    <3>3. CASE PodsReady(c)
      BY <3>1, <3>3 DEF PodsReady, TypeOK, Objects, crVars, opVars
    <3> QED BY <2>21, <3>2, <3>3 DEF Rollout
  <2>22. ASSUME NEW c \in Gated, PodsFail(c) PROVE TypeOK'
    BY <2>22, CondTypes, FaultType DEF PodsFail, TypeOK, Objects, crVars, opVars
  <2>23. CASE EditSpec
    <3>0. cr.ver + 1 \in Versions
      BY <2>0, <2>23, SpecAssumption DEF Pulp, EditSpec
    <3>1. [cr EXCEPT !.ver = @ + 1] \in Pulp
      BY <2>0, <3>0 DEF Pulp
    <3>2. cr' \in Pulp /\ lag' \in Seq(Pulp) /\ Len(lag') <= MaxLag
      BY <2>23, <3>1, EnvironmentAssumption DEF EditSpec, TypeOK
    <3> QED BY <2>23, <3>1, <3>2, OvertakenType DEF EditSpec, TypeOK
  <2>24. CASE Resync
    BY <2>24 DEF Resync, TypeOK, crVars, opVars
  <2>25. CASE OperatorRestart
    <3>1. lag' \in Seq(Pulp) /\ Len(lag') <= MaxLag /\ cache' \in Pulp /\ cr' \in Pulp
      BY <2>25, <2>0, NoLag DEF OperatorRestart
    <3>2. Return(TRUE) /\ Fault /\ UNCHANGED dep
      BY <2>25 DEF OperatorRestart
    <3> QED BY <3>1, <3>2, ReturnType, FaultType DEF TypeOK
  <2>26. CASE UNCHANGED vars
    BY <2>26 DEF vars, TypeOK
  <2>27. CASE updateIngressType
    <3>0. mem.ver \in 0..MaxVersion
      BY <2>0, SpecAssumption DEF Pulp
    <3>1. WithoutWayIn(mem) \in Pulp
      BY <2>0, PulpUpdates
    <3>2. dep' \in [ResourceSet -> Objects]
      BY <2>27, <3>0, MissingType DEF updateIngressType, TypeOK
    <3>3. cr' \in Pulp /\ lag' \in Seq(Pulp) /\ Len(lag') <= MaxLag /\ faults' \in 0..MaxFaults
      BY <2>27, <3>1, AcceptedType, RefusedType DEF updateIngressType
    <3> QED BY <2>27, <3>2, <3>3, ReturnType DEF updateIngressType, TypeOK
  <2> QED
    BY <2>1, <2>2, <2>3, <2>4, <2>5, <2>6, <2>7, <2>8, <2>9, <2>10, <2>11, <2>12, <2>13,
       <2>14, <2>15, <2>16, <2>17, <2>18, <2>19, <2>20, <2>21, <2>22, <2>23, <2>24,
       <2>25, <2>26, <2>27
    DEF Next, Reconcile
<1> QED BY <1>1, <1>2, PTL DEF Spec

-----------------------------------------------------------------------------
(* The inductive invariants.                                                *)

(* The informer ends up with what the API server stores.                    *)
CacheBehind ==
  /\ lag = <<>> => cache = cr
  /\ lag # <<>> => lag[Len(lag)] = cr

(* A copy the API server would accept and that says Finished agrees with it *)
(* on the conditions; no goroutine has a copy under way that says Finished. *)
FlipInv ==
  /\ CacheBehind
  /\ fresh /\ mem.fin = "True" => mem.cond = cr.cond
  /\ \A r \in resp : r.obj.fin # "True"
  /\ \A c \in Gated : g[c] = "send" => mem.fin # "True"
  /\ pc # "check" => \A c \in Gated : g[c] = "done"

(* With an informer that has caught up: no copy says Finished next to a     *)
(* condition that is False, and the conditions found at the gate still hold *)
(* when Finished is set.                                                    *)
HonestInv ==
  /\ FinishedHonest
  /\ mem.fin = "True" => ~AnyFalse(mem)
  /\ pc = "finish" => ~AnyFalse(cr)

(* The oldest version that a reconciliation starting now may work on.       *)
Floor == IF StaleReads THEN cache.ver ELSE cr.ver

(* The informer receives the versions in the order they were stored.        *)
Ordered ==
  /\ cache.ver <= cr.ver
  /\ \A i \in 1..Len(lag) : cache.ver <= lag[i].ver /\ lag[i].ver <= cr.ver
  /\ \A i, j \in 1..Len(lag) : i <= j => lag[i].ver <= lag[j].ver

(* Nothing is left to default when the user names every secret.             *)
Named ==
  SecretsNamed =>
    /\ cr.def /\ cache.def /\ mem.def
    /\ \A i \in 1..Len(lag) : lag[i].def
    /\ \A r \in resp : r.obj.def

VersionInv ==
  /\ CacheBehind /\ Ordered /\ Named
  /\ \A r \in ResourceSet : dep[r].ver <= Floor
  /\ pc # "idle" => mem.ver <= Floor /\ \A r \in ResourceSet : dep[r].ver <= mem.ver
  /\ fresh => mem.ver = cr.ver
  /\ pc = "check" => \A r \in resp : r.obj.ver = mem.ver /\ (r.fresh => mem.ver = cr.ver)
  /\ pc \notin {"check", "finish", "write"} => resp = {}

CheckedInv ==
  /\ OnlyCheckedDeployed
  /\ pc \in {"prechecks", "stage", "apply"} => mem.ver \notin UnmanagedSpecs
  /\ pc \in {"stage", "apply"} => mem.ver \notin InvalidSpecs

-----------------------------------------------------------------------------
(* What a stored version means for the API server and the informer.         *)
LEMMA Stored ==
  ASSUME TypeOK, NEW o \in Pulp, Store(o), CacheBehind, UNCHANGED cache
  PROVE  cr' = o /\ CacheBehind'
<1>1. CASE o = cr /\ UNCHANGED <<cr, lag>>
  BY <1>1 DEF CacheBehind
<1>2. CASE cr' = o /\ lag' = Append(lag, o)
  <2>1. lag \in Seq(Pulp)
    BY DEF TypeOK
  <2>2. lag' # <<>> /\ lag'[Len(lag')] = o
    BY <1>2, <2>1
  <2> QED BY <1>2, <2>2 DEF CacheBehind
<1> QED BY <1>1, <1>2 DEF Store

(* Receiving one version brings the informer closer to the API server.      *)
LEMMA Delivered ==
  ASSUME lag \in Seq(Pulp), lag # <<>>, CacheBehind,
         cache' = Head(lag), lag' = Tail(lag), UNCHANGED cr
  PROVE  CacheBehind'
<1>1. /\ Len(lag) \in Nat \ {0} /\ Head(lag) = lag[1]
      /\ Len(lag') = Len(lag) - 1 /\ lag' \in Seq(Pulp)
      /\ \A i \in 1..(Len(lag) - 1) : lag'[i] = lag[i + 1]
  OBVIOUS
<1>2. CASE Len(lag) = 1
  <2>1. lag' = <<>> /\ cache' = cr'
    BY <1>1, <1>2 DEF CacheBehind
  <2> QED BY <2>1 DEF CacheBehind
<1>3. CASE Len(lag) > 1
  <2>1. lag' # <<>> /\ lag'[Len(lag')] = lag[Len(lag)]
    BY <1>1, <1>3
  <2> QED BY <2>1 DEF CacheBehind
<1> QED BY <1>1, <1>2, <1>3

(* One status update of the sequential part of the loop with a copy m that  *)
(* does not newly say Finished.                                             *)
LEMMA FlipStatusUpdate ==
  ASSUME TypeOK, FlipInv, NEW m \in Pulp, StatusUpdate(m), UNCHANGED cache,
         m.fin = "True" => mem.fin = "True" /\ m.cond = mem.cond
  PROVE  /\ CacheBehind'
         /\ fresh' /\ mem'.fin = "True" => mem'.cond = cr'.cond
         /\ mem'.fin = "True" => mem.fin = "True"
         /\ cr'.cond # cr.cond => cr'.fin # "True"
<1>1. mem' = m /\ fresh' = fresh
  BY DEF StatusUpdate
<1>2. CASE Accepted(m)
  <2>1. cr' = m /\ CacheBehind' /\ fresh
    BY <1>2, Stored DEF Accepted, FlipInv
  <2> QED BY <1>1, <2>1 DEF FlipInv
<1>3. CASE Refused
  BY <1>1, <1>3 DEF Refused, CacheBehind, FlipInv
<1> QED BY <1>2, <1>3 DEF StatusUpdate

LEMMA WithCondFin ==
  ASSUME NEW m \in Pulp, NEW c \in Conds, NEW s \in CondStatus
  PROVE  /\ WithCond(m, c, s).fin # "True"
         /\ ClearFinished(m).fin # "True"
         /\ WithCond(m, c, s).ver = m.ver /\ WithCond(m, c, s).def = m.def
         /\ ClearFinished(m).ver = m.ver /\ ClearFinished(m).def = m.def
<1>1. ClearFinished(m) \in Pulp
  BY PulpUpdates
<1>2. /\ ClearFinished(m).fin # "True" /\ ClearFinished(m).ver = m.ver
      /\ ClearFinished(m).def = m.def
  BY DEF ClearFinished, Pulp
<1> QED BY <1>1, <1>2 DEF WithCond, Pulp

LEMMA FlipUpdateStatus ==
  ASSUME TypeOK, FlipInv, NEW c \in Conds, NEW s \in CondStatus, UpdateStatus(c, s),
         UNCHANGED cache
  PROVE  /\ CacheBehind'
         /\ mem'.fin # "True"
         /\ cr'.cond # cr.cond => cr'.fin # "True"
<1>0. mem \in Pulp /\ WithCond(mem, c, s) \in Pulp
  BY PulpUpdates DEF TypeOK
<1>1. CASE mem' = ClearFinished(mem) /\ UNCHANGED <<cr, lag, fresh, faults>>
  BY <1>0, <1>1, WithCondFin DEF FlipInv, CacheBehind
<1>2. CASE StatusUpdate(WithCond(mem, c, s))
  BY <1>0, <1>2, WithCondFin, FlipStatusUpdate DEF StatusUpdate
<1> QED BY <1>1, <1>2 DEF UpdateStatus

(* What the step is worth: FlipInv survives it and it does not flip a       *)
(* condition next to Finished.                                              *)
FlipStep == FlipInv' /\ (cr'.cond # cr.cond => cr'.fin # "True")

LEMMA FlipReturn ==
  ASSUME TypeOK, FlipInv, NEW q, Return(q), CacheBehind',
         cr'.cond # cr.cond => cr'.fin # "True"
  PROVE  FlipStep
  BY DEF FlipStep, FlipInv, Return

LEMMA FlipNext ==
  ASSUME TypeOK, FlipInv, [Next]_vars, ~updateIngressType
  PROVE  FlipStep
<1>0. mem \in Pulp /\ cache \in Pulp /\ cr \in Pulp /\ CacheBehind
  BY DEF TypeOK, FlipInv
<1>1. CASE StartReconcile
  BY <1>1, <1>0 DEF StartReconcile, Get, CacheFresh, FlipStep, FlipInv, CacheBehind, crVars
<1>2. CASE SkipUnmanaged
  BY <1>2 DEF SkipUnmanaged, FlipStep, FlipInv, CacheBehind, crVars, opVars
<1>3. CASE InitializeFails
  BY <1>3, FlipReturn DEF InitializeFails, Refused, FlipInv, CacheBehind
<1>4. Initialized(mem) \in Pulp /\ (mem.fin = "none" => Initialized(mem).fin = "False")
      /\ (mem.fin # "none" => Initialized(mem) = mem)
  BY <1>0, PulpUpdates, InitializedFin
<1>5. CASE PrechecksReject
  <2>1. CacheBehind' /\ (cr'.cond # cr.cond => cr'.fin # "True")
    BY <1>0, <1>4, <1>5, Stored DEF PrechecksReject, Accepted, CacheBehind
  <2> QED BY <1>5, <2>1, FlipReturn DEF PrechecksReject
<1>6. CASE PrechecksPass
  <2>1. CASE mem.fin = "none" /\ Accepted(Initialized(mem))
    <3>1. CacheBehind' /\ cr' = Initialized(mem)
      BY <1>0, <1>4, <1>6, <2>1, Stored DEF PrechecksPass, Accepted
    <3> QED BY <1>4, <1>6, <2>1, <3>1 DEF PrechecksPass, FlipStep, FlipInv
  <2>2. CASE mem.fin # "none" /\ UNCHANGED <<cr, lag, faults>>
    BY <1>4, <1>6, <2>2 DEF PrechecksPass, FlipStep, FlipInv, CacheBehind
  <2> QED BY <1>6, <2>1, <2>2 DEF PrechecksPass
<1>7. CASE UpdateCRField
  <2> DEFINE patched == [cr EXCEPT !.def = TRUE]
  <2>1. patched \in Pulp /\ patched.cond = cr.cond
    BY <1>0, PulpUpdates DEF Pulp
  <2>2. cr' = patched /\ mem' = patched /\ CacheBehind'
    BY <1>0, <1>7, <2>1, Stored DEF UpdateCRField
  <2> HIDE DEF patched
  <2>3. UNCHANGED <<pc, g, resp>> /\ pc = "stage"
    BY <1>7 DEF UpdateCRField
  <2> QED BY <2>1, <2>2, <2>3 DEF FlipStep, FlipInv
<1>8. CASE UpdateCRFieldFails
  BY <1>0, <1>8, FlipReturn DEF UpdateCRFieldFails, crVars, CacheBehind
<1>9. /\ CondOf[Group] \in Conds /\ "True" \in CondStatus /\ "False" \in CondStatus
  BY CondTypes DEF Group, TypeOK, CondStatus
<1>10. CASE MarkUpdating
  <2>1. CacheBehind' /\ mem'.fin # "True" /\ (cr'.cond # cr.cond => cr'.fin # "True")
    BY <1>9, <1>10, FlipUpdateStatus DEF MarkUpdating
  <2> QED BY <1>10, <2>1 DEF MarkUpdating, FlipStep, FlipInv
<1>11. CASE Apply
  BY <1>0, <1>11, FlipReturn DEF Apply, crVars, CacheBehind
<1>12. CASE ApplyFails
  BY <1>0, <1>12, FlipReturn DEF ApplyFails, crVars, CacheBehind
<1>13. CASE Unmodified
  <2>0. UNCHANGED <<cache, g, resp>> /\ pc = "stage" /\ pc' \in {"stage", "fields"}
    BY <1>13 DEF Unmodified, NextStage
  <2>1. CASE UpdateStatus(CondOf[Group], "True")
    <3>1. CacheBehind' /\ mem'.fin # "True" /\ (cr'.cond # cr.cond => cr'.fin # "True")
      BY <1>9, <2>0, <2>1, FlipUpdateStatus
    <3> QED BY <2>0, <3>1 DEF FlipStep, FlipInv
  <2>2. CASE UNCHANGED <<cr, lag, mem, fresh, faults>>
    BY <2>0, <2>2 DEF FlipStep, FlipInv, CacheBehind
  <2> QED BY <1>13, <2>1, <2>2 DEF Unmodified
<1>14. CASE SetStatusFields
  <2> DEFINE m == Copied(mem)
  <2>1. m \in Pulp /\ m.fin = mem.fin /\ m.cond = mem.cond
    BY <1>0, PulpUpdates, KeptByUpdates
  <2>2. StatusUpdate(m) /\ UNCHANGED <<cache, resp>> /\ pc' = "check" /\ \A c \in Gated : g'[c] # "send"
    BY <1>14 DEF SetStatusFields
  <2> HIDE DEF m
  <2>3. /\ CacheBehind' /\ (fresh' /\ mem'.fin = "True" => mem'.cond = cr'.cond)
        /\ (cr'.cond # cr.cond => cr'.fin # "True")
    BY <2>1, <2>2, FlipStatusUpdate
  <2> QED BY <2>2, <2>3 DEF FlipStep, FlipInv
<1>15. ASSUME NEW c \in Gated, StatusChecks(c) PROVE FlipStep
  <2>0. c \in Conds /\ pc = "check" /\ pc' = "check" /\ UNCHANGED cache
    BY <1>15, CondTypes
    DEF StatusChecks, CheckUnready, CheckReady, CheckFails, SendStatus, DecodeResponse, crVars
  <2>1. CASE CheckUnready(c) \/ CheckReady(c)
    <3>1. mem'.fin # "True" \/ (mem' = mem /\ g' = [g EXCEPT ![c] = "done"])
      BY <1>0, <1>9, <2>0, <2>1, WithCondFin DEF CheckUnready, CheckReady, Found
    <3>2. UNCHANGED <<cr, lag, fresh, resp>> /\ g \in [Gated -> {"todo", "send", "recv", "done"}]
      BY <2>1 DEF CheckUnready, CheckReady, crVars, TypeOK
    <3> QED BY <2>0, <3>1, <3>2 DEF FlipStep, FlipInv, CacheBehind
  <2>2. CASE CheckFails(c)
    BY <2>0, <2>2 DEF CheckFails, Found, FlipStep, FlipInv, CacheBehind, crVars, TypeOK
  <2>3. CASE SendStatus(c)
    <3>0. mem.fin # "True" /\ UNCHANGED mem
      BY <2>3 DEF SendStatus, FlipInv
    <3>1. CASE /\ Accepted(mem)
               /\ resp' = Overtaken(mem) \cup {[comp |-> c, obj |-> mem, fresh |-> TRUE]}
      <4>1. cr' = mem /\ CacheBehind'
        BY <1>0, <2>0, <3>1, Stored DEF Accepted
      <4>2. \A r \in Overtaken(mem) : r.obj.fin # "True"
        BY DEF Overtaken, FlipInv, TypeOK
      <4> QED BY <2>0, <3>0, <3>1, <4>1, <4>2 DEF FlipStep, FlipInv
    <3>2. CASE Refused /\ UNCHANGED <<resp, fresh>>
      BY <2>0, <3>0, <3>2 DEF Refused, FlipStep, FlipInv, CacheBehind
    <3> QED BY <2>3, <3>1, <3>2 DEF SendStatus
  <2>4. CASE DecodeResponse(c)
    BY <2>0, <2>4 DEF DecodeResponse, FlipStep, FlipInv, CacheBehind, crVars
  <2> QED BY <1>15, <2>1, <2>2, <2>3, <2>4 DEF StatusChecks
<1>16. CASE GateRetry \/ GateFinished
  BY <1>0, <1>16, FlipReturn DEF GateRetry, GateFinished, crVars, CacheBehind
<1>17. CASE GatePass
  BY <1>0, <1>17 DEF GatePass, AllDone, Get, CacheFresh, FlipStep, FlipInv, CacheBehind, crVars
<1>18. CASE SetFinished
  <2>1. mem'.cond = cache.cond
    BY <1>0, <1>18 DEF SetFinished, Pulp
  <2> QED BY <1>0, <1>18, <2>1 DEF SetFinished, CacheFresh, FlipStep, FlipInv, CacheBehind, crVars
<1>19. CASE WriteFinished
  <2>1. CacheBehind' /\ cr' = mem /\ fresh
    BY <1>0, <1>19, Stored DEF WriteFinished, Accepted
  <2> QED BY <1>19, <2>1, FlipReturn DEF WriteFinished, FlipInv
<1>20. CASE WriteFinishedFails
  BY <1>0, <1>20, FlipReturn DEF WriteFinishedFails, crVars, CacheBehind
<1>21. CASE Deliver
  <2>1. lag \in Seq(Pulp) /\ lag # <<>>
    BY <1>21 DEF Deliver, TypeOK
  <2>2. CacheBehind'
    BY <1>0, <1>21, <2>1, Delivered DEF Deliver
  <2> QED BY <1>21, <2>2 DEF Deliver, FlipStep, FlipInv, opVars
<1>22. CASE \E c \in Gated : Rollout(c) \/ PodsFail(c)
  BY <1>22 DEF Rollout, ObserveRollout, PodsReady, PodsFail, FlipStep, FlipInv, CacheBehind, crVars, opVars
<1>23. CASE EditSpec
  <2> DEFINE edited == [cr EXCEPT !.ver = @ + 1]
  <2>1. edited.cond = cr.cond
    BY <1>0 DEF Pulp
  <2>2. /\ cr' = edited /\ lag' = Append(lag, edited) /\ resp' = Overtaken(edited)
        /\ fresh' = FALSE /\ UNCHANGED <<mem, g, pc>>
    BY <1>23 DEF EditSpec
  <2> HIDE DEF edited
  <2>3. CacheBehind'
    BY <2>2 DEF CacheBehind, TypeOK
  <2>4. \A r \in resp' : r.obj.fin # "True"
    BY <2>2 DEF Overtaken, FlipInv, TypeOK
  <2> QED BY <2>1, <2>2, <2>3, <2>4 DEF FlipStep, FlipInv
<1>24. CASE Resync
  BY <1>24 DEF Resync, FlipStep, FlipInv, CacheBehind, crVars, opVars
<1>25. CASE OperatorRestart
  BY <1>25, FlipReturn DEF OperatorRestart, CacheBehind
<1>26. CASE UNCHANGED vars
  BY <1>26 DEF vars, FlipStep, FlipInv, CacheBehind
<1> QED
  BY <1>1, <1>2, <1>3, <1>5, <1>6, <1>7, <1>8, <1>10, <1>11, <1>12, <1>13, <1>14, <1>15, <1>16,
     <1>17, <1>18, <1>19, <1>20, <1>21, <1>22, <1>23, <1>24, <1>25, <1>26
  DEF Next, Reconcile

(* The removal of a way in may leave Finished True, but gives no condition  *)
(* a new status.                                                            *)
LEMMA FlipSwitch ==
  ASSUME TypeOK, FlipInv, updateIngressType
  PROVE  FlipInv' /\ (Flips => cr'.fin # "True")
<1> DEFINE m == WithoutWayIn(mem)
<1>1. mem \in Pulp /\ m \in Pulp /\ m.fin = mem.fin /\ \A c \in Conds : m.cond[c] \in {mem.cond[c], "none"}
  BY PulpUpdates, KeptByUpdates DEF TypeOK
<1>2. (Accepted(m) \/ Refused) /\ Return(TRUE) /\ UNCHANGED cache
  BY DEF updateIngressType
<1> HIDE DEF m
<1>3. CacheBehind' /\ (Flips => cr'.fin # "True")
  <2>1. CASE Accepted(m)
    <3>1. cr' = m /\ CacheBehind' /\ fresh
      BY <1>1, <1>2, <2>1, Stored DEF Accepted, FlipInv
    <3> QED BY <1>1, <3>1 DEF Flips, FlipInv
  <2>2. CASE Refused
    BY <1>2, <2>2 DEF Refused, CacheBehind, Flips, FlipInv
  <2> QED BY <1>2, <2>1, <2>2
<1> QED BY <1>2, <1>3 DEF FlipInv, Return

LEMMA FlipInit == Init => FlipInv
  BY DEF Init, FlipInv, CacheBehind, Created

(* UpdateStatus clears Finished: whatever the informer cache returns and    *)
(* however the goroutines interleave, a stored version that gives a         *)
(* condition a new status does not report Finished.  The one step that      *)
(* changes the conditions under Finished is updateIngressType, which takes  *)
(* conditions away.                                                         *)
THEOREM ConditionFlipClearsFinished == Spec => FlipClearsFinished
<1>1. TypeOK /\ FlipInv /\ [Next]_vars => FlipInv' /\ [Flips => cr'.fin # "True"]_vars
  <2> SUFFICES ASSUME TypeOK, FlipInv, [Next]_vars
               PROVE  FlipInv' /\ (Flips => cr'.fin # "True")
    OBVIOUS
  <2>1. CASE updateIngressType
    BY <2>1, FlipSwitch
  <2>2. CASE ~updateIngressType
    <3>1. FlipStep
      BY <2>2, FlipNext
    <3> QED BY <3>1 DEF FlipStep, Flips
  <2> QED BY <2>1, <2>2
<1> QED BY <1>1, TypeCorrect, FlipInit, PTL DEF Spec, FlipClearsFinished

-----------------------------------------------------------------------------
(* Finished is honest as long as every r.Get returns the newest version.    *)

LEMMA HonestReturn ==
  ASSUME HonestInv, NEW q, Return(q), UNCHANGED cr
  PROVE  HonestInv'
  BY DEF HonestInv, Return, Created, FinishedHonest, AnyFalse

LEMMA HonestUpdateStatus ==
  ASSUME TypeOK, FlipInv, HonestInv, NEW c \in Conds, NEW s \in CondStatus,
         UpdateStatus(c, s), UNCHANGED cache
  PROVE  mem'.fin # "True" /\ (UNCHANGED cr \/ cr'.fin # "True")
<1>0. mem \in Pulp /\ WithCond(mem, c, s) \in Pulp
  BY PulpUpdates DEF TypeOK
<1>1. mem'.fin # "True"
  BY FlipUpdateStatus
<1>2. CASE mem' = ClearFinished(mem) /\ UNCHANGED <<cr, lag, fresh, faults>>
  BY <1>1, <1>2
<1>3. CASE StatusUpdate(WithCond(mem, c, s))
  <2>1. CASE Accepted(WithCond(mem, c, s))
    <3>1. cr' = WithCond(mem, c, s)
      BY <1>0, <2>1, Stored DEF Accepted, FlipInv
    <3> QED BY <1>0, <1>1, <3>1, WithCondFin
  <2>2. CASE Refused
    BY <1>1, <2>2 DEF Refused
  <2> QED BY <1>3, <2>1, <2>2 DEF StatusUpdate
<1> QED BY <1>2, <1>3 DEF UpdateStatus

LEMMA HonestNext ==
  ASSUME ~StaleReads, TypeOK, FlipInv, HonestInv, [Next]_vars
  PROVE  HonestInv'
<1>0. mem \in Pulp /\ cache \in Pulp /\ cr \in Pulp /\ CacheBehind
  BY DEF TypeOK, FlipInv
<1>1. CASE StartReconcile
  BY <1>0, <1>1
  DEF StartReconcile, Get, CacheReadable, CacheBehind, HonestInv, FinishedHonest, crVars
<1>2. CASE SkipUnmanaged \/ Resync \/ Deliver
  BY <1>2 DEF SkipUnmanaged, Resync, Deliver, HonestInv, FinishedHonest, AnyFalse, crVars, opVars
<1>3. CASE InitializeFails \/ UpdateCRFieldFails \/ Apply \/ ApplyFails \/ GateRetry
           \/ GateFinished \/ WriteFinishedFails \/ OperatorRestart
  BY <1>3, HonestReturn
  DEF InitializeFails, Refused, UpdateCRFieldFails, Apply, ApplyFails, GateRetry, GateFinished,
      WriteFinishedFails, OperatorRestart, crVars
<1>4. Initialized(mem) \in Pulp /\ (mem.fin = "none" => Initialized(mem).fin = "False")
      /\ (mem.fin # "none" => Initialized(mem) = mem)
  BY <1>0, PulpUpdates, InitializedFin
<1>5. CASE PrechecksReject \/ PrechecksPass
  <2>1. UNCHANGED cr \/ cr'.fin = "False"
    BY <1>0, <1>4, <1>5, Stored DEF PrechecksReject, PrechecksPass, Accepted
  <2>2. mem'.fin # "True" \/ mem' = mem
    BY <1>4, <1>5 DEF PrechecksReject, PrechecksPass, Return, Created
  <2>3. pc' # "finish"
    BY <1>5 DEF PrechecksReject, PrechecksPass, Return
  <2> QED BY <2>1, <2>2, <2>3 DEF HonestInv, FinishedHonest, AnyFalse
<1>6. CASE UpdateCRField
  <2> DEFINE patched == [cr EXCEPT !.def = TRUE]
  <2>1. patched \in Pulp /\ patched.cond = cr.cond /\ patched.fin = cr.fin
    BY <1>0, PulpUpdates DEF Pulp
  <2>2. cr' = patched /\ mem' = patched /\ pc' # "finish"
    BY <1>0, <1>6, <2>1, Stored DEF UpdateCRField
  <2> HIDE DEF patched
  <2> QED BY <2>1, <2>2 DEF HonestInv, FinishedHonest, AnyFalse
<1>7. CondOf[Group] \in Conds /\ "True" \in CondStatus /\ "False" \in CondStatus
  BY CondTypes DEF Group, TypeOK, CondStatus
<1>8. CASE MarkUpdating
  <2>1. mem'.fin # "True" /\ (UNCHANGED cr \/ cr'.fin # "True") /\ pc' = "apply"
    BY <1>7, <1>8, HonestUpdateStatus DEF MarkUpdating
  <2> QED BY <2>1 DEF HonestInv, FinishedHonest, AnyFalse
<1>9. CASE Unmodified
  <2>0. pc' # "finish" /\ UNCHANGED cache
    BY <1>9 DEF Unmodified, NextStage
  <2>1. CASE UpdateStatus(CondOf[Group], "True")
    <3>1. mem'.fin # "True" /\ (UNCHANGED cr \/ cr'.fin # "True")
      BY <1>7, <2>0, <2>1, HonestUpdateStatus
    <3> QED BY <2>0, <3>1 DEF HonestInv, FinishedHonest, AnyFalse
  <2>2. CASE UNCHANGED <<cr, lag, mem, fresh, faults>>
    BY <2>0, <2>2 DEF HonestInv, FinishedHonest, AnyFalse
  <2> QED BY <1>9, <2>1, <2>2 DEF Unmodified
<1>10. CASE SetStatusFields
  <2> DEFINE m == Copied(mem)
  <2>1. m \in Pulp /\ m.fin = mem.fin /\ m.cond = mem.cond
    BY <1>0, PulpUpdates, KeptByUpdates
  <2>2. StatusUpdate(m) /\ UNCHANGED cache /\ pc' = "check"
    BY <1>10 DEF SetStatusFields
  <2> HIDE DEF m
  <2>3. mem' = m /\ (cr' = m \/ UNCHANGED cr)
    BY <1>0, <2>1, <2>2, Stored DEF StatusUpdate, Accepted, Refused
  <2> QED BY <2>1, <2>2, <2>3 DEF HonestInv, FinishedHonest, AnyFalse
<1>11. ASSUME NEW c \in Gated, StatusChecks(c) PROVE HonestInv'
  <2>0. c \in Conds /\ pc' = "check" /\ UNCHANGED cache
    BY <1>11, CondTypes
    DEF StatusChecks, CheckUnready, CheckReady, CheckFails, SendStatus, DecodeResponse, crVars
  <2>1. CASE CheckUnready(c) \/ CheckReady(c) \/ CheckFails(c)
    <3>1. UNCHANGED cr /\ (mem'.fin # "True" \/ mem' = mem)
      BY <1>0, <1>7, <2>0, <2>1, WithCondFin
      DEF CheckUnready, CheckReady, CheckFails, crVars
    <3> QED BY <2>0, <3>1 DEF HonestInv, FinishedHonest, AnyFalse
  <2>2. CASE SendStatus(c)
    <3>1. mem.fin # "True" /\ UNCHANGED mem
      BY <2>2 DEF SendStatus, FlipInv
    <3>2. cr' = mem \/ UNCHANGED cr
      BY <1>0, <2>0, <2>2, Stored DEF SendStatus, Accepted, Refused
    <3> QED BY <2>0, <3>1, <3>2 DEF HonestInv, FinishedHonest, AnyFalse
  <2>3. CASE DecodeResponse(c)
    <3>1. UNCHANGED cr /\ mem'.fin # "True"
      BY <2>3 DEF DecodeResponse, FlipInv, crVars
    <3> QED BY <2>0, <3>1 DEF HonestInv, FinishedHonest, AnyFalse
  <2> QED BY <1>11, <2>1, <2>2, <2>3 DEF StatusChecks
<1>12. CASE GatePass
  <2>1. lag = <<>> /\ cache = cr /\ mem' = cr /\ UNCHANGED cr /\ ~AnyFalse(cr)
    BY <1>0, <1>12 DEF GatePass, Get, CacheReadable, CacheBehind, crVars
  <2> QED BY <2>1 DEF HonestInv, FinishedHonest, AnyFalse
<1>13. CASE SetFinished
  <2>1. cache = cr /\ ~AnyFalse(cr) /\ UNCHANGED cr /\ pc' = "write"
    BY <1>0, <1>13 DEF SetFinished, CacheReadable, CacheBehind, HonestInv, crVars
  <2>2. mem'.cond = cr.cond
    BY <1>0, <1>13, <2>1 DEF SetFinished, Pulp
  <2> QED BY <2>1, <2>2 DEF HonestInv, FinishedHonest, AnyFalse
<1>14. CASE WriteFinished
  <2>1. cr' = mem /\ pc' = "idle" /\ mem' = Created
    BY <1>0, <1>14, Stored DEF WriteFinished, Accepted, Return
  <2> QED BY <2>1 DEF HonestInv, FinishedHonest, AnyFalse, Created
<1>15. CASE \E c \in Gated : Rollout(c) \/ PodsFail(c)
  BY <1>15
  DEF Rollout, ObserveRollout, PodsReady, PodsFail, HonestInv, FinishedHonest, AnyFalse, crVars, opVars
<1>16. CASE EditSpec
  <2>1. cr'.cond = cr.cond /\ cr'.fin = cr.fin /\ UNCHANGED <<mem, pc>>
    BY <1>0, <1>16 DEF EditSpec, Pulp
  <2> QED BY <2>1 DEF HonestInv, FinishedHonest, AnyFalse
<1>17. CASE UNCHANGED vars
  BY <1>17 DEF vars, HonestInv, FinishedHonest, AnyFalse
<1>18. CASE updateIngressType
  <2> DEFINE m == WithoutWayIn(mem)
  <2>1. m \in Pulp /\ m.fin = mem.fin /\ \A c \in Gated : m.cond[c] \in {mem.cond[c], "none"}
    BY <1>0, CondTypes, PulpUpdates, KeptByUpdates
  <2>2. (Accepted(m) \/ Refused) /\ Return(TRUE) /\ UNCHANGED cache
    BY <1>18 DEF updateIngressType
  <2> HIDE DEF m
  <2>3. cr' = m \/ UNCHANGED cr
    BY <1>0, <2>1, <2>2, Stored DEF Accepted, Refused
  <2>4. pc' = "idle" /\ mem' = Created
    BY <2>2 DEF Return
  <2> QED BY <2>1, <2>3, <2>4 DEF HonestInv, FinishedHonest, AnyFalse, Created
<1> QED
  BY <1>1, <1>2, <1>3, <1>5, <1>6, <1>8, <1>9, <1>10, <1>11, <1>12, <1>13, <1>14, <1>15, <1>16, <1>17, <1>18
  DEF Next, Reconcile

(* FinishedHonest: if every r.Get of the operator returned the newest       *)
(* version, the two reads of setStatusConditions would be enough to keep    *)
(* Finished from being stored next to a component that is not ready.        *)
THEOREM FinishedHonestWhenSynced == ~StaleReads /\ Spec => []FinishedHonest
<1>1. Init => HonestInv
  BY DEF Init, HonestInv, FinishedHonest, AnyFalse, Created
<1>2. ~StaleReads /\ TypeOK /\ FlipInv /\ HonestInv /\ [Next]_vars => HonestInv'
  BY HonestNext
<1>3. TypeOK /\ FlipInv /\ [Next]_vars => FlipInv'
  <2>1. TypeOK /\ FlipInv /\ updateIngressType => FlipInv'
    BY FlipSwitch
  <2>2. TypeOK /\ FlipInv /\ [Next]_vars /\ ~updateIngressType => FlipInv'
    BY FlipNext DEF FlipStep
  <2> QED BY <2>1, <2>2
<1>4. HonestInv => FinishedHonest
  BY DEF HonestInv
<1>5. CASE ~StaleReads
  <2>1. TypeOK /\ FlipInv /\ HonestInv /\ [Next]_vars => HonestInv'
    BY <1>2, <1>5
  <2> QED BY <1>1, <2>1, <1>3, <1>4, TypeCorrect, FlipInit, PTL DEF Spec
<1> QED BY <1>5

-----------------------------------------------------------------------------
(* Versions only move forward.                                              *)

(* What every step that stores o, an edit or a status, does to the order    *)
(* of the versions.                                                         *)
Orders == CacheBehind /\ Ordered /\ Named

LEMMA LagVersions ==
  ASSUME lag \in Seq(Pulp)
  PROVE  \A i \in 1..Len(lag) : lag[i] \in Pulp /\ lag[i].ver \in Nat
<1>1. \A i \in 1..Len(lag) : lag[i] \in Pulp
  OBVIOUS
<1>2. \A o \in Pulp : o.ver \in Nat
  BY SpecAssumption DEF Pulp
<1> QED BY <1>1, <1>2

LEMMA OrderAppend ==
  ASSUME TypeOK, Orders, NEW o \in Pulp, cr' = o, lag' = Append(lag, o), UNCHANGED cache,
         o.ver >= cr.ver
  PROVE  Ordered' /\ CacheBehind'
<1>1. lag \in Seq(Pulp) /\ Len(lag) \in Nat /\ cr.ver \in Nat /\ cache.ver \in Nat /\ o.ver \in Nat
  BY SpecAssumption DEF TypeOK, Pulp
<1>2. /\ Len(lag') = Len(lag) + 1 /\ lag'[Len(lag) + 1] = o
      /\ \A i \in 1..Len(lag) : lag'[i] = lag[i]
  BY <1>1
<1>3. \A i \in 1..Len(lag) : lag[i] \in Pulp /\ lag[i].ver \in Nat
  BY <1>1, LagVersions
<1>4. cache'.ver <= cr'.ver
  BY <1>1 DEF Orders, Ordered
<1>5. \A i \in 1..Len(lag') : cache'.ver <= lag'[i].ver /\ lag'[i].ver <= cr'.ver
  BY <1>1, <1>2, <1>3 DEF Orders, Ordered
<1>6. \A i, j \in 1..Len(lag') : i <= j => lag'[i].ver <= lag'[j].ver
  BY <1>1, <1>2, <1>3 DEF Orders, Ordered
<1>7. CacheBehind'
  BY <1>1, <1>2 DEF CacheBehind
<1> QED BY <1>4, <1>5, <1>6, <1>7 DEF Ordered

LEMMA OrderStore ==
  ASSUME TypeOK, Orders, NEW o \in Pulp, Store(o), UNCHANGED cache,
         o.ver = cr.ver, SecretsNamed => o.def
  PROVE  /\ Ordered' /\ CacheBehind' /\ cr'.ver = cr.ver
         /\ SecretsNamed => cr'.def /\ \A i \in 1..Len(lag') : lag'[i].def
<1>0. cr.ver \in Nat /\ lag \in Seq(Pulp)
  BY SpecAssumption DEF TypeOK, Pulp
<1>1. CASE o = cr /\ UNCHANGED <<cr, lag>>
  BY <1>1 DEF Orders, Ordered, CacheBehind, Named
<1>2. CASE cr' = o /\ lag' = Append(lag, o)
  <2>1. Ordered' /\ CacheBehind'
    BY <1>0, <1>2, OrderAppend
  <2>2. Len(lag') = Len(lag) + 1 /\ \A i \in 1..Len(lag') : lag'[i] = IF i = Len(lag') THEN o ELSE lag[i]
    BY <1>0, <1>2
  <2>3. SecretsNamed => \A i \in 1..Len(lag') : lag'[i].def
    BY <1>0, <2>2 DEF Orders, Named
  <2> QED BY <1>2, <2>1, <2>3
<1> QED BY <1>1, <1>2 DEF Store

LEMMA OrderDeliver ==
  ASSUME TypeOK, Orders, Deliver
  PROVE  Orders' /\ cache.ver <= cache'.ver
<1>1. lag \in Seq(Pulp) /\ lag # <<>> /\ cache' = lag[1] /\ lag' = Tail(lag) /\ UNCHANGED cr
  BY DEF Deliver, TypeOK
<1>2. /\ Len(lag) \in Nat \ {0} /\ Len(lag') = Len(lag) - 1
      /\ \A i \in 1..(Len(lag) - 1) : lag'[i] = lag[i + 1]
  BY <1>1
<1>3. CacheBehind'
  BY <1>1, Delivered DEF Orders, Deliver
<1>4. \A i \in 1..Len(lag) : lag[i] \in Pulp /\ lag[i].ver \in Nat
  BY <1>1, LagVersions
<1>5. cache.ver <= cache'.ver /\ cache'.ver <= cr'.ver
  BY <1>1, <1>2 DEF Orders, Ordered
<1>6. /\ \A i \in 1..Len(lag') : cache'.ver <= lag'[i].ver /\ lag'[i].ver <= cr'.ver
      /\ \A i, j \in 1..Len(lag') : i <= j => lag'[i].ver <= lag'[j].ver
  BY <1>1, <1>2, <1>4 DEF Orders, Ordered
<1>7. Named'
  BY <1>1, <1>2 DEF Orders, Named, Deliver, opVars
<1> QED BY <1>3, <1>5, <1>6, <1>7 DEF Orders, Ordered

(* A status update with a copy m of the version the operator works on.      *)
LEMMA OrderStatus ==
  ASSUME TypeOK, Orders, NEW m \in Pulp, m.ver = mem.ver, m.def = mem.def,
         fresh => mem.ver = cr.ver, UNCHANGED cache, Accepted(m) \/ Refused
  PROVE  /\ Ordered' /\ CacheBehind' /\ cr'.ver = cr.ver
         /\ SecretsNamed => cr'.def /\ \A i \in 1..Len(lag') : lag'[i].def
<1>1. CASE Accepted(m)
  BY <1>1, OrderStore DEF Accepted, Orders, Named
<1>2. CASE Refused
  BY <1>2 DEF Refused, Orders, Ordered, CacheBehind, Named
<1> QED BY <1>1, <1>2

(* What a step is worth: VersionInv survives it and nothing rolls back.     *)
VersionStep == VersionInv' /\ \A r \in ResourceSet : dep'[r].ver >= dep[r].ver

LEMMA VersionTypes ==
  ASSUME TypeOK
  PROVE  /\ cr.ver \in Nat /\ cache.ver \in Nat /\ mem.ver \in Nat
         /\ \A r \in ResourceSet : dep[r].ver \in Nat
         /\ Floor \in Nat
  BY SpecAssumption DEF TypeOK, Pulp, Objects, Floor

(* The end of a reconciliation in which no object changed.                  *)
LEMMA VersionReturn ==
  ASSUME TypeOK, VersionInv, NEW q, Return(q), UNCHANGED dep, Ordered', CacheBehind',
         SecretsNamed => cr'.def /\ cache'.def /\ \A i \in 1..Len(lag') : lag'[i].def,
         cache.ver <= cache'.ver, cache'.ver \in Nat, cr'.ver = cr.ver
  PROVE  VersionStep
<1>0. cache'.ver >= cache.ver /\ Floor' >= Floor /\ Floor' \in Nat
  BY VersionTypes DEF Floor
<1>1. Named'
  BY DEF Return, Named, Created
<1>2. mem' = Created /\ pc' = "idle" /\ resp' = {} /\ fresh' = FALSE
  BY DEF Return
<1>3. \A r \in ResourceSet : dep'[r].ver <= Floor'
  BY <1>0, VersionTypes DEF VersionInv
<1>4. \A r \in ResourceSet : dep'[r].ver >= dep[r].ver
  BY VersionTypes
<1> QED BY <1>1, <1>2, <1>3, <1>4 DEF VersionStep, VersionInv

(* A step in the middle of a reconciliation that leaves the objects alone   *)
(* and keeps to the version it works on.                                    *)
LEMMA VersionKeep ==
  ASSUME TypeOK, VersionInv, UNCHANGED <<dep, cache>>, pc # "idle",
         Ordered', CacheBehind', cr'.ver = cr.ver,
         SecretsNamed => cr'.def /\ \A i \in 1..Len(lag') : lag'[i].def,
         mem'.ver = mem.ver, mem'.def = mem.def, fresh' => mem.ver = cr.ver,
         \A r \in resp' : r.obj.ver = mem.ver /\ (SecretsNamed => r.obj.def) /\ (r.fresh => mem.ver = cr.ver),
         pc' # "check" => resp' = {}
  PROVE  VersionStep
<1>1. Named'
  BY DEF Named, VersionInv
<1>2. Floor' = Floor
  BY DEF Floor
<1>3. \A r \in ResourceSet : dep'[r].ver >= dep[r].ver
  BY VersionTypes
<1> QED BY <1>1, <1>2, <1>3 DEF VersionStep, VersionInv

LEMMA VersionUpdateStatus ==
  ASSUME TypeOK, VersionInv, NEW c \in Conds, NEW s \in CondStatus, UpdateStatus(c, s), UNCHANGED cache
  PROVE  /\ Ordered' /\ CacheBehind' /\ cr'.ver = cr.ver
         /\ SecretsNamed => cr'.def /\ \A i \in 1..Len(lag') : lag'[i].def
         /\ mem'.ver = mem.ver /\ mem'.def = mem.def /\ UNCHANGED fresh
<1>0. mem \in Pulp /\ WithCond(mem, c, s) \in Pulp
  BY PulpUpdates DEF TypeOK
<1>1. CASE mem' = ClearFinished(mem) /\ UNCHANGED <<cr, lag, fresh, faults>>
  BY <1>0, <1>1, WithCondFin DEF VersionInv, CacheBehind, Ordered, Named
<1>2. CASE StatusUpdate(WithCond(mem, c, s))
  <2>1. /\ Ordered' /\ CacheBehind' /\ cr'.ver = cr.ver
        /\ SecretsNamed => cr'.def /\ \A i \in 1..Len(lag') : lag'[i].def
    BY <1>0, <1>2, WithCondFin, OrderStatus DEF StatusUpdate, VersionInv, Orders
  <2> QED BY <1>0, <1>2, <2>1, WithCondFin DEF StatusUpdate
<1> QED BY <1>1, <1>2 DEF UpdateStatus

(* The deployment controller does not change what is deployed.              *)
LEMMA RolloutKeepsVersion ==
  ASSUME TypeOK, \E c \in Gated : Rollout(c) \/ PodsFail(c)
  PROVE  \A r \in ResourceSet : dep'[r].ver = dep[r].ver
<1>1. PICK c \in Gated : Rollout(c) \/ PodsFail(c)
  OBVIOUS
<1>2. c \in ResourceSet /\ dep[c] \in Objects /\ dep \in [ResourceSet -> Objects]
  BY CondTypes DEF TypeOK
<1>3. CASE ObserveRollout(c)
  BY <1>2, <1>3 DEF ObserveRollout, Objects
<1>4. CASE PodsReady(c) \/ PodsFail(c)
  BY <1>2, <1>4 DEF PodsReady, PodsFail, Objects
<1> QED BY <1>1, <1>3, <1>4 DEF Rollout

LEMMA VersionNext ==
  ASSUME SecretsNamed \/ ~StaleReads, TypeOK, VersionInv, [Next]_vars
  PROVE  VersionStep
<1>0. /\ mem \in Pulp /\ cache \in Pulp /\ cr \in Pulp
      /\ CacheBehind /\ Ordered /\ Named /\ Orders
      /\ SecretsNamed => cr.def /\ cache.def /\ \A i \in 1..Len(lag) : lag[i].def
      /\ cache.ver <= cache.ver /\ cache.ver \in Nat /\ cr.ver \in Nat
  BY VersionTypes DEF TypeOK, VersionInv, Orders, Named
<1>1. CASE StartReconcile
  <2>1. cache.ver = Floor /\ mem' = cache /\ fresh' = (lag = <<>>)
    BY <1>0, <1>1 DEF StartReconcile, Get, CacheFresh, CacheReadable, CacheBehind, Floor
  <2>2. pc = "idle" /\ pc' = "prechecks" /\ resp = {} /\ UNCHANGED <<cr, cache, lag, dep, resp>>
    BY <1>1 DEF StartReconcile, crVars, VersionInv
  <2>3. Named' /\ CacheBehind' /\ Ordered'
    BY <1>0, <2>1, <2>2 DEF Named, CacheBehind, Ordered
  <2>4. Floor' = Floor /\ (fresh' => mem'.ver = cr'.ver)
    BY <1>0, <2>1, <2>2 DEF Floor, CacheBehind
  <2> QED BY <2>1, <2>2, <2>3, <2>4, VersionTypes DEF VersionStep, VersionInv
<1>2. CASE SkipUnmanaged \/ Resync \/ UNCHANGED vars
  <2>1. UNCHANGED <<cr, cache, lag, dep, mem, fresh, pc, resp>>
    BY <1>2 DEF SkipUnmanaged, Resync, crVars, opVars, vars
  <2> QED BY <2>1, VersionTypes DEF VersionStep, VersionInv, CacheBehind, Ordered, Named, Floor
<1>3. CASE InitializeFails \/ UpdateCRFieldFails \/ ApplyFails \/ GateRetry \/ GateFinished
           \/ WriteFinishedFails
  <2>1. UNCHANGED <<cr, cache, lag, dep>> /\ \E q \in BOOLEAN : Return(q)
    BY <1>3 DEF InitializeFails, Refused, UpdateCRFieldFails, ApplyFails, GateRetry, GateFinished,
                WriteFinishedFails, crVars
  <2>2. Ordered' /\ CacheBehind'
    BY <1>0, <2>1 DEF Ordered, CacheBehind
  <2> QED BY <1>0, <2>1, <2>2, VersionReturn
<1>4. Initialized(mem) \in Pulp /\ Initialized(mem).ver = mem.ver /\ Initialized(mem).def = mem.def
  BY <1>0, PulpUpdates, InitializedFin
<1>5. CASE PrechecksReject \/ PrechecksPass
  <2>0. UNCHANGED <<cache, dep>> /\ (Accepted(Initialized(mem)) \/ UNCHANGED <<cr, lag, faults>>)
    BY <1>5 DEF PrechecksReject, PrechecksPass
  <2>1. /\ Ordered' /\ CacheBehind' /\ cr'.ver = cr.ver
        /\ SecretsNamed => cr'.def /\ \A i \in 1..Len(lag') : lag'[i].def
    <3>1. CASE Accepted(Initialized(mem))
      BY <1>0, <1>4, <2>0, <3>1, OrderStatus DEF VersionInv
    <3>2. CASE UNCHANGED <<cr, lag, faults>>
      BY <1>0, <2>0, <3>2 DEF Ordered, CacheBehind
    <3> QED BY <2>0, <3>1, <3>2
  <2>2. CASE PrechecksReject
    BY <1>0, <2>0, <2>1, <2>2, VersionReturn DEF PrechecksReject
  <2>3. CASE PrechecksPass
    <3>1. mem' = Initialized(mem) /\ UNCHANGED <<fresh, resp>> /\ pc = "prechecks" /\ resp = {}
      BY <2>3 DEF PrechecksPass, VersionInv
    <3> QED BY <1>4, <2>0, <2>1, <3>1, VersionKeep DEF VersionInv
  <2> QED BY <1>5, <2>2, <2>3
<1>6. CASE UpdateCRField
  <2> DEFINE patched == [cr EXCEPT !.def = TRUE]
  <2>1. patched \in Pulp /\ patched.ver = cr.ver /\ patched.def = TRUE
    BY <1>0, PulpUpdates DEF Pulp
  <2>2. Store(patched) /\ mem' = patched /\ UNCHANGED <<cache, dep, pc, resp>> /\ pc = "stage" /\ ~mem.def
    BY <1>6 DEF UpdateCRField, NeedsDefaults
  <2> HIDE DEF patched
  <2>3. ~SecretsNamed /\ ~StaleReads /\ resp = {}
    BY <2>2 DEF VersionInv, Named
  <2>4. Ordered' /\ CacheBehind' /\ cr'.ver = cr.ver
    BY <1>0, <2>1, <2>2, OrderStore
  <2>5. Floor = cr.ver /\ Floor' = cr.ver /\ mem'.ver = cr.ver
    BY <2>1, <2>2, <2>3, <2>4 DEF Floor
  <2> QED BY <2>2, <2>3, <2>4, <2>5, VersionTypes DEF VersionStep, VersionInv, Named
<1>7. CondOf[Group] \in Conds /\ Group \in ResourceSet /\ "True" \in CondStatus /\ "False" \in CondStatus
  BY CondTypes DEF Group, TypeOK, CondStatus
<1>8. CASE MarkUpdating
  <2>1. UNCHANGED <<cache, dep, resp>> /\ UpdateStatus(CondOf[Group], "False") /\ pc = "stage" /\ pc' = "apply"
    BY <1>8 DEF MarkUpdating
  <2>2. /\ Ordered' /\ CacheBehind' /\ cr'.ver = cr.ver
        /\ SecretsNamed => cr'.def /\ \A i \in 1..Len(lag') : lag'[i].def
        /\ mem'.ver = mem.ver /\ mem'.def = mem.def /\ UNCHANGED fresh
    BY <1>7, <2>1, VersionUpdateStatus
  <2> QED BY <2>1, <2>2, VersionKeep DEF VersionInv
<1>9. CASE Apply
  <2>1. /\ pc = "apply" /\ dep' = [dep EXCEPT ![Group] = Deployed(dep[Group], mem.ver)]
        /\ Return(TRUE) /\ UNCHANGED <<cr, cache, lag>>
    BY <1>9 DEF Apply, crVars
  <2>2. \A r \in ResourceSet : dep'[r].ver = IF r = Group THEN mem.ver ELSE dep[r].ver
    BY <1>7, <2>1 DEF Deployed, TypeOK
  <2>3. Floor' = Floor /\ Ordered' /\ CacheBehind'
    BY <1>0, <2>1 DEF Floor, Ordered, CacheBehind
  <2>4. Named'
    BY <1>0, <2>1 DEF Named, Return, Created
  <2> QED BY <2>1, <2>2, <2>3, <2>4, VersionTypes DEF VersionStep, VersionInv, Return
<1>10. CASE Unmodified
  <2>0. UNCHANGED <<cache, dep, resp>> /\ pc = "stage" /\ pc' # "check"
    BY <1>10 DEF Unmodified, NextStage
  <2>1. CASE UpdateStatus(CondOf[Group], "True")
    <3>1. /\ Ordered' /\ CacheBehind' /\ cr'.ver = cr.ver
          /\ SecretsNamed => cr'.def /\ \A i \in 1..Len(lag') : lag'[i].def
          /\ mem'.ver = mem.ver /\ mem'.def = mem.def /\ UNCHANGED fresh
      BY <1>7, <2>0, <2>1, VersionUpdateStatus
    <3> QED BY <2>0, <3>1, VersionKeep DEF VersionInv
  <2>2. CASE UNCHANGED <<cr, lag, mem, fresh, faults>>
    <3>1. Ordered' /\ CacheBehind'
      BY <1>0, <2>0, <2>2 DEF Ordered, CacheBehind
    <3> QED BY <1>0, <2>0, <2>2, <3>1, VersionKeep DEF VersionInv
  <2> QED BY <1>10, <2>1, <2>2 DEF Unmodified
<1>11. CASE SetStatusFields
  <2> DEFINE m == Copied(mem)
  <2>1. m \in Pulp /\ m.ver = mem.ver /\ m.def = mem.def
    BY <1>0, PulpUpdates, KeptByUpdates
  <2>2. StatusUpdate(m) /\ UNCHANGED <<cache, dep, resp>> /\ pc = "fields" /\ pc' = "check"
    BY <1>11 DEF SetStatusFields
  <2> HIDE DEF m
  <2>3. /\ Ordered' /\ CacheBehind' /\ cr'.ver = cr.ver /\ mem' = m /\ UNCHANGED fresh
        /\ SecretsNamed => cr'.def /\ \A i \in 1..Len(lag') : lag'[i].def
    BY <1>0, <2>1, <2>2, OrderStatus DEF StatusUpdate, VersionInv
  <2> QED BY <2>1, <2>2, <2>3, VersionKeep DEF VersionInv
<1>12. ASSUME NEW c \in Gated, StatusChecks(c) PROVE VersionStep
  <2>0. c \in Conds /\ pc = "check" /\ pc' = "check" /\ UNCHANGED <<cache, dep>>
    BY <1>12, CondTypes
    DEF StatusChecks, CheckUnready, CheckReady, CheckFails, SendStatus, DecodeResponse, crVars
  <2>1. CASE CheckUnready(c) \/ CheckReady(c) \/ CheckFails(c)
    <3>1. UNCHANGED <<cr, lag, fresh, resp>>
      BY <2>1 DEF CheckUnready, CheckReady, CheckFails, crVars
    <3>2. mem'.ver = mem.ver /\ mem'.def = mem.def
      BY <1>0, <1>7, <2>0, <2>1, WithCondFin DEF CheckUnready, CheckReady, CheckFails
    <3>3. Ordered' /\ CacheBehind'
      BY <1>0, <2>0, <3>1 DEF Ordered, CacheBehind
    <3> QED BY <1>0, <2>0, <3>1, <3>2, <3>3, VersionKeep DEF VersionInv, Named
  <2>2. CASE SendStatus(c)
    <3>1. (Accepted(mem) \/ Refused) /\ UNCHANGED mem
      BY <2>2 DEF SendStatus
    <3>2. /\ Ordered' /\ CacheBehind' /\ cr'.ver = cr.ver
          /\ SecretsNamed => cr'.def /\ \A i \in 1..Len(lag') : lag'[i].def
      BY <1>0, <2>0, <3>1, OrderStatus DEF VersionInv
    <3>3. CASE /\ Accepted(mem) /\ fresh' = (mem = cr)
               /\ resp' = Overtaken(mem) \cup {[comp |-> c, obj |-> mem, fresh |-> TRUE]}
      <4>1. fresh /\ mem.ver = cr.ver
        BY <3>3 DEF Accepted, VersionInv
      <4>2. \A r \in Overtaken(mem) : \E p \in resp : r.obj = p.obj
        BY DEF Overtaken, TypeOK
      <4>3. \A r \in resp' : r.obj.ver = mem.ver /\ (SecretsNamed => r.obj.def)
        BY <1>0, <2>0, <3>3, <4>2 DEF VersionInv, Named
      <4> QED BY <2>0, <3>1, <3>2, <4>1, <4>3, VersionKeep
    <3>4. CASE Refused /\ UNCHANGED <<resp, fresh>>
      BY <1>0, <2>0, <3>1, <3>2, <3>4, VersionKeep DEF VersionInv, Named
    <3> QED BY <2>2, <3>3, <3>4 DEF SendStatus
  <2>3. CASE DecodeResponse(c)
    <3>1. PICK r \in resp : mem' = r.obj /\ fresh' = r.fresh /\ resp' = resp \ {r}
      BY <2>3 DEF DecodeResponse
    <3>2. UNCHANGED <<cr, lag>>
      BY <2>3 DEF DecodeResponse, crVars
    <3>3. Ordered' /\ CacheBehind' /\ Floor' = Floor
      BY <1>0, <2>0, <3>2 DEF Ordered, CacheBehind, Floor
    <3>4. mem'.ver = mem.ver /\ (fresh' => mem.ver = cr.ver) /\ (SecretsNamed => mem'.def)
      BY <1>0, <2>0, <3>1 DEF VersionInv, Named
    <3>5. \A p \in resp' : p.obj.ver = mem'.ver /\ (SecretsNamed => p.obj.def) /\ (p.fresh => mem'.ver = cr'.ver)
      BY <1>0, <2>0, <3>1, <3>2, <3>4 DEF VersionInv, Named
    <3>6. Named'
      BY <1>0, <2>0, <3>2, <3>4, <3>5 DEF Named
    <3>7. \A r1 \in ResourceSet : dep'[r1].ver <= Floor' /\ dep'[r1].ver <= mem'.ver /\ dep'[r1].ver >= dep[r1].ver
      BY <2>0, <3>3, <3>4, VersionTypes DEF VersionInv
    <3> QED BY <2>0, <3>2, <3>3, <3>4, <3>5, <3>6, <3>7 DEF VersionStep, VersionInv
  <2> QED BY <1>12, <2>1, <2>2, <2>3 DEF StatusChecks
<1>13. CASE GatePass \/ SetFinished
  <2>1. /\ UNCHANGED <<cr, cache, lag, dep, resp>> /\ pc' \in {"finish", "write"}
        /\ pc # "idle" /\ fresh' = (lag = <<>>) /\ CacheReadable
    BY <1>13 DEF GatePass, AllDone, SetFinished, Get, CacheFresh, crVars
  <2>2. mem'.ver = cache.ver /\ mem'.def = cache.def
    BY <1>0, <1>13 DEF GatePass, SetFinished, Get, Pulp
  <2>3. cache.ver = Floor /\ Floor' = Floor /\ (fresh' => mem'.ver = cr'.ver)
    BY <1>0, <2>1, <2>2 DEF CacheReadable, CacheBehind, Floor
  <2>4. Ordered' /\ CacheBehind' /\ Named'
    BY <1>0, <2>1, <2>2 DEF Ordered, CacheBehind, Named
  <2> QED BY <2>1, <2>2, <2>3, <2>4, VersionTypes DEF VersionStep, VersionInv
<1>14. CASE WriteFinished
  <2>1. Accepted(mem) /\ Return(FALSE) /\ UNCHANGED <<cache, dep>>
    BY <1>14 DEF WriteFinished
  <2>2. /\ Ordered' /\ CacheBehind' /\ cr'.ver = cr.ver
        /\ SecretsNamed => cr'.def /\ \A i \in 1..Len(lag') : lag'[i].def
    BY <1>0, <2>1, OrderStatus DEF VersionInv
  <2> QED BY <1>0, <2>1, <2>2, VersionReturn
<1>15. CASE Deliver
  <2>1. UNCHANGED <<cr, mem, fresh, dep, pc, resp>> /\ Orders' /\ cache.ver <= cache'.ver
    BY <1>0, <1>15, OrderDeliver DEF Deliver, opVars
  <2>2. cache'.ver \in Nat
    <3>1. lag \in Seq(Pulp) /\ lag # <<>> /\ cache' = lag[1] /\ 1 \in 1..Len(lag)
      BY <1>15 DEF Deliver, TypeOK
    <3> QED BY <3>1, LagVersions
  <2>3. Floor <= Floor' /\ Floor' \in Nat
    BY <2>1, <2>2, VersionTypes DEF Floor
  <2> QED BY <2>1, <2>3, VersionTypes DEF VersionStep, VersionInv, Orders
<1>16. CASE \E c \in Gated : Rollout(c) \/ PodsFail(c)
  <2>1. UNCHANGED <<cr, cache, lag, mem, fresh, pc, resp>>
    BY <1>16 DEF Rollout, ObserveRollout, PodsReady, PodsFail, crVars, opVars
  <2>2. \A r \in ResourceSet : dep'[r].ver = dep[r].ver
    BY <1>16, RolloutKeepsVersion
  <2> QED BY <2>1, <2>2, VersionTypes DEF VersionStep, VersionInv, CacheBehind, Ordered, Named, Floor
<1>17. CASE EditSpec
  <2> DEFINE edited == [cr EXCEPT !.ver = @ + 1]
  <2>0. cr.ver + 1 \in Versions
    BY <1>0, <1>17, SpecAssumption DEF EditSpec, Pulp, Versions
  <2>1. edited \in Pulp /\ edited.ver = cr.ver + 1 /\ edited.def = cr.def
    BY <1>0, <2>0 DEF Pulp
  <2>2. /\ cr' = edited /\ lag' = Append(lag, edited) /\ resp' = Overtaken(edited)
        /\ fresh' = FALSE /\ UNCHANGED <<cache, mem, dep, pc>>
    BY <1>17 DEF EditSpec
  <2> HIDE DEF edited
  <2>9. edited # cr
    <3>1. cr.ver + 1 # cr.ver
      BY <1>0
    <3> QED BY <2>1, <3>1
  <2>3. Ordered' /\ CacheBehind'
    BY <1>0, <2>1, <2>2, OrderAppend, VersionTypes
  <2>4. \A r \in resp' : ~r.fresh /\ \E p \in resp : r.obj = p.obj
    BY <2>2, <2>9 DEF Overtaken, TypeOK
  <2>5. SecretsNamed => \A i \in 1..Len(lag') : lag'[i].def
    BY <1>0, <2>1, <2>2 DEF Named, TypeOK
  <2>6. Named'
    BY <1>0, <2>1, <2>2, <2>4, <2>5 DEF Named
  <2>7. Floor <= Floor' /\ Floor' \in Nat
    BY <2>1, <2>2, VersionTypes DEF Floor
  <2>8. pc' \notin {"check", "finish", "write"} => resp' = {}
    BY <2>2, <2>4 DEF VersionInv
  <2> QED BY <2>2, <2>3, <2>4, <2>6, <2>7, <2>8, VersionTypes DEF VersionStep, VersionInv
<1>18. CASE OperatorRestart
  <2>1. Return(TRUE) /\ cache' = cr /\ lag' = <<>> /\ UNCHANGED <<cr, dep>>
    BY <1>18 DEF OperatorRestart
  <2>2. Ordered' /\ CacheBehind'
    BY <2>1, VersionTypes DEF Ordered, CacheBehind
  <2>3. cache.ver <= cache'.ver
    BY <1>0, <2>1 DEF Ordered
  <2>4. cache'.ver \in Nat /\ cr'.ver = cr.ver
    BY <1>0, <2>1
  <2>5. SecretsNamed => cr'.def /\ cache'.def /\ \A i \in 1..Len(lag') : lag'[i].def
    BY <1>0, <2>1
  <2> QED BY <2>1, <2>2, <2>3, <2>4, <2>5, VersionReturn
<1>19. CASE updateIngressType
  <2> DEFINE m == WithoutWayIn(mem)
  <2>1. m \in Pulp /\ m.ver = mem.ver /\ m.def = mem.def
    BY <1>0, PulpUpdates, KeptByUpdates
  <2>2. (Accepted(m) \/ Refused) /\ Return(TRUE) /\ UNCHANGED cache /\ pc = "stage"
    BY <1>19 DEF updateIngressType
  <2>3. \A r \in ResourceSet : dep'[r].ver \in {mem.ver, dep[r].ver}
    BY <1>19 DEF updateIngressType, Missing
  <2> HIDE DEF m
  <2>4. /\ Ordered' /\ CacheBehind' /\ cr'.ver = cr.ver
        /\ SecretsNamed => cr'.def /\ \A i \in 1..Len(lag') : lag'[i].def
    BY <1>0, <2>1, <2>2, OrderStatus DEF VersionInv
  <2>5. Named'
    BY <1>0, <2>2, <2>4 DEF Named, Return, Created
  <2>6. Floor' = Floor /\ mem' = Created /\ pc' = "idle" /\ resp' = {} /\ fresh' = FALSE
    BY <2>2, <2>4 DEF Floor, Return
  <2>7. \A r \in ResourceSet : dep'[r].ver <= Floor /\ dep'[r].ver >= dep[r].ver
    BY <2>2, <2>3, VersionTypes DEF VersionInv
  <2> QED BY <2>4, <2>5, <2>6, <2>7 DEF VersionStep, VersionInv
<1> QED
  BY <1>1, <1>2, <1>3, <1>5, <1>6, <1>8, <1>9, <1>10, <1>11, <1>12, <1>13, <1>14, <1>15, <1>16, <1>17, <1>18, <1>19
  DEF Next, Reconcile

LEMMA VersionInit == Init => VersionInv
<1> SUFFICES ASSUME Init PROVE VersionInv
  OBVIOUS
<1>1. cr = Created /\ cache = Created /\ mem = Created /\ lag = <<>> /\ resp = {} /\ pc = "idle" /\ ~fresh
  BY DEF Init
<1>2. \A r \in ResourceSet : dep[r].ver = 0
  BY DEF Init, Missing
<1>3. Created.ver = 1 /\ Created.def = SecretsNamed
  BY DEF Created
<1>4. CacheBehind /\ Ordered /\ Named
  BY <1>1, <1>3 DEF CacheBehind, Ordered, Named
<1> QED BY <1>1, <1>2, <1>3, <1>4 DEF VersionInv, Floor

(* NoRollback: if the user names every secret, or if every r.Get returned   *)
(* the newest version, no object ever goes back to an older version of      *)
(* .spec, whatever crashes, conflicts and errors there are on the way.      *)
THEOREM DeployedVersionsGrow == (SecretsNamed \/ ~StaleReads) /\ Spec => NoRollback
<1>1. CASE SecretsNamed \/ ~StaleReads
  <2>1. TypeOK /\ VersionInv /\ [Next]_vars => VersionInv' /\ [\A r \in ResourceSet : dep'[r].ver >= dep[r].ver]_vars
    BY <1>1, VersionNext DEF VersionStep
  <2> QED BY <2>1, TypeCorrect, VersionInit, PTL DEF Spec, NoRollback
<1> QED BY <1>1

-----------------------------------------------------------------------------
(* Objects are built from checked versions only.                            *)

(* A step that changes neither the objects nor the version of the operator's*)
(* copy, and does not enter the part of the loop that builds objects.       *)
LEMMA CheckedKeep ==
  ASSUME CheckedInv, \A r \in ResourceSet : dep'[r].ver = dep[r].ver,
         \/ pc' \notin {"prechecks", "stage", "apply"}
         \/ mem'.ver = mem.ver /\ (pc' = pc \/ (pc = "stage" /\ pc' = "apply"))
  PROVE  CheckedInv'
<1>1. OnlyCheckedDeployed'
  BY DEF CheckedInv, OnlyCheckedDeployed
<1> QED BY <1>1 DEF CheckedInv

LEMMA CheckedNext ==
  ASSUME SecretsNamed, TypeOK, Named, CheckedInv, [Next]_vars
  PROVE  CheckedInv'
<1>0. mem \in Pulp /\ cache \in Pulp /\ cr \in Pulp
  BY DEF TypeOK
<1>1. CASE StartReconcile
  <2>1. mem'.ver \notin UnmanagedSpecs /\ pc' = "prechecks" /\ UNCHANGED dep
    BY <1>1 DEF StartReconcile, Get
  <2> QED BY <2>1 DEF CheckedInv, OnlyCheckedDeployed
<1>2. CASE SkipUnmanaged \/ Resync \/ Deliver \/ EditSpec \/ UNCHANGED vars
  <2>1. UNCHANGED <<dep, mem, pc>>
    BY <1>2 DEF SkipUnmanaged, Resync, Deliver, EditSpec, opVars, vars
  <2> QED BY <2>1, CheckedKeep
<1>3. CASE InitializeFails \/ UpdateCRFieldFails \/ ApplyFails \/ GateRetry \/ GateFinished
           \/ WriteFinishedFails \/ PrechecksReject \/ WriteFinished \/ OperatorRestart
  <2>1. UNCHANGED dep /\ pc' = "idle"
    BY <1>3 DEF InitializeFails, UpdateCRFieldFails, ApplyFails, GateRetry, GateFinished,
                WriteFinishedFails, PrechecksReject, WriteFinished, OperatorRestart, Return
  <2> QED BY <2>1, CheckedKeep
<1>4. CASE PrechecksPass
  <2>1. Initialized(mem).ver = mem.ver
    BY <1>0 DEF Initialized, Pulp
  <2>2. mem'.ver = mem.ver /\ mem.ver \notin InvalidSpecs /\ UNCHANGED dep
        /\ pc = "prechecks" /\ pc' = "stage"
    BY <1>4, <2>1 DEF PrechecksPass
  <2> QED BY <2>2 DEF CheckedInv, OnlyCheckedDeployed
<1>5. CASE UpdateCRField
  <2>1. pc = "stage" /\ ~mem.def
    BY <1>5 DEF UpdateCRField, NeedsDefaults
  <2> QED BY <2>1 DEF Named
<1>6. CondOf[Group] \in Conds /\ Group \in ResourceSet /\ "True" \in CondStatus /\ "False" \in CondStatus
  BY CondTypes DEF Group, TypeOK, CondStatus
<1>7. ASSUME NEW s \in CondStatus, UpdateStatus(CondOf[Group], s)
      PROVE  mem'.ver = mem.ver
  BY <1>0, <1>6, <1>7, WithCondFin DEF UpdateStatus, StatusUpdate
<1>8. CASE MarkUpdating
  <2>1. UNCHANGED dep /\ pc = "stage" /\ pc' = "apply" /\ UpdateStatus(CondOf[Group], "False")
    BY <1>8 DEF MarkUpdating
  <2> QED BY <1>6, <1>7, <2>1, CheckedKeep
<1>9. CASE Unmodified
  <2>1. UNCHANGED dep /\ pc = "stage" /\ pc' \in {"stage", "fields"}
    BY <1>9 DEF Unmodified, NextStage
  <2>2. mem'.ver = mem.ver
    BY <1>6, <1>7, <1>9 DEF Unmodified
  <2> QED BY <2>1, <2>2, CheckedKeep
<1>10. CASE Apply
  <2>1. /\ pc = "apply" /\ dep' = [dep EXCEPT ![Group] = Deployed(dep[Group], mem.ver)]
        /\ pc' = "idle"
    BY <1>10 DEF Apply, Return
  <2>2. \A r \in ResourceSet : dep'[r].ver = IF r = Group THEN mem.ver ELSE dep[r].ver
    BY <1>6, <2>1 DEF Deployed, TypeOK
  <2> QED BY <2>1, <2>2 DEF CheckedInv, OnlyCheckedDeployed
<1>11. CASE SetStatusFields \/ (\E c \in Gated : StatusChecks(c)) \/ GatePass \/ SetFinished
  <2>1. UNCHANGED dep /\ pc' \in {"check", "finish", "write"}
    BY <1>11
    DEF SetStatusFields, StatusChecks, CheckUnready, CheckReady, CheckFails, SendStatus, DecodeResponse,
        GatePass, SetFinished
  <2> QED BY <2>1, CheckedKeep
<1>12. CASE \E c \in Gated : Rollout(c) \/ PodsFail(c)
  <2>1. UNCHANGED <<mem, pc>>
    BY <1>12 DEF Rollout, ObserveRollout, PodsReady, PodsFail, opVars
  <2>2. \A r \in ResourceSet : dep'[r].ver = dep[r].ver
    BY <1>12, RolloutKeepsVersion
  <2> QED BY <2>1, <2>2, CheckedKeep
<1>13. CASE updateIngressType
  <2>1. pc = "stage" /\ pc' = "idle" /\ \A r \in ResourceSet : dep'[r].ver \in {mem.ver, dep[r].ver}
    BY <1>13 DEF updateIngressType, Return, Missing
  <2> QED BY <2>1 DEF CheckedInv, OnlyCheckedDeployed
<1> QED
  BY <1>1, <1>2, <1>3, <1>4, <1>5, <1>8, <1>9, <1>10, <1>11, <1>12, <1>13 DEF Next, Reconcile

(* OnlyCheckedDeployed: as long as the operator has no default to patch     *)
(* into .spec, everything it deploys comes from a version of .spec that     *)
(* was managed and that passed the prechecks, however stale the cache is.   *)
THEOREM DeployedVersionsChecked == SecretsNamed /\ Spec => []OnlyCheckedDeployed
<1>1. CASE SecretsNamed
  <2>1. Init => CheckedInv
    BY SpecAssumption DEF Init, CheckedInv, OnlyCheckedDeployed, Versions, Missing
  <2>2. TypeOK /\ VersionInv /\ [Next]_vars => VersionInv'
    BY <1>1, VersionNext DEF VersionStep
  <2>3. TypeOK /\ VersionInv /\ CheckedInv /\ [Next]_vars => CheckedInv'
    BY <1>1, CheckedNext DEF VersionInv
  <2>4. CheckedInv => OnlyCheckedDeployed
    BY DEF CheckedInv
  <2> QED BY <2>1, <2>2, <2>3, <2>4, TypeCorrect, VersionInit, PTL DEF Spec
<1> QED BY <1>1
=============================================================================
