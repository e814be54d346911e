---------------------------- MODULE PulpIngress ----------------------------
(***************************************************************************)
(* How Pulp is exposed: the part of the Pulp reconciliation that provisions *)
(* Routes, Ingresses or pulp-web, and the switch from one to another        *)
(* (pulpCoreTasks, updateIngressType, updateIngressClass).  What has been   *)
(* deployed is remembered in .status.ingress_type and ingress_class_name.   *)
(*                                                                          *)
(* Reads return the current objects; stale ones are the subject of          *)
(* RepoManager.  A change of an owned object, or of .spec, queues a         *)
(* reconciliation.                                                          *)
(***************************************************************************)
EXTENDS Naturals, FiniteSets

CONSTANTS
  OpenShift,    \* the cluster has Routes and the openshift-default class
  Routes,       \* one for each path that the plugins and pulpcore serve
  Rewrites,     \* some plugin needs a rewritten path
  Classes,      \* names of IngressClasses
  Specs,        \* the values that users give to the fields of .spec
  Installed,    \* those a new installation begins with
  MaxEdits,     \* changes of .spec
  MaxFaults     \* calls that fail, and restarts

ToLower ==
  [none |-> "none",
   Ingress |-> "ingress", ingress |-> "ingress", Route |-> "route", route |-> "route",
   LoadBalancer |-> "loadbalancer", loadbalancer |-> "loadbalancer",
   NodePort |-> "nodeport", nodeport |-> "nodeport"]

NoName     == ""
OCPDefault == "openshift-default"
Types      == DOMAIN ToLower \cup {NoName}
ClassNames == Classes \cup {NoName}
Fields     == [type : Types, class : ClassNames, nginx : BOOLEAN, port : BOOLEAN]  \* port: node_port is given

Kind(t)            == IF t = NoName THEN "none" ELSE ToLower[t]
isRoute(s)         == Kind(s.type) = "route"
isIngress(s)       == Kind(s.type) = "ingress"
isNginxIngress(s)  == isIngress(s) /\ s.nginx
isOCPIngress(s)    == ~s.nginx /\ OpenShift /\ s.class = OCPDefault

(* checkIngressDefinition and checkRouteNotOCP.                             *)
prechecks(s) == (isIngress(s) => s.class # NoName) /\ (isRoute(s) => OpenShift)

ASSUME IngressConstants ==
  /\ OpenShift \in BOOLEAN /\ Rewrites \in BOOLEAN
  /\ Specs \subseteq Fields /\ Installed \subseteq Specs
  /\ MaxEdits \in Nat /\ MaxFaults \in Nat

(* is_nginx_ingress says what controller the IngressClass has: it is a      *)
(* property of the class, and .spec changes the two together.               *)
ASSUME NginxOfClass == \A s, t \in Specs : s.class = t.class => s.nginx = t.nginx

-----------------------------------------------------------------------------
(* The objects in the cluster, and what is told apart of them: the class of *)
(* an Ingress and whether it points to pulp-web, the type of the Service.   *)
Web     == {"configmap", "deployment", "service"}
Objects == Web \cup {"ingress", "redirect"} \cup Routes

ASSUME RouteNames == Routes \cap (Web \cup {"ingress", "redirect"}) = {}

Object  == [is : ClassNames \cup {"present", "absent", "LoadBalancer", "NodePort", "ClusterIP"},
            web : BOOLEAN]
Absent  == [is |-> "absent", web |-> FALSE]
Present == [is |-> "present", web |-> FALSE]

ServiceTypeAsGiven(s) ==    \* mutant: the type of the Service is copied
  [is |-> s.type, web |-> FALSE]

serviceForPulpWeb(s) ==
  [is  |-> CASE Kind(s.type) = "loadbalancer" -> "LoadBalancer"
             [] Kind(s.type) = "nodeport"     -> "NodePort"
             [] OTHER                         -> "ClusterIP",
   web |-> FALSE]

(* IngressNginx, IngressOCP and IngressOthers: only the last has pulp-web   *)
(* behind it.                                                               *)
Deploy(s) == [is |-> s.class, web |-> ~s.nginx /\ ~isOCPIngress(s)]

Expected(o, s) ==
  CASE o = "service"  -> serviceForPulpWeb(s)
    [] o = "ingress"  -> Deploy(s)
    [] o = "redirect" -> [is |-> s.class, web |-> FALSE]
    [] OTHER          -> Present

(* What a way of exposing Pulp consists of.                                 *)
Wanted(s) ==
  IF isRoute(s) THEN Routes
  ELSE IF isIngress(s)
       THEN {"ingress"} \cup (IF Deploy(s).web THEN Web ELSE {})
                        \cup (IF isOCPIngress(s) /\ Rewrites THEN {"redirect"} ELSE {})
       ELSE Web

-----------------------------------------------------------------------------
Conds == {"web", "ingress", "route"}
Pulp  == [spec : Fields, type : Types, class : ClassNames, cond : [Conds -> {"none", "False", "True"}]]
Steps == {"idle", "switch", "store", "routes", "spawned", "redirect", "ingress",
          "web", "class", "fields", "check"}

VARIABLES
  pc,         \* the step the reconciliation is at
  queue,      \* the workqueue holds a request
  cr,         \* the Pulp resource
  mem,        \* the reconciliation's copy of it
  fresh,      \* that copy carries the current resourceVersion
  lateFresh,  \* so does the copy of the goroutines of an earlier reconciliation
  obj,        \* the objects
  ready,      \* the pods of pulp-web are ready
  job,        \* the goroutine for each Route: "done", "get", "create"
  late,       \* Routes whose goroutine has outlived its reconciliation
  unnoticed,  \* objects the operator lost track of: an error was dropped,
              \* .spec changed before .status told what they were made for, or
              \* a goroutine made a Route when .status told of something else
  edits, faults

cluster == <<obj, ready>>
threads == <<job, late>>
counts  == <<edits, faults>>
vars    == <<pc, queue, cr, mem, fresh, lateFresh, obj, ready, job, late, unnoticed, edits, faults>>

There == {o \in Objects : obj[o] # Absent}
Fault == faults < MaxFaults /\ faults' = faults + 1 /\ UNCHANGED edits

(* r.Status().Update: the outcome is dropped, and an update without effect  *)
(* leaves the resourceVersion alone.                                        *)
Store(new) ==
  /\ mem' = new
  /\ cr' = IF fresh THEN new ELSE cr
  /\ lateFresh' = (lateFresh /\ cr' = cr)
  /\ UNCHANGED fresh

NoUpdate == UNCHANGED <<cr, mem, fresh, lateFresh>>
UpdateStatus(c, v) ==
  IF mem.cond[c] = v THEN NoUpdate ELSE Store([mem EXCEPT !.cond[c] = v])

Return(q)  == pc' = "idle" /\ queue' = (queue \/ q)
Goto(step) == pc' = step /\ UNCHANGED queue

(* The objects of S are deleted.  An error is dropped.                      *)
Delete(S) ==
  \E kept \in SUBSET (S \cap There) :
    /\ (kept = {} /\ UNCHANGED counts) \/ (kept # {} /\ Fault)
    /\ obj' = [o \in Objects |-> IF o \in S \ kept THEN Absent ELSE obj[o]]
    /\ ready' = (ready /\ obj'["deployment"] # Absent)
    /\ unnoticed' = unnoticed \cup kept

(* .status tells that what is made for s is there.  The type is written     *)
(* after the first objects, the class after the objects of every change.    *)
Remembered(s) == cr.type # NoName /\ cr.class = s.class

(* o is created or updated as the copy of the resource says.                *)
Write(o) ==
  /\ obj' = [obj EXCEPT ![o] = Expected(o, mem.spec)]
  /\ ready' = (ready /\ o # "deployment")
  /\ unnoticed' = IF mem.spec # cr.spec /\ ~Remembered(mem.spec) THEN unnoticed \cup {o} ELSE unnoticed

Untouched == UNCHANGED <<obj, ready, unnoticed>>

-----------------------------------------------------------------------------
(* pulpCoreTasks chooses by .status.ingress_type, with its spelling.  Bound: *)
(* a goroutine outlives its reconciliation by the next one at most.         *)
Known == cr.type = NoName \/ cr.type = cr.spec.type

StartReconcile ==
  /\ pc = "idle" /\ queue /\ queue' = FALSE
  /\ mem' = cr /\ fresh' = TRUE
  /\ late = {} /\ lateFresh' = fresh
  /\ late' = {r \in Routes : job[r] # "done"}
  /\ pc' = IF ~prechecks(cr.spec)   THEN "idle"
           ELSE IF ~Known           THEN "switch"
           ELSE IF isRoute(cr.spec) THEN "routes"
           ELSE IF isIngress(cr.spec) THEN "redirect"
           ELSE "web"
  /\ UNCHANGED <<cr, cluster, job, unnoticed, counts>>

-----------------------------------------------------------------------------
(* updateIngressType.  Nothing is done, over and over, when the two types   *)
(* only differ in their spelling, or the old one is "none".                 *)
From == Kind(mem.type)

FromRoute ==
  /\ pc = "switch" /\ From = "route" /\ ~isRoute(mem.spec)
  /\ Delete(Routes)
  /\ mem' = [mem EXCEPT !.cond["route"] = "none", !.type = mem.spec.type]
  /\ Goto("store")
  /\ UNCHANGED <<cr, fresh, lateFresh, threads>>

FromIngressByName ==    \* mutant: one Ingress is deleted, not all of them
  /\ pc = "switch" /\ From = "ingress" /\ ~isIngress(mem.spec)
  /\ Delete({"ingress", "deployment", "service"})
  /\ mem' = [mem EXCEPT !.cond["ingress"] = "none", !.cond["web"] = "none",
                        !.type = mem.spec.type, !.class = NoName]
  /\ Goto("store")
  /\ UNCHANGED <<cr, fresh, lateFresh, threads>>

FromIngress ==
  /\ pc = "switch" /\ From = "ingress" /\ ~isIngress(mem.spec)
  /\ Delete({"ingress", "redirect", "deployment", "service"})
  /\ mem' = [mem EXCEPT !.cond["ingress"] = "none", !.cond["web"] = "none",
                        !.type = mem.spec.type, !.class = NoName]
  /\ Goto("store")
  /\ UNCHANGED <<cr, fresh, lateFresh, threads>>

FromWebKeepsCond ==    \* mutant: the condition of pulp-web is not removed
  /\ pc = "switch" /\ From \in {"nodeport", "loadbalancer"} /\ Kind(mem.spec.type) # From
  /\ Delete({"deployment", "service"})
  /\ mem' = [mem EXCEPT !.type = mem.spec.type]
  /\ Goto("store")
  /\ UNCHANGED <<cr, fresh, lateFresh, threads>>

FromWeb ==
  /\ pc = "switch" /\ From \in {"nodeport", "loadbalancer"} /\ Kind(mem.spec.type) # From
  /\ Delete({"deployment", "service"})
  /\ mem' = [mem EXCEPT !.cond["web"] = "none", !.type = mem.spec.type]
  /\ Goto("store")
  /\ UNCHANGED <<cr, fresh, lateFresh, threads>>

FromNowhere ==
  /\ pc = "switch"
  /\ From = Kind(mem.spec.type) \/ From = "none"
  /\ Return(TRUE)
  /\ NoUpdate /\ Untouched /\ UNCHANGED <<threads, counts>>

StoreStatus ==
  /\ pc = "store"
  /\ Store(mem) /\ Return(TRUE)
  /\ Untouched /\ UNCHANGED <<threads, counts>>

-----------------------------------------------------------------------------
(* The object has to be written: ReconcileObject, CheckDeploymentSpec.  An  *)
(* existing Service of pulp-web is only compared when node_port is given.   *)
Missing(o) == obj[o] = Absent    \* mutant: one that exists is left as it is
Differs(o) ==
  /\ obj[o] # Expected(o, mem.spec)
  /\ o = "service" => obj[o] = Absent \/ mem.spec.port

(* The paths are asked of a running pod.                                    *)
NoPaths ==
  /\ \/ pc = "routes" /\ (NoUpdate \/ UpdateStatus("route", "False"))
     \/ pc = "redirect" /\ (NoUpdate \/ UpdateStatus("ingress", "False"))
  /\ Fault /\ Return(TRUE)
  /\ Untouched /\ UNCHANGED threads

(* PulpRouteController: one goroutine for each Route.  len(c) of a channel  *)
(* without buffer is 0, so that nobody waits for them or sees their errors. *)
SpawnRoutes ==
  /\ pc = "routes" /\ late = {}
  /\ job' = [r \in Routes |-> "get"]
  /\ Goto("spawned")
  /\ NoUpdate /\ Untouched /\ UNCHANGED <<late, counts>>

RemoveWeb ==
  /\ pc = "spawned"
  /\ Delete({"deployment", "service"})
  /\ LET new == [mem EXCEPT !.cond["web"] = "none"]
     IN  IF mem.cond["route"] = "False" THEN Store([new EXCEPT !.cond["route"] = "True"])
         ELSE mem' = new /\ UNCHANGED <<cr, fresh, lateFresh>>
  /\ pc' = "class" /\ queue' = (queue \/ obj' # obj)
  /\ UNCHANGED threads

(* A goroutine whose reconciliation is over has a copy of its own.          *)
RouteNotReady(r) ==
  IF r \notin late THEN UpdateStatus("route", "False")
  ELSE /\ cr' = IF lateFresh THEN [cr EXCEPT !.cond["route"] = "False"] ELSE cr
       /\ fresh' = (fresh /\ cr' = cr)
       /\ UNCHANGED <<mem, lateFresh>>

GetRoute(r) ==
  /\ job[r] = "get"
  /\ \/ /\ obj[r] # Absent /\ NoUpdate
        /\ job' = [job EXCEPT ![r] = "done"] /\ late' = late \ {r}
     \/ /\ obj[r] = Absent
        /\ job' = [job EXCEPT ![r] = "create"] /\ UNCHANGED late
        /\ RouteNotReady(r)
  /\ UNCHANGED <<pc, queue, cluster, unnoticed, counts>>

(* .spec asks for Routes, and .status does not tell of something else.      *)
RoutesTold == isRoute(cr.spec) /\ (cr.type = NoName \/ Kind(cr.type) = "route")

CreateRoute(r) ==
  /\ job[r] = "create"
  /\ job' = [job EXCEPT ![r] = "done"] /\ late' = late \ {r}
  /\ obj' = [obj EXCEPT ![r] = Present]
  /\ unnoticed' = IF RoutesTold THEN unnoticed ELSE unnoticed \cup {r}
  /\ queue' = TRUE
  /\ NoUpdate /\ UNCHANGED <<pc, ready, counts>>

RouteFails(r) ==
  /\ job[r] # "done" /\ Fault
  /\ IF job[r] = "create" THEN RouteNotReady(r) ELSE NoUpdate
  /\ job' = [job EXCEPT ![r] = "done"] /\ late' = late \ {r}
  /\ unnoticed' = unnoticed \cup {r}
  /\ UNCHANGED <<pc, queue, cluster>>

-----------------------------------------------------------------------------
(* pulpIngressController.  On OpenShift the rewritten paths have an Ingress *)
(* of their own, provisioned first.                                         *)
Redirect ==
  /\ pc = "redirect"
  /\ IF "redirect" \in Wanted(mem.spec) /\ Differs("redirect")
     THEN Write("redirect") /\ UpdateStatus("ingress", "False") /\ queue' = TRUE
     ELSE Untouched /\ NoUpdate /\ UNCHANGED queue
  /\ pc' = "ingress"
  /\ UNCHANGED <<threads, counts>>

WriteIngress ==
  /\ pc = "ingress" /\ Differs("ingress")
  /\ UpdateStatus("ingress", "False")
  /\ Write("ingress") /\ UNCHANGED counts
  /\ Return(TRUE)
  /\ UNCHANGED threads

IngressReady ==
  /\ pc = "ingress" /\ ~Differs("ingress")
  /\ IF mem.cond["ingress"] = "False" THEN UpdateStatus("ingress", "True") ELSE NoUpdate
  /\ Goto(IF Deploy(mem.spec).web THEN "web" ELSE "class")
  /\ Untouched /\ UNCHANGED <<threads, counts>>

(* pulpWebController: one object in each reconciliation.                    *)
NextWebObject(o) ==
  /\ Differs(o)
  /\ o = "deployment" => ~Differs("configmap")
  /\ o = "service" => ~Differs("configmap") /\ ~Differs("deployment")

WriteWeb(o) ==
  /\ pc = "web" /\ NextWebObject(o)
  /\ UpdateStatus("web", "False")
  /\ Write(o) /\ UNCHANGED counts
  /\ Return(TRUE)
  /\ UNCHANGED threads

WebDone ==
  /\ pc = "web" /\ \A o \in Web : ~Differs(o)
  /\ Goto("class")
  /\ NoUpdate /\ Untouched /\ UNCHANGED <<threads, counts>>

(* An object cannot be written.                                             *)
WriteFails ==
  /\ \/ pc = "redirect" /\ "redirect" \in Wanted(mem.spec) /\ Differs("redirect") /\ UpdateStatus("ingress", "False")
     \/ pc = "ingress" /\ Differs("ingress") /\ UpdateStatus("ingress", "False")
     \/ pc = "web" /\ (\E o \in Web : Differs(o)) /\ UpdateStatus("web", "False")
  /\ Fault /\ Return(TRUE)
  /\ Untouched /\ UNCHANGED threads

-----------------------------------------------------------------------------
(* updateIngressClass, and its part for OpenShift.  The names of classes    *)
(* have no capital letters, so that EqualFold is equality.                  *)
SwitchClass ==
  /\ pc = "class" /\ mem.class # mem.spec.class
  /\ LET new     == mem.spec.class
         toOCP   == new = OCPDefault
         fromOCP == mem.class = OCPDefault
         part    == IF isNginxIngress(mem.spec) THEN "web" ELSE "ingress"
     IN  /\ Delete((IF part = "web" \/ toOCP THEN {"deployment", "service"} ELSE {})
                   \cup (IF part = "ingress" THEN {"ingress"} ELSE {})
                   \cup (IF fromOCP THEN {"redirect"} ELSE {}))
         /\ mem' = [mem EXCEPT !.class = new,
                               !.cond = [c \in Conds |-> IF c = part \/ (c = "web" /\ toOCP)
                                                         THEN "none" ELSE mem.cond[c]]]
  /\ Goto("store")
  /\ UNCHANGED <<cr, fresh, lateFresh, threads>>

SameClass ==
  /\ pc = "class" /\ mem.class = mem.spec.class
  /\ Goto("fields")
  /\ NoUpdate /\ Untouched /\ UNCHANGED <<threads, counts>>

(* setStatusFields: some field of .status is written in every               *)
(* reconciliation, and .status.ingress_type when it is empty.               *)
setStatusFields ==
  /\ pc = "fields"
  /\ Store(IF mem.type = NoName THEN [mem EXCEPT !.type = mem.spec.type] ELSE mem)
  /\ Goto("check")
  /\ Untouched /\ UNCHANGED <<threads, counts>>

(* setStatusConditions, for pulp-web.  The gate asks for its condition even *)
(* where pulp-web is not wanted.                                            *)
needsIngressStatusUpdate ==
  ~isRoute(mem.spec) /\ ~isNginxIngress(mem.spec)
  /\ (isIngress(mem.spec) /\ obj["ingress"] # Absent => obj["ingress"].web)

setStatusConditions ==
  /\ pc = "check"
  /\ IF needsIngressStatusUpdate /\ obj["deployment"] # Absent /\ ~ready
     THEN UpdateStatus("web", "False")
     ELSE IF needsIngressStatusUpdate /\ obj["deployment"] # Absent /\ mem.cond["web"] = "False"
          THEN UpdateStatus("web", "True")
          ELSE NoUpdate
  /\ Return(cr'.cond["web"] = "False")
  /\ Untouched /\ UNCHANGED <<threads, counts>>

-----------------------------------------------------------------------------
(* The environment.                                                         *)

EditSpec ==
  /\ edits < MaxEdits /\ edits' = edits + 1
  /\ \E s \in Specs \ {cr.spec} : cr' = [cr EXCEPT !.spec = s]
  /\ fresh' = FALSE /\ lateFresh' = FALSE /\ queue' = TRUE
  /\ unnoticed' = IF Remembered(cr.spec) THEN unnoticed ELSE unnoticed \cup There
  /\ UNCHANGED <<pc, mem, cluster, threads, faults>>

WebReady ==
  /\ obj["deployment"] # Absent /\ ~ready /\ ready' = TRUE
  /\ queue' = TRUE
  /\ UNCHANGED <<pc, cr, mem, fresh, lateFresh, obj, threads, unnoticed, counts>>

OperatorRestart ==
  /\ Fault
  /\ pc' = "idle" /\ queue' = TRUE
  /\ job' = [r \in Routes |-> "done"] /\ late' = {} /\ fresh' = FALSE
  /\ Untouched /\ UNCHANGED <<cr, mem, lateFresh>>

Init ==
  /\ pc = "idle" /\ queue = TRUE
  /\ \E s \in Installed : cr = [spec |-> s, type |-> NoName, class |-> NoName,
                                cond |-> [c \in Conds |-> "none"]]
  /\ mem = cr /\ fresh = FALSE /\ lateFresh = FALSE
  /\ obj = [o \in Objects |-> Absent] /\ ready = FALSE
  /\ job = [r \in Routes |-> "done"] /\ late = {}
  /\ unnoticed = {} /\ edits = 0 /\ faults = 0

Reconcile ==
  \/ StartReconcile
  \/ FromRoute \/ FromIngress \/ FromWeb \/ FromNowhere \/ StoreStatus
  \/ NoPaths \/ SpawnRoutes \/ RemoveWeb
  \/ Redirect \/ WriteIngress \/ IngressReady
  \/ (\E o \in Web : WriteWeb(o)) \/ WebDone \/ WriteFails
  \/ SwitchClass \/ SameClass \/ setStatusFields \/ setStatusConditions

Goroutine(r) == GetRoute(r) \/ CreateRoute(r) \/ RouteFails(r)

Next ==
  \/ Reconcile
  \/ \E r \in Routes : Goroutine(r)
  \/ EditSpec \/ WebReady \/ OperatorRestart

Spec == Init /\ [][Next]_vars
FairSpec ==
  /\ Spec /\ WF_vars(Reconcile) /\ WF_vars(WebReady)
  /\ \A r \in Routes : WF_vars(Goroutine(r))

-----------------------------------------------------------------------------
(* Properties.                                                              *)

TypeOK ==
  /\ pc \in Steps /\ queue \in BOOLEAN
  /\ cr \in Pulp /\ mem \in Pulp /\ fresh \in BOOLEAN /\ lateFresh \in BOOLEAN
  /\ obj \in [Objects -> Object] /\ ready \in BOOLEAN
  /\ job \in [Routes -> {"done", "get", "create"}] /\ late \subseteq Routes
  /\ unnoticed \subseteq Objects
  /\ edits \in 0..MaxEdits /\ faults \in 0..MaxFaults

AtRest == pc = "idle" /\ ~queue /\ \A r \in Routes : job[r] = "done"

(* When the operator has nothing left to do, exactly the objects of the     *)
(* ingress_type in .spec are there, as they should be, whatever was edited  *)
(* and failed on the way.  The exceptions are objects the operator lost     *)
(* track of; the ConfigMap of pulp-web is kept on purpose.                  *)
OneWayIn ==
  AtRest /\ prechecks(cr.spec) =>
    /\ There \ Wanted(cr.spec) \subseteq unnoticed \cup {"configmap"}
    /\ \A o \in Wanted(cr.spec) \ unnoticed : obj[o] = Expected(o, cr.spec)

(* The type in .status, which is all that the operator knows of the objects *)
(* it has deployed, is given up only when these are gone: a restart or a    *)
(* conflict between the deletions and the update loses nothing.             *)
Of(t) == CASE Kind(t) = "route"   -> Routes
           [] Kind(t) = "ingress" -> {"ingress", "redirect", "deployment", "service"}
           [] OTHER               -> {"deployment", "service"}

RemovedFirst ==
  [][cr.type # NoName /\ cr'.type # cr.type => There \cap Of(cr.type) \subseteq unnoticed]_vars

(* The reconciliations end, and with them the wait for pulp-web, unless the *)
(* switch is one that updateIngressType does not know, or a pulp-web that   *)
(* was lost track of has left its condition at False.                       *)
Unknown ==
  /\ cr.type # NoName /\ cr.type # cr.spec.type
  /\ Kind(cr.type) = Kind(cr.spec.type) \/ Kind(cr.type) = "none"

HeldByWeb ==
  /\ cr.cond["web"] = "False"
  /\ "deployment" \notin Wanted(cr.spec) /\ Web \cap unnoticed # {}

Settles == <>[](AtRest \/ Unknown \/ HeldByWeb)
=============================================================================
