---------------------------- MODULE RepoManager ----------------------------
(***************************************************************************)
(* The reconciliation loop of the Pulp custom resource                     *)
(* (controllers/repo_manager/controller.go, precheck.go, status.go, the    *)
(* controllers of the single components, and UpdateStatus, updateObject    *)
(* and UpdateCRField of controllers/utils.go), together with what it runs  *)
(* against: the API server, the informer cache that r.Get reads from, the  *)
(* deployment controller and a user who edits the custom resource.         *)
(*                                                                         *)
(* The operator keeps ONE copy of the custom resource per reconciliation   *)
(* (`mem').  The API server accepts Status().Update(mem) only when mem     *)
(* still carries the current resourceVersion; since only equality with the *)
(* current one matters, the model keeps that comparison (`fresh') and not  *)
(* the number.  Nearly every caller ignores the error of a refused update. *)
(***************************************************************************)
EXTENDS Naturals, Sequences

CONSTANTS
  Resources,      \* the groups of objects, in the order Reconcile visits them
  CondOf,         \* the condition type each group reports on
  SelfReady,      \* groups whose controller itself sets the condition to True
  Gated,          \* Deployments that setStatusConditions waits for
  SecretsStage,   \* the group before which createSecrets patches the defaults
  MaxVersion,     \* number of versions the user gives .spec
  InvalidSpecs,   \* versions of .spec that the prechecks reject
  UnmanagedSpecs, \* versions of .spec with unmanaged: true
  TypeOf,         \* .spec.ingress_type of every version
  WayIn,          \* the groups that each ingress_type asks for (pulp-web ...)
  SecretsNamed,   \* the user names every secret, so nothing is defaulted
  StaleReads,     \* r.Get may return a copy older than the API server's
  MaxLag,         \* watch events that may be on their way to the cache
  MaxFaults       \* API errors, pod failures and operator restarts

ResourceSet == {Resources[i] : i \in DOMAIN Resources}
Conds       == {CondOf[r] : r \in ResourceSet}
Versions    == 1..MaxVersion
CondStatus  == {"none", "True", "False"}

(* The groups that come and go with .spec, and whether version v has r.     *)
IngressTypes == {TypeOf[v] : v \in Versions}
Ways         == UNION {WayIn[t] : t \in IngressTypes}
AskedFor(r, v) == r \in Ways => r \in WayIn[TypeOf[v]]

ASSUME ResourcesAssumption ==
  /\ Resources \in Seq(STRING) /\ Resources # <<>>
  /\ CondOf \in [ResourceSet -> STRING]
  /\ SecretsStage \in DOMAIN Resources
  /\ SelfReady \subseteq ResourceSet
  /\ Gated \subseteq ResourceSet
  /\ \A c \in Gated : CondOf[c] = c

ASSUME SpecAssumption ==
  /\ MaxVersion \in Nat \ {0}
  /\ InvalidSpecs \subseteq Versions
  /\ UnmanagedSpecs \subseteq Versions
  /\ TypeOf \in [Versions -> STRING \ {"none"}]
  /\ WayIn \in [IngressTypes -> SUBSET ResourceSet]

ASSUME EnvironmentAssumption ==
  /\ SecretsNamed \in BOOLEAN
  /\ StaleReads \in BOOLEAN
  /\ MaxLag \in Nat \ {0}
  /\ MaxFaults \in Nat

VARIABLES
  cr,     \* the custom resource stored by the API server
  cache,  \* the informer's copy of it
  lag,    \* versions of it the informer has not received yet, oldest first
  mem,    \* the copy the running reconciliation works on
  fresh,  \* mem carries the resourceVersion of cr
  dep,    \* the objects of every group: version deployed, rollout, readiness
  pc,     \* where the reconciliation is
  k,      \* the group it is at
  g,      \* progress of the status goroutine of every gated Deployment
  saw,    \* what that goroutine found
  resp,   \* answers to the goroutines' updates, not decoded into mem yet
  queue,  \* the workqueue holds a request for the custom resource
  faults  \* faults used up

crVars  == <<cr, cache, lag>>
opVars  == <<mem, fresh, pc, k, g, saw, resp>>
vars    == <<cr, cache, lag, mem, fresh, dep, pc, k, g, saw, resp, queue, faults>>

(* The fields of the custom resource that the loop reads and writes: the    *)
(* version of .spec, whether the secret names are filled in, the conditions,*)
(* Pulp-Operator-Finished-Execution, the spec fields copied to .status and  *)
(* among them the ingress_type.                                             *)
Pulp == [ver : Versions, def : BOOLEAN, cond : [Conds -> CondStatus],
         fin : CondStatus, fields : 0..MaxVersion, type : IngressTypes \cup {"none"}]

Created == [ver |-> 1, def |-> SecretsNamed, cond |-> [c \in Conds |-> "none"],
            fin |-> "none", fields |-> 0, type |-> "none"]

(* What is known about one group of objects: whether it exists, the version *)
(* of .spec it was built from, or removed for, last (0: none), whether the  *)
(* deployment controller has observed that version, and the readiness last  *)
(* reported in its status.                                                  *)
Objects == [there : BOOLEAN, ver : 0..MaxVersion, rolled : BOOLEAN, ready : BOOLEAN]

Missing(v) == [there |-> FALSE, ver |-> v, rolled |-> FALSE, ready |-> FALSE]

-----------------------------------------------------------------------------
(* The API server.                                                          *)

(* Store o; an update that changes nothing is not a new version and no      *)
(* watch event announces it.                                                *)
Store(o) ==
  \/ o = cr /\ UNCHANGED <<cr, lag>>
  \/ o # cr /\ Len(lag) < MaxLag /\ cr' = o /\ lag' = Append(lag, o)

(* The copy r.Get returns, and whether it is the API server's.              *)
AnyCacheReadable == TRUE    \* mutant: the informer is never waited for
CacheReadable == StaleReads \/ lag = <<>>
CacheFresh    == lag = <<>>

(* Every answer still to be decoded is out of date once o is stored.        *)
Overtaken(o) == IF o = cr THEN resp ELSE {[r EXCEPT !.fresh = FALSE] : r \in resp}

(* A call to the API server fails for a reason other than a conflict.       *)
Fault == faults < MaxFaults /\ faults' = faults + 1

(* r.Status().Update(ctx, m): m is stored, or refused because the copy is   *)
(* out of date or the call failed.                                          *)
Accepted(m) == fresh /\ Store(m) /\ UNCHANGED faults
Refused     == ((~fresh /\ UNCHANGED faults) \/ Fault) /\ UNCHANGED <<cr, lag>>

(* In the sequential part of the loop nobody looks at the outcome, and a    *)
(* refused m stays in the operator's copy.                                  *)
StatusUpdate(m) == mem' = m /\ UNCHANGED fresh /\ (Accepted(m) \/ Refused)

(* UpdateStatus: Finished goes from True to False in the operator's copy in *)
(* any case, but is only written along with a condition that changes.       *)
ClearFinishedForgotten(m) == m    \* mutant: Finished survives a condition
ClearFinished(m)   == IF m.fin = "True" THEN [m EXCEPT !.fin = "False"] ELSE m
WithCond(m, c, s)  == [ClearFinished(m) EXCEPT !.cond[c] = s]
UpdateStatus(c, s) ==
  \/ mem.cond[c] = s /\ mem' = ClearFinished(mem) /\ UNCHANGED <<cr, lag, fresh, faults>>
  \/ mem.cond[c] # s /\ StatusUpdate(WithCond(mem, c, s))

(* The reconciliation ends, and asks to be called again (q) or not: an      *)
(* error, Requeue and RequeueAfter all put the request back.  The           *)
(* operator's copy is dropped.                                              *)
Return(q) ==
  /\ pc' = "idle" /\ k' = 1 /\ mem' = Created /\ fresh' = FALSE
  /\ queue' = (queue \/ q)
  /\ g' = [c \in Gated |-> "done"] /\ saw' = [c \in Gated |-> "none"] /\ resp' = {}

-----------------------------------------------------------------------------
(* Reconcile.                                                               *)

(* r.Get fills the operator's copy from the informer cache.                 *)
Get == CacheReadable /\ mem' = cache /\ fresh' = CacheFresh

(* An unmanaged custom resource is left alone.                              *)
StartReconcile ==
  /\ pc = "idle" /\ queue /\ CacheReadable
  /\ cache.ver \notin UnmanagedSpecs
  /\ Get /\ pc' = "prechecks" /\ queue' = FALSE
  /\ UNCHANGED <<crVars, dep, k, g, saw, resp, faults>>

SkipUnmanaged ==
  /\ pc = "idle" /\ queue /\ CacheReadable
  /\ cache.ver \in UnmanagedSpecs
  /\ queue' = FALSE
  /\ UNCHANGED <<crVars, opVars, dep, faults>>

(* prechecks: the Finished condition is created first; only here is a       *)
(* refused status update an error.  An invalid .spec ends the               *)
(* reconciliation without asking for another one.                           *)
Initialized(m) == IF m.fin = "none" THEN [m EXCEPT !.fin = "False"] ELSE m

InitializeFails ==
  /\ pc = "prechecks" /\ mem.fin = "none"
  /\ Refused /\ Return(TRUE)
  /\ UNCHANGED <<cache, dep>>

PrechecksReject ==
  /\ pc = "prechecks" /\ mem.ver \in InvalidSpecs
  /\ \/ mem.fin = "none" /\ Accepted(Initialized(mem))
     \/ mem.fin # "none" /\ UNCHANGED <<cr, lag, faults>>
  /\ Return(FALSE)
  /\ UNCHANGED <<cache, dep>>

(* Mutant: the outcome of the validations is not looked at.                 *)
PrechecksIgnored ==
  /\ pc = "prechecks"
  /\ \/ mem.fin = "none" /\ Accepted(Initialized(mem))
     \/ mem.fin # "none" /\ UNCHANGED <<cr, lag, faults>>
  /\ mem' = Initialized(mem)
  /\ pc' = "stage"
  /\ UNCHANGED <<cache, fresh, dep, k, g, saw, resp, queue>>

PrechecksPass ==
  /\ pc = "prechecks" /\ mem.ver \notin InvalidSpecs
  /\ \/ mem.fin = "none" /\ Accepted(Initialized(mem))
     \/ mem.fin # "none" /\ UNCHANGED <<cr, lag, faults>>
  /\ mem' = Initialized(mem)
  /\ pc' = "stage"
  /\ UNCHANGED <<cache, fresh, dep, k, g, saw, resp, queue>>

(* createSecrets: UpdateCRField patches the names of the secrets into .spec *)
(* (a merge patch: it is never refused as out of date), and the answer, the *)
(* API server's newest version, replaces the operator's copy.               *)
NeedsDefaults == k = SecretsStage /\ ~mem.def

UpdateCRField ==
  /\ pc = "stage" /\ NeedsDefaults
  /\ LET patched == [cr EXCEPT !.def = TRUE]
     IN  Store(patched) /\ mem' = patched
  /\ fresh' = TRUE
  /\ UNCHANGED <<cache, dep, pc, k, g, saw, resp, queue, faults>>

UpdateCRFieldFails ==
  /\ pc = "stage" /\ NeedsDefaults
  /\ Fault /\ Return(TRUE)
  /\ UNCHANGED <<crVars, dep>>

(* createPulpResource and updateObject: a group that is missing or differs  *)
(* from what .spec asks for has its condition set to False, is written, and *)
(* the loop starts over.                                                    *)
Group    == Resources[k]
Modified == AskedFor(Group, mem.ver) /\ (~dep[Group].there \/ dep[Group].ver # mem.ver)

(* The ingress_type is another one than the one in .status.                 *)
TypeChanged == Group \in Ways /\ mem.type \notin {"none", TypeOf[mem.ver]}

MarkUpdating ==
  /\ pc = "stage" /\ ~NeedsDefaults /\ ~TypeChanged /\ Modified
  /\ UpdateStatus(CondOf[Group], "False")
  /\ pc' = "apply"
  /\ UNCHANGED <<cache, dep, k, g, saw, resp, queue>>

(* The status of a Deployment still shows the readiness of its previous     *)
(* version when it is updated; a new one has no ready pods.                 *)
Deployed(d, v) == [there |-> TRUE, ver |-> v, rolled |-> FALSE, ready |-> d.there /\ d.ready]

Apply ==
  /\ pc = "apply"
  /\ dep' = [dep EXCEPT ![Group] = Deployed(@, mem.ver)]
  /\ Return(TRUE)
  /\ UNCHANGED <<crVars, faults>>

(* Mutant: an object is deleted before its new version is created.          *)
RecreateFails ==
  /\ pc = "apply"
  /\ dep' = [dep EXCEPT ![Group] = [@ EXCEPT !.ver = 0]]
  /\ Fault /\ Return(TRUE)
  /\ UNCHANGED crVars

(* The condition is False already, so the UpdateStatus of the error branch  *)
(* writes nothing.                                                          *)
ApplyFails ==
  /\ pc = "apply"
  /\ Fault /\ Return(TRUE)
  /\ UNCHANGED <<crVars, dep>>

(* updateIngressType: the objects of the type before are deleted, their     *)
(* conditions removed, and the status is sent as it is otherwise: this is   *)
(* not UpdateStatus, and Finished is left alone.                            *)
WithoutWayIn(m) ==
  [m EXCEPT !.cond = [c \in Conds |-> IF \E r \in WayIn[m.type] : CondOf[r] = c
                                      THEN "none" ELSE m.cond[c]],
            !.type = TypeOf[m.ver]]

updateIngressType ==
  /\ pc = "stage" /\ ~NeedsDefaults /\ TypeChanged
  /\ dep' = [r \in ResourceSet |-> IF r \in WayIn[mem.type] THEN Missing(mem.ver) ELSE dep[r]]
  /\ Accepted(WithoutWayIn(mem)) \/ Refused
  /\ Return(TRUE)
  /\ UNCHANGED cache

(* Nothing to do for this group.  The controllers of the worker and of the  *)
(* database set their condition to True here, whatever their pods do.       *)
(* Mutant: one group too many.                                              *)
NextStagePastTheEnd ==
  \/ k <= Len(Resources) /\ k' = k + 1 /\ UNCHANGED pc
  \/ k > Len(Resources) /\ k' = 1 /\ pc' = "fields"

NextStage ==
  \/ k < Len(Resources) /\ k' = k + 1 /\ UNCHANGED pc
  \/ k = Len(Resources) /\ k' = 1 /\ pc' = "fields"

Unmodified ==
  /\ pc = "stage" /\ ~NeedsDefaults /\ ~TypeChanged /\ ~Modified
  /\ \/ /\ Group \in SelfReady /\ mem.cond[CondOf[Group]] = "False"
        /\ UpdateStatus(CondOf[Group], "True")
     \/ /\ ~(Group \in SelfReady /\ mem.cond[CondOf[Group]] = "False")
        /\ UNCHANGED <<cr, lag, mem, fresh, faults>>
  /\ NextStage
  /\ UNCHANGED <<cache, dep, g, saw, resp, queue>>

-----------------------------------------------------------------------------
(* pulpStatus.                                                              *)

(* setStatusFields copies fields of .spec to .status.  At least one of the  *)
(* three object storage secrets is never set, so at least one update of the *)
(* whole status is sent, with the conditions as the operator has them.  The *)
(* ingress_type is only copied as long as there is none.                    *)
Copied(m) == [m EXCEPT !.fields = m.ver, !.type = IF m.type = "none" THEN TypeOf[m.ver] ELSE m.type]

SetStatusFields ==
  /\ pc = "fields"
  /\ StatusUpdate(Copied(mem))
  /\ pc' = "check"
  /\ g' = [c \in Gated |-> IF AskedFor(c, mem.ver) THEN "todo" ELSE "done"]
  /\ UNCHANGED <<cache, dep, k, saw, resp, queue>>

(* setStatusConditions starts one goroutine per Deployment that .spec asks  *)
(* for; all of them share the operator's copy.  Each one first compares the *)
(* replicas of its Deployment and writes the outcome into the copy ...      *)
isDeploymentReady(c) == dep[c].ready

Found(c, what, next) ==
  /\ saw' = [saw EXCEPT ![c] = what]
  /\ g'   = [g   EXCEPT ![c] = next]

CheckUnready(c) ==
  /\ pc = "check" /\ g[c] = "todo" /\ ~isDeploymentReady(c)
  /\ \/ mem.cond[c] # "False" /\ mem' = WithCond(mem, c, "False") /\ Found(c, "unready", "send")
     \/ mem.cond[c] = "False" /\ mem' = ClearFinished(mem)        /\ Found(c, "unready", "done")
  /\ UNCHANGED <<crVars, fresh, dep, pc, k, resp, queue, faults>>

(* Mutant: a condition that is False is left as it is.                      *)
CheckReadyQuiet(c) ==
  /\ pc = "check" /\ g[c] = "todo" /\ isDeploymentReady(c)
  /\ mem' = mem /\ Found(c, "ready", "done")
  /\ UNCHANGED <<crVars, fresh, dep, pc, k, resp, queue, faults>>

CheckReady(c) ==
  /\ pc = "check" /\ g[c] = "todo" /\ isDeploymentReady(c)
  /\ \/ mem.cond[c] = "False" /\ mem' = WithCond(mem, c, "True") /\ Found(c, "ready", "send")
     \/ mem.cond[c] # "False" /\ mem' = mem                      /\ Found(c, "ready", "done")
  /\ UNCHANGED <<crVars, fresh, dep, pc, k, resp, queue, faults>>

(* The Deployment cannot be read: the error is logged.                      *)
CheckFails(c) ==
  /\ pc = "check" /\ g[c] = "todo"
  /\ Fault /\ Found(c, "none", "done")
  /\ UNCHANGED <<crVars, mem, fresh, dep, pc, k, resp, queue>>

(* ... then sends the copy, with what the other goroutines have written     *)
(* into it by then.  A stored update makes the copy out of date until its   *)
(* answer is decoded; a refused one is forgotten.                           *)
SendStatus(c) ==
  /\ pc = "check" /\ g[c] = "send"
  /\ \/ /\ Accepted(mem)
        /\ resp' = Overtaken(mem) \cup {[comp |-> c, obj |-> mem, fresh |-> TRUE]}
        /\ fresh' = (mem = cr)
        /\ g' = [g EXCEPT ![c] = "recv"]
     \/ /\ Refused
        /\ g' = [g EXCEPT ![c] = "done"]
        /\ UNCHANGED <<resp, fresh>>
  /\ UNCHANGED <<cache, mem, dep, pc, k, saw, queue>>

(* The answer replaces the shared copy, and with it whatever another        *)
(* goroutine wrote into it meanwhile.                                       *)
DecodeResponse(c) ==
  /\ pc = "check" /\ g[c] = "recv"
  /\ \E r \in resp :
       /\ r.comp = c
       /\ mem' = r.obj /\ fresh' = r.fresh
       /\ resp' = resp \ {r}
  /\ g' = [g EXCEPT ![c] = "done"]
  /\ UNCHANGED <<crVars, dep, pc, k, saw, queue, faults>>

(* After wg.Wait() the resource is read again: any False condition means    *)
(* another round in ten seconds, and Finished is only written when it is    *)
(* False.                                                                   *)
AnyFalse(o) == \E c \in Gated : o.cond[c] = "False"
AllDone     == pc = "check" /\ \A c \in Gated : g[c] = "done"

GateRetry ==
  /\ AllDone /\ CacheReadable /\ AnyFalse(cache)
  /\ Return(TRUE)
  /\ UNCHANGED <<crVars, dep, faults>>

GateFinished ==
  /\ AllDone /\ CacheReadable /\ ~AnyFalse(cache) /\ cache.fin # "False"
  /\ Return(FALSE)
  /\ UNCHANGED <<crVars, dep, faults>>

(* Mutant: the conditions are not looked at.                                *)
GateOpen ==
  /\ AllDone /\ cache.fin = "False"
  /\ Get /\ pc' = "finish"
  /\ UNCHANGED <<crVars, dep, k, g, saw, resp, queue, faults>>

GatePass ==
  /\ AllDone /\ ~AnyFalse(cache) /\ cache.fin = "False"
  /\ Get /\ pc' = "finish"
  /\ UNCHANGED <<crVars, dep, k, g, saw, resp, queue, faults>>

(* The resource is read once more, and Finished set to True in that copy.   *)
SetFinished ==
  /\ pc = "finish" /\ CacheReadable
  /\ mem' = [cache EXCEPT !.fin = "True"] /\ fresh' = CacheFresh
  /\ pc' = "write"
  /\ UNCHANGED <<crVars, dep, k, g, saw, resp, queue, faults>>

WriteFinished ==
  /\ pc = "write"
  /\ Accepted(mem) /\ Return(FALSE)
  /\ UNCHANGED <<cache, dep>>

(* A conflict is retried, any other error is not.                           *)
WriteFinishedFails ==
  /\ pc = "write"
  /\ \/ ~fresh /\ UNCHANGED faults /\ Return(TRUE)
     \/ Fault /\ Return(FALSE)
  /\ UNCHANGED <<crVars, dep>>

-----------------------------------------------------------------------------
(* The environment.                                                         *)

(* A user changes .spec; the status subresource is not touched.             *)
EditSpec ==
  /\ cr.ver < MaxVersion /\ Len(lag) < MaxLag
  /\ LET edited == [cr EXCEPT !.ver = @ + 1]
     IN  cr' = edited /\ lag' = Append(lag, edited) /\ resp' = Overtaken(edited)
  /\ fresh' = FALSE
  /\ UNCHANGED <<cache, mem, dep, pc, k, g, saw, queue, faults>>

(* The informer receives the next version; GenerationChangedPredicate       *)
(* only lets changes of .spec reach the workqueue.                          *)
GenerationChanged(old, new) == old.ver # new.ver \/ old.def # new.def

Deliver ==
  /\ lag # <<>>
  /\ cache' = Head(lag) /\ lag' = Tail(lag)
  /\ queue' = (queue \/ GenerationChanged(cache, Head(lag)))
  /\ UNCHANGED <<cr, opVars, dep, faults>>

(* The deployment controller observes a new version; a rolling update may   *)
(* or may not leave too few pods ready.  Every change of an owned object    *)
(* reaches the workqueue.                                                   *)
ObserveRollout(c) ==
  /\ dep[c].there /\ ~dep[c].rolled
  /\ \E b \in {FALSE, dep[c].ready} :
       dep' = [dep EXCEPT ![c] = [@ EXCEPT !.rolled = TRUE, !.ready = b]]
  /\ queue' = TRUE
  /\ UNCHANGED <<crVars, opVars, faults>>

PodsReady(c) ==
  /\ dep[c].rolled /\ ~dep[c].ready
  /\ dep' = [dep EXCEPT ![c] = [@ EXCEPT !.ready = TRUE]]
  /\ queue' = TRUE
  /\ UNCHANGED <<crVars, opVars, faults>>

PodsFail(c) ==
  /\ dep[c].ready
  /\ Fault
  /\ dep' = [dep EXCEPT ![c] = [@ EXCEPT !.ready = FALSE]]
  /\ queue' = TRUE
  /\ UNCHANGED <<crVars, opVars>>

(* The periodic resync of the informers delivers every owned object again;  *)
(* for the custom resource itself GenerationChangedPredicate filters it out.*)
Resync ==
  /\ \E r \in ResourceSet : dep[r].there
  /\ ~queue /\ queue' = TRUE
  /\ UNCHANGED <<crVars, opVars, dep, faults>>

(* The operator's pod is replaced: the new one lists the custom resource    *)
(* and reconciles it; whatever was under way is lost.                       *)
OperatorRestart ==
  /\ Fault /\ Return(TRUE)
  /\ cache' = cr /\ lag' = <<>>
  /\ UNCHANGED <<cr, dep>>

-----------------------------------------------------------------------------
Init ==
  /\ cr = Created /\ cache = Created /\ lag = <<>>
  /\ mem = Created /\ fresh = FALSE
  /\ dep = [r \in ResourceSet |-> Missing(0)]
  /\ pc = "idle" /\ k = 1
  /\ g = [c \in Gated |-> "done"] /\ saw = [c \in Gated |-> "none"] /\ resp = {}
  /\ queue = TRUE /\ faults = 0

StatusChecks(c) ==
  CheckUnready(c) \/ CheckReady(c) \/ CheckFails(c) \/ SendStatus(c) \/ DecodeResponse(c)

Reconcile ==
  \/ StartReconcile \/ SkipUnmanaged
  \/ InitializeFails \/ PrechecksReject \/ PrechecksPass
  \/ UpdateCRField \/ UpdateCRFieldFails
  \/ MarkUpdating \/ Apply \/ ApplyFails \/ Unmodified \/ updateIngressType
  \/ SetStatusFields
  \/ \E c \in Gated : StatusChecks(c)
  \/ GateRetry \/ GateFinished \/ GatePass
  \/ SetFinished \/ WriteFinished \/ WriteFinishedFails

Rollout(c) == ObserveRollout(c) \/ PodsReady(c)

Next ==
  \/ Reconcile
  \/ Deliver
  \/ \E c \in Gated : Rollout(c)
  \/ \E c \in Gated : PodsFail(c)
  \/ EditSpec \/ Resync \/ OperatorRestart

Spec == Init /\ [][Next]_vars

(* The workqueue runs what it holds, the watch delivers, Kubernetes         *)
(* finishes its rollouts, and the informers resync.  Nothing is assumed of  *)
(* users and of faults.                                                     *)
FairSpec ==
  /\ Spec
  /\ WF_vars(Reconcile)
  /\ WF_vars(Deliver)
  /\ \A c \in Gated : WF_vars(Rollout(c))
  /\ WF_vars(Resync)

-----------------------------------------------------------------------------
(* Properties.                                                              *)

TypeOK ==
  /\ cr \in Pulp /\ cache \in Pulp /\ mem \in Pulp
  /\ lag \in Seq(Pulp) /\ Len(lag) <= MaxLag
  /\ fresh \in BOOLEAN /\ queue \in BOOLEAN
  /\ dep \in [ResourceSet -> Objects]
  /\ pc \in {"idle", "prechecks", "stage", "apply", "fields", "check", "finish", "write"}
  /\ k \in DOMAIN Resources
  /\ g \in [Gated -> {"todo", "send", "recv", "done"}]
  /\ saw \in [Gated -> {"none", "ready", "unready"}]
  /\ resp \in SUBSET [comp : Gated, obj : Pulp, fresh : BOOLEAN]
  /\ faults \in 0..MaxFaults

(* The custom resource never reports Finished next to a component it        *)
(* reports as not ready (setStatusConditions reads the conditions, reads    *)
(* the resource again and only then writes Finished).                       *)
FinishedHonest == cr.fin = "True" => ~AnyFalse(cr)

(* UpdateStatus "will also set Pulp-Operator-Finished-Execution to false":  *)
(* no stored version gives a condition a new status and still reports       *)
(* Finished, whichever goroutine or late status update stores it.  The      *)
(* removal of a condition with its objects (updateIngressType) is not by    *)
(* UpdateStatus, and leaves Finished as it is.                              *)
Flips == \E c \in Conds : cr'.cond[c] \notin {cr.cond[c], "none"}
FlipClearsFinished == [][Flips => cr'.fin # "True"]_vars

(* No object goes back to an older version of .spec than the one it was     *)
(* built from, or removed for, last, whatever the informer cache returns.   *)
NoRollback == [][\A r \in ResourceSet : dep'[r].ver >= dep[r].ver]_vars

(* No object is ever built from a version of .spec that is unmanaged or     *)
(* that the prechecks reject.                                               *)
OnlyCheckedDeployed ==
  \A r \in ResourceSet : dep[r].ver \notin InvalidSpecs \cup UnmanagedSpecs

(* When Finished becomes True, none of this reconciliation's own checks had *)
(* found a Deployment that was not ready ("if we get into here it means     *)
(* that all components are READY").                                         *)
FinishedMeansReady ==
  [][cr'.fin = "True" /\ cr.fin # "True" => \A c \in Gated : saw[c] # "unready"]_vars

(* Every object that .spec asks for is built from it and ready, and         *)
(* Finished is True.                                                        *)
Converged ==
  /\ cr.fin = "True"
  /\ \A r \in ResourceSet : AskedFor(r, cr.ver) => dep[r].there /\ dep[r].ver = cr.ver
  /\ \A c \in Gated : AskedFor(c, cr.ver) => dep[c].ready
  /\ ~AnyFalse(cr)

(* .spec no longer asks for a group that is there, or reported as not       *)
(* ready, and .status does not tell of a type before: nothing removes it.   *)
Forgotten ==
  cr.type = "none" /\ \E c \in Gated : ~AskedFor(c, cr.ver) /\ (dep[c].there \/ cr.cond[c] = "False")

(* Once .spec stays at a version the operator accepts, the operator gets    *)
(* there and stays, unless the ingress_type was changed before              *)
(* setStatusFields came to record it.                                       *)
Converges ==
  <>[](cr.ver \notin InvalidSpecs \cup UnmanagedSpecs) => <>[]Converged \/ <>Forgotten
=============================================================================
