------------------------- MODULE PulpIngressProofs -------------------------
(***************************************************************************)
(* What the switch between the ways of exposing Pulp guarantees for every  *)
(* set of Routes and classes, every .spec and any number of edits, faults  *)
(* and restarts.                                                           *)
(***************************************************************************)
EXTENDS PulpIngress, TLAPS

-----------------------------------------------------------------------------
(* Types.                                                                   *)
LocalOK  == pc \in Steps /\ queue \in BOOLEAN /\ fresh \in BOOLEAN /\ lateFresh \in BOOLEAN
CopyOK   == cr \in Pulp /\ mem \in Pulp
ObjectOK == obj \in [Objects -> Object] /\ ready \in BOOLEAN /\ unnoticed \subseteq Objects
ThreadOK == job \in [Routes -> {"done", "get", "create"}] /\ late \subseteq Routes
CountOK  == edits \in 0..MaxEdits /\ faults \in 0..MaxFaults

LEMMA TypeParts == TypeOK <=> LocalOK /\ CopyOK /\ ObjectOK /\ ThreadOK /\ CountOK
  BY DEF TypeOK, LocalOK, CopyOK, ObjectOK, ThreadOK, CountOK

LEMMA FaultTypes == ASSUME CountOK, Fault PROVE CountOK'
  BY IngressConstants DEF CountOK, Fault

(* Pulp without the functions in it.                                        *)
Condition == [Conds -> {"none", "False", "True"}]

LEMMA PulpFields ==
  ASSUME NEW p \in Pulp
  PROVE  /\ p.spec \in Fields /\ p.type \in Types /\ p.class \in ClassNames /\ p.cond \in Condition
         /\ p.spec.type \in Types /\ p.spec.class \in ClassNames
  BY DEF Pulp, Condition, Fields

LEMMA CondTypes ==
  ASSUME NEW p \in Pulp, NEW c \in Conds, NEW v \in {"none", "False", "True"}
  PROVE  /\ [p EXCEPT !.cond[c] = v] \in Pulp
         /\ [p EXCEPT !.cond[c] = v].spec = p.spec
         /\ [p EXCEPT !.cond[c] = v].type = p.type
  BY DEF Pulp

LEMMA StoreTypes ==
  ASSUME CopyOK, LocalOK, NEW p \in Pulp, Store(p)
  PROVE  CopyOK' /\ fresh' \in BOOLEAN /\ lateFresh' \in BOOLEAN
  BY DEF CopyOK, LocalOK, Store

LEMMA UpdateStatusTypes ==
  ASSUME CopyOK, LocalOK, NEW c \in Conds, NEW v \in {"none", "False", "True"}, UpdateStatus(c, v)
  PROVE  CopyOK' /\ fresh' \in BOOLEAN /\ lateFresh' \in BOOLEAN
<1>1. CASE NoUpdate
  BY <1>1 DEF NoUpdate, CopyOK, LocalOK
<1>2. CASE Store([mem EXCEPT !.cond[c] = v])
  BY <1>2, CondTypes, StoreTypes DEF CopyOK
<1> QED BY <1>1, <1>2 DEF UpdateStatus

LEMMA NoUpdateTypes ==
  ASSUME CopyOK, LocalOK, NoUpdate
  PROVE  CopyOK' /\ fresh' \in BOOLEAN /\ lateFresh' \in BOOLEAN
  BY DEF NoUpdate, CopyOK, LocalOK

LEMMA ReturnTypes ==
  ASSUME LocalOK, NEW q \in BOOLEAN, Return(q)
  PROVE  pc' \in Steps /\ queue' \in BOOLEAN
  BY DEF LocalOK, Return, Steps

LEMMA GotoTypes ==
  ASSUME LocalOK, NEW s \in Steps, Goto(s)
  PROVE  pc' \in Steps /\ queue' \in BOOLEAN
  BY DEF LocalOK, Goto

LEMMA ExpectedTypes ==
  ASSUME NEW s \in Fields, NEW o \in Objects
  PROVE  Expected(o, s) \in Object
<1>1. serviceForPulpWeb(s) \in Object
  BY DEF serviceForPulpWeb, Object
<1>2. Deploy(s) \in Object
  BY DEF Deploy, Object, Fields, isOCPIngress
<1>3. [is |-> s.class, web |-> FALSE] \in Object /\ Present \in Object
  BY DEF Object, Present, Fields
<1> QED BY <1>1, <1>2, <1>3 DEF Expected

LEMMA WriteTypes ==
  ASSUME ObjectOK, CopyOK, NEW o \in Objects, Write(o)
  PROVE  ObjectOK'
<1>1. Expected(o, mem.spec) \in Object
  BY ExpectedTypes, PulpFields DEF CopyOK
<1> QED BY <1>1 DEF Write, ObjectOK

LEMMA DeleteTypes ==
  ASSUME ObjectOK, CountOK, NEW S \in SUBSET Objects, Delete(S)
  PROVE  ObjectOK' /\ CountOK'
<1>1. PICK kept \in SUBSET (S \cap There) :
        /\ (kept = {} /\ UNCHANGED counts) \/ (kept # {} /\ Fault)
        /\ obj' = [o \in Objects |-> IF o \in S \ kept THEN Absent ELSE obj[o]]
        /\ ready' = (ready /\ obj'["deployment"] # Absent)
        /\ unnoticed' = unnoticed \cup kept
  BY DEF Delete
<1>2. CountOK'
  BY <1>1, FaultTypes DEF counts, CountOK
<1>3. obj' \in [Objects -> Object]
  BY <1>1 DEF ObjectOK, Absent, Object
<1>4. ready' \in BOOLEAN
  BY <1>1 DEF ObjectOK
<1>5. unnoticed' \subseteq Objects
  BY <1>1 DEF ObjectOK
<1> QED BY <1>2, <1>3, <1>4, <1>5 DEF ObjectOK

LEMMA RouteNotReadyTypes ==
  ASSUME CopyOK, LocalOK, NEW r \in Routes, RouteNotReady(r)
  PROVE  CopyOK' /\ fresh' \in BOOLEAN /\ lateFresh' \in BOOLEAN
<1>1. CASE r \notin late
  BY <1>1, UpdateStatusTypes DEF RouteNotReady, Conds
<1>2. CASE r \in late
  BY <1>2, CondTypes DEF RouteNotReady, CopyOK, LocalOK, Conds
<1> QED BY <1>1, <1>2

LEMMA TypeStep ==
  ASSUME TypeOK, [Next]_vars
  PROVE  TypeOK'
<1> SUFFICES LocalOK' /\ CopyOK' /\ ObjectOK' /\ ThreadOK' /\ CountOK'
  BY TypeParts DEF TypeOK, LocalOK, CopyOK, ObjectOK, ThreadOK, CountOK
<1> LocalOK /\ CopyOK /\ ObjectOK /\ ThreadOK /\ CountOK
  BY TypeParts
<1>a. UNCHANGED counts => CountOK'
  BY DEF counts, CountOK
<1>b. UNCHANGED threads => ThreadOK'
  BY DEF threads, ThreadOK
<1>c. Untouched => ObjectOK'
  BY DEF Untouched, ObjectOK
<1>d. cr' = cr /\ mem' \in Pulp => CopyOK'
  BY DEF CopyOK
<1>e. UNCHANGED fresh /\ UNCHANGED lateFresh => fresh' \in BOOLEAN /\ lateFresh' \in BOOLEAN
  BY DEF LocalOK
<1>f. pc' \in Steps /\ queue' \in BOOLEAN /\ fresh' \in BOOLEAN /\ lateFresh' \in BOOLEAN => LocalOK'
  BY DEF LocalOK
<1>g. /\ Web \subseteq Objects /\ Routes \subseteq Objects /\ {"ingress", "redirect"} \subseteq Objects
      /\ {"ingress", "redirect", "deployment", "service"} \subseteq Objects
      /\ {"deployment", "service"} \subseteq Objects
  BY DEF Objects, Web
<1>1. CASE StartReconcile
  BY <1>1, <1>a, <1>b, <1>c, <1>d, <1>e, <1>f, <1>g, PulpFields DEF StartReconcile, cluster, counts, LocalOK, CopyOK, ObjectOK, ThreadOK, CountOK, Steps
<1>2. CASE FromRoute
  BY <1>2, <1>a, <1>b, <1>c, <1>d, <1>e, <1>f, <1>g, DeleteTypes, GotoTypes, PulpFields DEF FromRoute, Steps, CopyOK, Pulp, Conds
<1>3. CASE FromIngress
  BY <1>3, <1>a, <1>b, <1>c, <1>d, <1>e, <1>f, <1>g, DeleteTypes, GotoTypes, PulpFields DEF FromIngress, Steps, CopyOK, Pulp, Conds, ClassNames
<1>4. CASE FromWeb
  BY <1>4, <1>a, <1>b, <1>c, <1>d, <1>e, <1>f, <1>g, DeleteTypes, GotoTypes, PulpFields DEF FromWeb, Steps, CopyOK, Pulp, Conds
<1>5. CASE FromNowhere
  BY <1>5, <1>a, <1>b, <1>c, <1>d, <1>e, <1>f, <1>g, ReturnTypes, NoUpdateTypes DEF FromNowhere
<1>6. CASE StoreStatus
  BY <1>6, <1>a, <1>b, <1>c, <1>d, <1>e, <1>f, <1>g, ReturnTypes, StoreTypes DEF StoreStatus, CopyOK
<1>7. CASE NoPaths
  BY <1>7, <1>a, <1>b, <1>c, <1>d, <1>e, <1>f, <1>g, ReturnTypes, NoUpdateTypes, UpdateStatusTypes, FaultTypes DEF NoPaths, Conds
<1>8. CASE SpawnRoutes
  BY <1>8, <1>a, <1>b, <1>c, <1>d, <1>e, <1>f, <1>g, GotoTypes, NoUpdateTypes DEF SpawnRoutes, Steps, ThreadOK, counts
<1>9. CASE RemoveWeb
  BY <1>9, <1>a, <1>b, <1>c, <1>d, <1>e, <1>f, <1>g, DeleteTypes, StoreTypes, CondTypes DEF RemoveWeb, LocalOK, Steps, CopyOK, Conds
<1>10. CASE Redirect
  BY <1>10, <1>a, <1>b, <1>c, <1>d, <1>e, <1>f, <1>g, WriteTypes, UpdateStatusTypes, NoUpdateTypes DEF Redirect, LocalOK, Steps, Conds
<1>11. CASE WriteIngress
  BY <1>11, <1>a, <1>b, <1>c, <1>d, <1>e, <1>f, <1>g, WriteTypes, UpdateStatusTypes, ReturnTypes DEF WriteIngress, Conds
<1>12. CASE IngressReady
  BY <1>12, <1>a, <1>b, <1>c, <1>d, <1>e, <1>f, <1>g, UpdateStatusTypes, NoUpdateTypes, GotoTypes DEF IngressReady, Conds, Steps
<1>13. CASE \E o \in Web : WriteWeb(o)
  BY <1>13, <1>a, <1>b, <1>c, <1>d, <1>e, <1>f, <1>g, WriteTypes, UpdateStatusTypes, ReturnTypes DEF WriteWeb, Conds
<1>14. CASE WebDone
  BY <1>14, <1>a, <1>b, <1>c, <1>d, <1>e, <1>f, <1>g, NoUpdateTypes, GotoTypes DEF WebDone, Steps
<1>15. CASE WriteFails
  BY <1>15, <1>a, <1>b, <1>c, <1>d, <1>e, <1>f, <1>g, UpdateStatusTypes, ReturnTypes, FaultTypes DEF WriteFails, Conds
<1>16. CASE SwitchClass
  <2>1. \E S \in SUBSET Objects : Delete(S)
    BY <1>16, <1>g DEF SwitchClass
  <2>2. PICK cond : /\ cond \in Condition
                    /\ mem' = [mem EXCEPT !.class = mem.spec.class, !.cond = cond]
    BY <1>16, PulpFields DEF SwitchClass, CopyOK, Condition
  <2>3. mem' \in Pulp
    BY <2>2, PulpFields DEF CopyOK, Pulp, Condition
  <2> QED BY <1>16, <2>1, <2>3, <1>b, <1>d, <1>e, <1>f, DeleteTypes, GotoTypes DEF SwitchClass, Steps
<1>17. CASE SameClass
  BY <1>17, <1>a, <1>b, <1>c, <1>d, <1>e, <1>f, <1>g, NoUpdateTypes, GotoTypes DEF SameClass, Steps
<1>18. CASE setStatusFields
  BY <1>18, <1>a, <1>b, <1>c, <1>d, <1>e, <1>f, <1>g, StoreTypes, GotoTypes, PulpFields DEF setStatusFields, Steps, CopyOK, Pulp
<1>19. CASE setStatusConditions
  BY <1>19, <1>a, <1>b, <1>c, <1>d, <1>e, <1>f, <1>g, UpdateStatusTypes, NoUpdateTypes, ReturnTypes DEF setStatusConditions, Conds
<1>20. ASSUME NEW r \in Routes, GetRoute(r) PROVE LocalOK' /\ CopyOK' /\ ObjectOK' /\ ThreadOK' /\ CountOK'
  BY <1>20, <1>a, <1>b, <1>c, <1>d, <1>e, <1>f, <1>g, RouteNotReadyTypes, NoUpdateTypes DEF GetRoute, cluster, counts, LocalOK, ObjectOK, ThreadOK, CountOK
<1>21. ASSUME NEW r \in Routes, CreateRoute(r) PROVE LocalOK' /\ CopyOK' /\ ObjectOK' /\ ThreadOK' /\ CountOK'
  BY <1>21, <1>a, <1>b, <1>c, <1>d, <1>e, <1>f, <1>g, NoUpdateTypes DEF CreateRoute, counts, LocalOK, ObjectOK, ThreadOK, CountOK, Present, Object
<1>22. ASSUME NEW r \in Routes, RouteFails(r) PROVE LocalOK' /\ CopyOK' /\ ObjectOK' /\ ThreadOK' /\ CountOK'
  BY <1>22, <1>a, <1>b, <1>c, <1>d, <1>e, <1>f, <1>g, RouteNotReadyTypes, NoUpdateTypes, FaultTypes DEF RouteFails, cluster, LocalOK, ObjectOK, ThreadOK
<1>23. CASE EditSpec
  <2>1. PICK s \in Specs : cr' = [cr EXCEPT !.spec = s]
    BY <1>23 DEF EditSpec
  <2>2. CopyOK'
    BY <1>23, <2>1, IngressConstants DEF EditSpec, CopyOK, Pulp
  <2>3. ObjectOK' /\ ThreadOK'
    BY <1>23 DEF EditSpec, cluster, threads, ObjectOK, ThreadOK, There
  <2>4. LocalOK'
    BY <1>23 DEF EditSpec, LocalOK
  <2>5. CountOK'
    BY <1>23, IngressConstants DEF EditSpec, CountOK
  <2> QED BY <2>2, <2>3, <2>4, <2>5
<1>24. CASE WebReady
  BY <1>24, <1>a, <1>b, <1>c, <1>d, <1>e, <1>f, <1>g DEF WebReady, counts, threads, LocalOK, CopyOK, ObjectOK
<1>25. CASE OperatorRestart
  BY <1>25, <1>a, <1>b, <1>c, <1>d, <1>e, <1>f, <1>g, FaultTypes DEF OperatorRestart, LocalOK, CopyOK, ThreadOK, Steps
<1>26. CASE UNCHANGED vars
  BY <1>26, <1>a, <1>b, <1>c, <1>d, <1>e, <1>f, <1>g DEF vars, LocalOK, CopyOK, ObjectOK, ThreadOK, CountOK
<1> QED BY <1>1, <1>2, <1>3, <1>4, <1>5, <1>6, <1>7, <1>8, <1>9, <1>10, <1>11, <1>12, <1>13, <1>14, <1>15, <1>16, <1>17, <1>18, <1>19, <1>20, <1>21, <1>22, <1>23, <1>24, <1>25, <1>26 DEF Next, Reconcile, Goroutine

(* Every reachable state of the exposure of Pulp is well typed: the status  *)
(* fields written by updateIngressType and updateIngressClass stay types    *)
(* and classes, and every object is one that the controllers build.         *)
THEOREM IngressTypeCorrect == Spec => []TypeOK
<1>1. Init => TypeOK
  <2> SUFFICES ASSUME Init PROVE TypeOK
    OBVIOUS
  <2>1. PICK s \in Installed : cr = [spec |-> s, type |-> NoName, class |-> NoName,
                                     cond |-> [c \in Conds |-> "none"]]
    BY DEF Init
  <2>2. CopyOK
    BY <2>1, IngressConstants DEF Init, CopyOK, Pulp, Types, ClassNames
  <2>3. LocalOK /\ ThreadOK
    BY DEF Init, LocalOK, ThreadOK, Steps
  <2>4. ObjectOK
    BY DEF Init, ObjectOK, Absent, Object
  <2>5. CountOK
    BY IngressConstants DEF Init, CountOK
  <2> QED BY <2>2, <2>3, <2>4, <2>5, TypeParts
<1> QED BY <1>1, TypeStep, PTL DEF Spec

-----------------------------------------------------------------------------
(* The type in .status is given up after the objects.  A copy that is still *)
(* current differs from what is stored only between the deletions and the   *)
(* update; a goroutine that creates a Route in between is noticed as late.  *)
Gone(t) == There \cap Of(t) \subseteq unnoticed

Kept ==
  fresh => /\ mem.spec = cr.spec
           /\ \/ mem.type = cr.type
              \/ cr.type = NoName
              \/ pc = "store" /\ Gone(cr.type) /\ (Kind(cr.type) = "route" => ~isRoute(cr.spec))

Given == cr.type # NoName /\ cr'.type # cr.type => Gone(cr.type)

(* An accepted update makes the stored type that of the copy.               *)
LEMMA StoreKeeps ==
  ASSUME CopyOK, Kept, NEW p \in Pulp, p.spec = mem.spec, Store(p),
         p.type = mem.type \/ cr.type = NoName
  PROVE  Kept' /\ Given
  BY DEF CopyOK, Kept, Given, Store

LEMMA UpdateStatusKeeps ==
  ASSUME CopyOK, Kept, NEW c \in Conds, NEW v \in {"none", "False", "True"}, UpdateStatus(c, v),
         pc # "store"
  PROVE  Kept' /\ Given
<1>1. CASE NoUpdate
  BY <1>1 DEF NoUpdate, Kept, Given
<1>2. CASE Store([mem EXCEPT !.cond[c] = v])
  BY <1>2, CondTypes, StoreKeeps DEF CopyOK
<1> QED BY <1>1, <1>2 DEF UpdateStatus

LEMMA NoUpdateKeeps ==
  ASSUME Kept, NoUpdate, pc # "store"
  PROVE  Kept' /\ Given
  BY DEF NoUpdate, Kept, Given

(* What is deleted is gone, or its error was dropped.                       *)
LEMMA DeleteGone ==
  ASSUME NEW S \in SUBSET Objects, Delete(S), NEW t, Of(t) \subseteq S
  PROVE  Gone(t)'
<1>1. PICK kept \in SUBSET (S \cap There) :
        /\ obj' = [o \in Objects |-> IF o \in S \ kept THEN Absent ELSE obj[o]]
        /\ unnoticed' = unnoticed \cup kept
  BY DEF Delete
<1>2. ASSUME NEW o \in Objects, obj'[o] # Absent, o \in S PROVE o \in unnoticed'
  BY <1>1, <1>2
<1> QED BY <1>2 DEF Gone, There

(* The deletions of updateIngressType cover the type that is given up.      *)
LEMMA SwitchKeeps ==
  ASSUME CopyOK, Kept, NEW S \in SUBSET Objects, Delete(S), pc = "switch",
         Of(mem.type) \subseteq S, Kind(mem.type) = "route" => ~isRoute(mem.spec),
         Goto("store"), UNCHANGED <<cr, fresh>>, mem'.spec = mem.spec
  PROVE  Kept' /\ Given
<1>1. PICK t : t = cr.type
  OBVIOUS
<1>2. CASE fresh /\ cr.type # NoName
  <2>1. mem.type = t /\ mem.spec = cr.spec
    BY <1>1, <1>2 DEF Kept
  <2>2. Gone(t)'
    BY <2>1, DeleteGone
  <2>3. Gone(cr.type)'
    BY <1>1, <2>2
  <2> QED BY <1>1, <2>1, <2>3 DEF Kept, Given, Goto, isRoute, Kind
<1>3. CASE ~(fresh /\ cr.type # NoName)
  BY <1>3 DEF Kept, Given
<1> QED BY <1>2, <1>3

(* A goroutine changes nothing of what is kept, at any step.                *)
LEMMA ThreadKeeps ==
  ASSUME CopyOK, Kept, UNCHANGED <<pc, obj>>, unnoticed \subseteq unnoticed',
         NEW r \in Routes, NoUpdate \/ RouteNotReady(r)
  PROVE  Kept' /\ Given
<1>1. CASE NoUpdate
  BY <1>1 DEF NoUpdate, Kept, Given, Gone, There
<1>2. CASE RouteNotReady(r) /\ r \in late
  <2>1. cr'.type = cr.type /\ cr'.spec = cr.spec
    BY <1>2, CondTypes DEF RouteNotReady, CopyOK, Conds
  <2> QED BY <1>2, <2>1 DEF RouteNotReady, Kept, Given, Gone, There
<1>3. CASE RouteNotReady(r) /\ r \notin late /\ ~NoUpdate
  <2>1. PICK p \in Pulp : Store(p) /\ p.spec = mem.spec /\ p.type = mem.type
    BY <1>3, CondTypes DEF RouteNotReady, UpdateStatus, CopyOK, Conds
  <2> QED BY <2>1, StoreKeeps
<1> QED BY <1>1, <1>2, <1>3

LEMMA KeptStep ==
  ASSUME TypeOK, Kept, [Next]_vars
  PROVE  Kept' /\ Given
<1> CopyOK
  BY TypeParts
<1>c. {"web", "ingress", "route"} = Conds
  BY DEF Conds
<1>1. CASE StartReconcile
  BY <1>1 DEF StartReconcile, Kept, Given
<1>2. CASE FromRoute
  <2>1. Of(mem.type) \subseteq Routes /\ Routes \subseteq Objects
    BY <1>2 DEF FromRoute, From, Of, Objects
  <2>2. mem'.spec = mem.spec
    BY <1>2 DEF FromRoute, CopyOK, Pulp
  <2> QED BY <1>2, <2>1, <2>2, SwitchKeeps DEF FromRoute
<1>3. CASE FromIngress
  <2>1. Kind(mem.type) = "ingress" /\ pc = "switch" /\ Goto("store") /\ UNCHANGED <<cr, fresh>>
    BY <1>3 DEF FromIngress, From
  <2>2. Of(mem.type) \subseteq {"ingress", "redirect", "deployment", "service"}
    BY <2>1 DEF Of
  <2>3. mem'.spec = mem.spec
    BY <1>3 DEF FromIngress, CopyOK, Pulp
  <2>4. PICK S \in SUBSET Objects : Delete(S) /\ Of(mem.type) \subseteq S
    BY <1>3, <2>2 DEF FromIngress, Objects, Web
  <2> QED BY <2>1, <2>3, <2>4, SwitchKeeps
<1>4. CASE FromWeb
  <2>1. /\ Kind(mem.type) \in {"nodeport", "loadbalancer"}
        /\ pc = "switch" /\ Goto("store") /\ UNCHANGED <<cr, fresh>>
    BY <1>4 DEF FromWeb, From
  <2>2. Of(mem.type) \subseteq {"deployment", "service"}
    BY <2>1 DEF Of
  <2>3. mem'.spec = mem.spec
    BY <1>4 DEF FromWeb, CopyOK, Pulp
  <2>4. PICK S \in SUBSET Objects : Delete(S) /\ Of(mem.type) \subseteq S
    BY <1>4, <2>2 DEF FromWeb, Objects, Web
  <2> QED BY <2>1, <2>3, <2>4, SwitchKeeps
<1>5. CASE FromNowhere
  BY <1>5, NoUpdateKeeps DEF FromNowhere
<1>6. CASE StoreStatus
  BY <1>6, StoreKeeps DEF StoreStatus, CopyOK
<1>7. CASE NoPaths
  BY <1>7, <1>c, NoUpdateKeeps, UpdateStatusKeeps DEF NoPaths
<1>8. CASE SpawnRoutes
  BY <1>8, NoUpdateKeeps DEF SpawnRoutes
<1>9. CASE RemoveWeb
  <2>1. PICK p \in Pulp : /\ p.spec = mem.spec /\ p.type = mem.type
                          /\ Store(p) \/ (mem' = p /\ UNCHANGED <<cr, fresh, lateFresh>>)
    BY <1>9, <1>c, CondTypes DEF RemoveWeb, CopyOK
  <2>2. CASE Store(p)
    BY <2>1, <2>2, StoreKeeps
  <2>3. CASE mem' = p /\ UNCHANGED <<cr, fresh, lateFresh>>
    BY <1>9, <2>1, <2>3 DEF RemoveWeb, Kept, Given
  <2> QED BY <2>1, <2>2, <2>3
<1>10. CASE Redirect
  BY <1>10, <1>c, NoUpdateKeeps, UpdateStatusKeeps DEF Redirect
<1>11. CASE WriteIngress
  BY <1>11, <1>c, UpdateStatusKeeps DEF WriteIngress
<1>12. CASE IngressReady
  BY <1>12, <1>c, NoUpdateKeeps, UpdateStatusKeeps DEF IngressReady
<1>13. CASE \E o \in Web : WriteWeb(o)
  BY <1>13, <1>c, UpdateStatusKeeps DEF WriteWeb
<1>14. CASE WebDone
  BY <1>14, NoUpdateKeeps DEF WebDone
<1>15. CASE WriteFails
  BY <1>15, <1>c, UpdateStatusKeeps DEF WriteFails
<1>16. CASE SwitchClass
  <2>1. mem'.spec = mem.spec /\ mem'.type = mem.type
    BY <1>16 DEF SwitchClass, CopyOK, Pulp
  <2> QED BY <1>16, <2>1 DEF SwitchClass, Kept, Given
<1>17. CASE SameClass
  BY <1>17, NoUpdateKeeps DEF SameClass
<1>18. CASE setStatusFields
  <2>1. CASE mem.type # NoName
    BY <1>18, <2>1, StoreKeeps DEF setStatusFields, CopyOK
  <2>2. CASE mem.type = NoName
    <3>1. PICK p \in Pulp : Store(p) /\ p.spec = mem.spec
      BY <1>18, <2>2, PulpFields DEF setStatusFields, CopyOK, Pulp
    <3>2. fresh => cr.type = NoName
      BY <1>18, <2>2 DEF setStatusFields, Kept
    <3> QED BY <3>1, <3>2 DEF Store, Kept, Given
  <2> QED BY <2>1, <2>2
<1>19. CASE setStatusConditions
  BY <1>19, <1>c, NoUpdateKeeps, UpdateStatusKeeps DEF setStatusConditions
<1>20. ASSUME NEW r \in Routes, GetRoute(r) PROVE Kept' /\ Given
  BY <1>20, ThreadKeeps DEF GetRoute, cluster
<1>21. ASSUME NEW r \in Routes, CreateRoute(r) PROVE Kept' /\ Given
  <2>1. UNCHANGED <<cr, mem, fresh, pc>>
    BY <1>21 DEF CreateRoute, NoUpdate
  <2>2. CASE fresh /\ pc = "store" /\ Gone(cr.type) /\ (Kind(cr.type) = "route" => ~isRoute(cr.spec))
    <3>1. Gone(cr.type)'
      BY <1>21, <2>1, <2>2, TypeParts, RouteNames DEF CreateRoute, RoutesTold, Gone, There, Of, ObjectOK, Web
    <3> QED BY <2>1, <2>2, <3>1 DEF Kept, Given, isRoute, Kind
  <2>3. CASE ~(fresh /\ pc = "store" /\ Gone(cr.type) /\ (Kind(cr.type) = "route" => ~isRoute(cr.spec)))
    BY <2>1, <2>3 DEF Kept, Given
  <2> QED BY <2>2, <2>3
<1>22. ASSUME NEW r \in Routes, RouteFails(r) PROVE Kept' /\ Given
  BY <1>22, ThreadKeeps DEF RouteFails, cluster
<1>23. CASE EditSpec
  <2>1. PICK s : cr' = [cr EXCEPT !.spec = s]
    BY <1>23 DEF EditSpec
  <2> QED BY <1>23, <2>1 DEF EditSpec, CopyOK, Pulp, Kept, Given
<1>24. CASE WebReady
  BY <1>24 DEF WebReady, Kept, Given, Gone, There
<1>25. CASE OperatorRestart
  BY <1>25 DEF OperatorRestart, Kept, Given
<1>26. CASE UNCHANGED vars
  BY <1>26 DEF vars, Kept, Given, Gone, There
<1> QED BY <1>1, <1>2, <1>3, <1>4, <1>5, <1>6, <1>7, <1>8, <1>9, <1>10, <1>11, <1>12, <1>13, <1>14, <1>15, <1>16, <1>17, <1>18, <1>19, <1>20, <1>21, <1>22, <1>23, <1>24, <1>25, <1>26 DEF Next, Reconcile, Goroutine

(* updateIngressType and setStatusFields never give up the recorded type    *)
(* while an object of it is there that was not lost to a dropped error, for *)
(* any interleaving with edits, faults, restarts and the route goroutines.  *)
THEOREM RemovedBeforeForgotten == Spec => RemovedFirst
<1>1. Init => Kept
  BY DEF Init, Kept
<1>2. TypeOK /\ Kept /\ [Next]_vars => Kept' /\ Given
  BY KeptStep
<1>3. Given => [cr.type # NoName /\ cr'.type # cr.type => There \cap Of(cr.type) \subseteq unnoticed]_vars
  BY DEF Given, Gone
<1> QED BY <1>1, <1>2, <1>3, IngressTypeCorrect, PTL DEF Spec, RemovedFirst

-----------------------------------------------------------------------------
(* One way in.  Live objects are those the operator has not lost track of.  *)
(* What .status tells of them, as an operator on the set L of live objects, *)
(* the Service v, .spec s and the recorded type t and class c: L holds only *)
(* objects of the way that t stands for, or that s asks for while no type   *)
(* is recorded, and pulp-web and the redirection only for a class that      *)
(* needs them, the recorded one or the one s asks for.                      *)
Live      == There \ unnoticed
Pods      == {"deployment", "service"}
Way(s, t) == IF t = NoName THEN Kind(s.type) ELSE Kind(t)

ServiceOf(kind) ==
  [is  |-> CASE kind = "loadbalancer" -> "LoadBalancer"
             [] kind = "nodeport"     -> "NodePort"
             [] OTHER                 -> "ClusterIP",
   web |-> FALSE]

NeedsWeb(c) == \E s \in Specs : s.class = c /\ Deploy(s).web

RouteTold(L, s, t)   == L \cap Routes # {} => Way(s, t) = "route"
IngressTold(L, s, t) == L \cap {"ingress", "redirect"} # {} => Way(s, t) = "ingress"
PodsTold(L, s, t, c) ==
  L \cap Pods # {} =>
    /\ Way(s, t) # "route"
    /\ Way(s, t) = "ingress" => (t # NoName /\ NeedsWeb(c)) \/ (isIngress(s) /\ Deploy(s).web)
RedirectTold(L, s, t, c) ==
  "redirect" \in L => (t # NoName /\ c = OCPDefault) \/ "redirect" \in Wanted(s)
ServiceTold(L, v, s, t) == "service" \in L => v = ServiceOf(Way(s, t))

Told(L, v, s, t, c) ==
  /\ RouteTold(L, s, t) /\ IngressTold(L, s, t) /\ PodsTold(L, s, t, c)
  /\ RedirectTold(L, s, t, c) /\ ServiceTold(L, v, s, t)

(* A copy that may be stored tells as much as the stored resource.          *)
StatusTells ==
  /\ Told(Live, obj["service"], cr.spec, cr.type, cr.class)
  /\ pc = "store" /\ fresh => Told(Live, obj["service"], cr.spec, mem.type, mem.class)

Shapes ==
  /\ cr.spec \in Specs /\ mem.spec \in Specs
  /\ \A r \in Routes : obj[r] \in {Absent, Present}
  /\ "redirect" \in There => Rewrites /\ \E s \in Specs : isOCPIngress(s)

Copied ==
  /\ pc \notin {"idle", "store", "check"} => mem.type = cr.type /\ mem.class = cr.class
  /\ fresh => mem.spec = cr.spec /\ (pc # "store" => mem.type = cr.type /\ mem.class = cr.class)
  /\ pc # "idle" => prechecks(mem.spec) /\ (~queue => mem.spec = cr.spec)

(* The recorded type is about to be replaced.  It is not given up for one   *)
(* of its own kind.                                                         *)
Leaving == cr.type # NoName /\ ~(Kind(cr.type) = "route" /\ isRoute(cr.spec))

Reached ==
  /\ pc \notin {"idle", "switch", "store"} => cr.type \in {NoName, mem.spec.type}
  /\ pc = "switch" => cr.type # NoName
  /\ pc \in {"redirect", "ingress"} => isIngress(mem.spec)
  /\ pc \in {"routes", "spawned"} => isRoute(mem.spec)
  /\ pc = "web" => "deployment" \in Wanted(mem.spec)
  /\ pc = "store" /\ fresh => mem.type = cr.type \/ Leaving

(* What a reconciliation has come past is as it should be, unless another   *)
(* one is queued; so it is in the end.                                      *)
Right(o, s) == o \in Wanted(s) \ unnoticed => obj[o] = Expected(o, s)
WebMade(s)  == \A o \in Web : Right(o, s)
Spawned(s)  == isRoute(s) => \A r \in Routes : job[r] = "done" => Right(r, s)

Past ==
  ~queue =>
    /\ pc \in {"ingress", "web", "class", "fields", "check"} => Right("redirect", mem.spec)
    /\ pc \in {"web", "class", "fields", "check"} => Right("ingress", mem.spec)
    /\ pc \in {"class", "fields", "check"} => WebMade(mem.spec)
    /\ pc \in {"spawned", "class", "fields", "check"} => Spawned(mem.spec)
    /\ pc \in {"fields", "check"} => cr.class = mem.spec.class

AtEnd ==
  pc = "idle" /\ ~queue /\ prechecks(cr.spec) =>
    /\ cr.class = cr.spec.class /\ cr.type \in {NoName, cr.spec.type}
    /\ Right("redirect", cr.spec) /\ Right("ingress", cr.spec)
    /\ WebMade(cr.spec) /\ Spawned(cr.spec)

WayInv == Shapes /\ Copied /\ Reached /\ StatusTells /\ Past /\ AtEnd

-----------------------------------------------------------------------------
(* What .status tells does not depend on the state: facts about Told.       *)
LEMMA ServiceKind == ASSUME NEW s PROVE serviceForPulpWeb(s) = ServiceOf(Kind(s.type))
  BY DEF serviceForPulpWeb, ServiceOf

LEMMA WayHere ==
  ASSUME NEW s, NEW t \in {NoName, s.type}
  PROVE  Way(s, t) = Kind(s.type)
  BY DEF Way

(* Fewer objects need less to be told.                                      *)
LEMMA ToldLess ==
  ASSUME NEW L, NEW M, NEW v, NEW w, NEW s, NEW t, NEW c,
         Told(L, v, s, t, c), M \subseteq L, "service" \in M => w = v
  PROVE  Told(M, w, s, t, c)
  BY DEF Told, RouteTold, IngressTold, PodsTold, RedirectTold, ServiceTold

LEMMA ToldNothing ==
  ASSUME NEW M, NEW w, NEW s, NEW t, NEW c,
         M \cap (Routes \cup Pods \cup {"ingress", "redirect"}) = {}
  PROVE  Told(M, w, s, t, c)
  BY DEF Told, RouteTold, IngressTold, PodsTold, RedirectTold, ServiceTold, Pods

(* An object made for m is told of when m is .spec, or its type and class   *)
(* are recorded.                                                            *)
LEMMA ToldMore ==
  ASSUME NEW L, NEW M, NEW v, NEW w, NEW s, NEW t, NEW c, NEW m \in Specs, NEW o,
         Told(L, v, s, t, c), M \subseteq L \cup {o}, o \in Wanted(m) \ Routes,
         w = IF o = "service" THEN serviceForPulpWeb(m) ELSE v,
         (m = s /\ t \in {NoName, s.type}) \/ (t # NoName /\ t = m.type /\ c = m.class)
  PROVE  Told(M, w, s, t, c)
<1>1. Way(s, t) = Kind(m.type)
  BY DEF Way
<1>2. RouteTold(M, s, t)
  BY DEF Told, RouteTold
<1>3. ~isRoute(m) /\ (o \in {"ingress", "redirect"} => isIngress(m))
  BY DEF Wanted, isRoute, isIngress, Web
<1>4. o \in Pods /\ isIngress(m) => Deploy(m).web
  BY <1>3 DEF Wanted, Pods, Web
<1>5. o = "redirect" => m.class = OCPDefault
  BY <1>3 DEF Wanted, Web, isOCPIngress
<1>6. IngressTold(M, s, t)
  BY <1>1, <1>3 DEF Told, IngressTold, isIngress
<1>7. PodsTold(M, s, t, c)
  BY <1>1, <1>3, <1>4 DEF Told, PodsTold, isIngress, isRoute, NeedsWeb
<1>8. RedirectTold(M, s, t, c)
  BY <1>5 DEF Told, RedirectTold
<1>9. ServiceTold(M, w, s, t)
  BY <1>1, ServiceKind DEF Told, ServiceTold
<1> QED BY <1>2, <1>6, <1>7, <1>8, <1>9 DEF Told

(* .spec may change once type and class are recorded.                       *)
LEMMA ToldEdit ==
  ASSUME NEW L, NEW v, NEW s \in Specs, NEW t, NEW z,
         Told(L, v, s, t, s.class), t # NoName
  PROVE  Told(L, v, z, t, s.class)
<1>1. Way(z, t) = Way(s, t)
  BY DEF Way
<1>2. "redirect" \in Wanted(s) => s.class = OCPDefault \/ "redirect" \in Routes
  BY DEF Wanted, isOCPIngress, Web
<1> QED BY <1>1, <1>2, RouteNames DEF Told, RouteTold, IngressTold, PodsTold, RedirectTold, ServiceTold, NeedsWeb

(* The type is recorded.                                                    *)
LEMMA ToldType ==
  ASSUME NEW L, NEW v, NEW s, NEW c, Told(L, v, s, NoName, c)
  PROVE  Told(L, v, s, s.type, c)
<1>1. Way(s, s.type) = Way(s, NoName)
  BY DEF Way
<1> QED BY <1>1 DEF Told, RouteTold, IngressTold, PodsTold, RedirectTold, ServiceTold

(* The class is recorded, after updateIngressClass has deleted what the new *)
(* one does not need.                                                       *)
LEMMA ToldClass ==
  ASSUME NEW L, NEW M, NEW v, NEW w, NEW s, NEW t \in {NoName, s.type}, NEW c,
         Told(L, v, s, t, c), M \subseteq L, "service" \in M => w = v,
         isNginxIngress(s) \/ s.class = OCPDefault => M \cap Pods = {},
         c = OCPDefault => "redirect" \notin M
  PROVE  Told(M, w, s, t, s.class)
<1>1. Told(M, w, s, t, c)
  BY ToldLess
<1>2. PodsTold(M, s, t, s.class)
  <2>1. CASE M \cap Pods # {} /\ Way(s, t) = "ingress"
    <3>1. isIngress(s)
      BY <2>1, WayHere DEF isIngress
    <3>2. Deploy(s).web
      BY <2>1, <3>1 DEF Deploy, isOCPIngress, isNginxIngress
    <3> QED BY <2>1, <3>1, <3>2 DEF PodsTold
  <2> QED BY <1>1, <2>1 DEF Told, PodsTold
<1>3. RedirectTold(M, s, t, s.class)
  BY <1>1 DEF Told, RedirectTold
<1> QED BY <1>1, <1>2, <1>3 DEF Told

(* When type and class are those of .spec, the live objects are its objects. *)
LEMMA ToldEnd ==
  ASSUME NEW L \in SUBSET Objects, NEW v, NEW s \in Specs, NEW t \in {NoName, s.type},
         Told(L, v, s, t, s.class),
         "redirect" \in L => Rewrites /\ \E z \in Specs : isOCPIngress(z)
  PROVE  /\ L \subseteq Wanted(s) \cup {"configmap"}
         /\ "service" \in L => v = Expected("service", s)
<1>0. Way(s, t) = Kind(s.type)
  BY WayHere
<1>1. L \cap Routes # {} => isRoute(s)
  BY <1>0 DEF Told, RouteTold, isRoute
<1>2. L \cap {"ingress", "redirect"} # {} => isIngress(s)
  BY <1>0 DEF Told, IngressTold, isIngress
<1>3. L \cap Pods # {} => ~isRoute(s) /\ (isIngress(s) => NeedsWeb(s.class) \/ Deploy(s).web)
  BY <1>0 DEF Told, PodsTold, isRoute, isIngress
<1>4. NeedsWeb(s.class) => Deploy(s).web
  <2> SUFFICES ASSUME NEW z \in Specs, z.class = s.class, Deploy(z).web PROVE Deploy(s).web
    BY DEF NeedsWeb
  <2>1. z.nginx = s.nginx
    BY NginxOfClass
  <2> QED BY <2>1 DEF Deploy, isOCPIngress
<1>5. "redirect" \in L => "redirect" \in Wanted(s)
  <2> SUFFICES ASSUME "redirect" \in L, t # NoName, s.class = OCPDefault
               PROVE  "redirect" \in Wanted(s)
    BY DEF Told, RedirectTold
  <2>1. PICK z \in Specs : isOCPIngress(z)
    OBVIOUS
  <2>2. z.class = s.class /\ ~z.nginx /\ OpenShift
    BY <2>1 DEF isOCPIngress
  <2>3. isOCPIngress(s)
    BY <2>2, NginxOfClass DEF isOCPIngress
  <2>4. isIngress(s) /\ ~isRoute(s)
    BY <1>2 DEF isIngress, isRoute
  <2> QED BY <2>3, <2>4 DEF Wanted
<1>6. "ingress" \in L => "ingress" \in Wanted(s)
  BY <1>2 DEF Wanted, isRoute, isIngress
<1>7. L \cap Pods # {} => Pods \subseteq Wanted(s)
  BY <1>3, <1>4 DEF Wanted, Pods, Web
<1>8. L \cap Routes # {} => Routes \subseteq Wanted(s)
  BY <1>1 DEF Wanted
<1>9. "service" \in L => v = Expected("service", s)
  BY <1>0, ServiceKind DEF Told, ServiceTold, Expected
<1> QED BY <1>5, <1>6, <1>7, <1>8, <1>9 DEF Objects, Web, Pods

-----------------------------------------------------------------------------
(* What a step does to the copies.  Conditions apart, most steps leave the  *)
(* stored resource and the reconciliation's copy as they are.               *)
Alike(p, q) == p.spec = q.spec /\ p.type = q.type /\ p.class = q.class
Same == Alike(cr', cr) /\ Alike(mem', mem) /\ (fresh' => fresh)

LEMMA CondAlike ==
  ASSUME NEW p \in Pulp, NEW c, NEW v
  PROVE  Alike([p EXCEPT !.cond[c] = v], p)
  BY DEF Pulp, Alike

LEMMA NoUpdateSame == NoUpdate => Same
  BY DEF NoUpdate, Same, Alike

LEMMA StoreSame ==
  ASSUME Copied, pc # "store", NEW p, Alike(p, mem), Store(p)
  PROVE  Same
  BY DEF Copied, Store, Same, Alike

LEMMA UpdateStatusSame ==
  ASSUME CopyOK, Copied, pc # "store", NEW c, NEW v, UpdateStatus(c, v)
  PROVE  Same
<1>1. CASE NoUpdate
  BY <1>1, NoUpdateSame
<1>2. CASE Store([mem EXCEPT !.cond[c] = v])
  BY <1>2, CondAlike, StoreSame DEF CopyOK
<1> QED BY <1>1, <1>2 DEF UpdateStatus

(* The update of a goroutine may overtake that of its reconciliation.       *)
Overtaken == pc = "store" /\ fresh /\ Alike(cr', mem) /\ Alike(mem', mem) /\ fresh'

LEMMA ThreadSame ==
  ASSUME CopyOK, Copied, NEW r \in Routes, NoUpdate \/ RouteNotReady(r)
  PROVE  Same \/ Overtaken
<1>1. CASE NoUpdate
  BY <1>1, NoUpdateSame
<1>2. CASE RouteNotReady(r) /\ r \in late
  <2>1. Alike([cr EXCEPT !.cond["route"] = "False"], cr)
    BY CondAlike DEF CopyOK
  <2> QED BY <1>2, <2>1 DEF RouteNotReady, Same, Alike
<1>3. CASE RouteNotReady(r) /\ r \notin late
  <2>0. UpdateStatus("route", "False")
    BY <1>3 DEF RouteNotReady
  <2>1. CASE pc # "store"
    BY <2>0, <2>1, UpdateStatusSame
  <2>2. CASE pc = "store" /\ ~NoUpdate
    <3>1. PICK p : Alike(p, mem) /\ Store(p)
      BY <2>0, <2>2, CondAlike DEF UpdateStatus, CopyOK
    <3> QED BY <2>2, <3>1 DEF Store, Same, Overtaken, Alike
  <2> QED BY <1>1, <2>1, <2>2
<1> QED BY <1>1, <1>2, <1>3

(* What a step does to the objects.                                         *)
Less ==
  /\ There' \subseteq There /\ Live' \subseteq Live
  /\ "service" \in Live' => obj'["service"] = obj["service"]
  /\ \A r \in Routes : obj'[r] \in {obj[r], Absent}

LEMMA StillLess ==
  ASSUME obj' = obj, unnoticed \subseteq unnoticed'
  PROVE  Less
  BY DEF Less, There, Live

LEMMA DeleteLess ==
  ASSUME NEW S \in SUBSET Objects, Delete(S)
  PROVE  Less /\ Live' \cap S = {} /\ unnoticed \subseteq unnoticed'
<1>1. PICK kept \in SUBSET (S \cap There) :
        /\ obj' = [o \in Objects |-> IF o \in S \ kept THEN Absent ELSE obj[o]]
        /\ unnoticed' = unnoticed \cup kept
  BY DEF Delete
<1>2. ASSUME NEW o \in Objects
      PROVE  obj'[o] \in {obj[o], Absent} /\ (o \in There' => o \in There) /\ (o \in Live' => o \in Live)
  BY <1>1 DEF There, Live
<1>3. ASSUME NEW o \in S PROVE o \notin Live'
  BY <1>1 DEF There, Live
<1>4. \A o \in Live' : obj'[o] = obj[o]
  BY <1>1 DEF There, Live
<1>5. Routes \subseteq Objects /\ There' \subseteq Objects /\ Live' \subseteq Objects
  BY DEF Objects, There, Live
<1>6. There' \subseteq There /\ Live' \subseteq Live
  BY <1>2, <1>5
<1>7. \A r \in Routes : obj'[r] \in {obj[r], Absent}
  BY <1>2, <1>5
<1> QED BY <1>1, <1>3, <1>4, <1>6, <1>7 DEF Less

LEMMA WriteFacts ==
  ASSUME ObjectOK, NEW o \in Objects \ Routes, Write(o)
  PROVE  /\ There' \subseteq There \cup {o}
         /\ Live' \subseteq Live \cup {o}
         /\ \A p \in Objects : p # o => obj'[p] = obj[p]
         /\ obj'[o] = Expected(o, mem.spec)
         /\ o \in Live' => mem.spec = cr.spec \/ Remembered(mem.spec)
<1>1. /\ obj' = [obj EXCEPT ![o] = Expected(o, mem.spec)]
      /\ unnoticed \subseteq unnoticed'
      /\ o \notin unnoticed' => mem.spec = cr.spec \/ Remembered(mem.spec)
  BY DEF Write
<1>2. (\A p \in Objects : p # o => obj'[p] = obj[p]) /\ obj'[o] = Expected(o, mem.spec)
  BY <1>1 DEF ObjectOK
<1> QED BY <1>1, <1>2 DEF There, Live

-----------------------------------------------------------------------------
(* Steps that change neither copy and create nothing.                       *)
LEMMA QuietStep ==
  ASSUME Shapes, Copied, StatusTells, Same, Less, queue => queue',
         fresh' /\ pc = "store" => pc' = "store",
         pc' = pc \/ pc' = "idle" \/ (pc \notin {"idle", "store", "check"} /\ pc' # "store")
  PROVE  Shapes' /\ Copied' /\ StatusTells'
<1>1. Shapes'
  <2>1. \A r \in Routes : obj'[r] \in {Absent, Present}
    BY DEF Shapes, Less
  <2>2. cr'.spec \in Specs /\ mem'.spec \in Specs
    BY DEF Shapes, Same, Alike
  <2>3. "redirect" \in There' => Rewrites /\ \E s \in Specs : isOCPIngress(s)
    BY DEF Shapes, Less
  <2> QED BY <2>1, <2>2, <2>3 DEF Shapes
<1>2. Copied'
  <2>1. prechecks(mem.spec) /\ mem'.spec = mem.spec => prechecks(mem'.spec)
    OBVIOUS
  <2> QED BY <2>1 DEF Copied, Same, Alike
<1>3. StatusTells'
  <2>1. Told(Live', obj'["service"], cr.spec, cr.type, cr.class)
    BY ToldLess DEF StatusTells, Less
  <2>2. pc' = "store" /\ fresh' => pc = "store" /\ fresh
    BY DEF Same
  <2>3. pc' = "store" /\ fresh' => Told(Live', obj'["service"], cr.spec, mem.type, mem.class)
    BY <2>2, ToldLess DEF StatusTells, Less
  <2> QED BY <2>1, <2>3 DEF StatusTells, Same, Alike
<1> QED BY <1>1, <1>2, <1>3

(* Another reconciliation is queued.                                        *)
LEMMA QueuedStep == queue' => Past' /\ AtEnd'
  BY DEF Past, AtEnd

(* An object is written for the copy, in one of the steps that follow       *)
(* pulpCoreTasks' choice.                                                   *)
LEMMA WriteStep ==
  ASSUME ObjectOK, WayInv, NEW o \in Objects \ Routes, Write(o), o \in Wanted(mem.spec),
         pc \in {"redirect", "ingress", "web"}, pc' \in {"idle", "ingress"}, Same, queue'
  PROVE  Shapes' /\ Copied' /\ StatusTells'
<1>0. mem.spec \in Specs /\ mem.type = cr.type /\ cr.type \in {NoName, mem.spec.type}
  BY DEF WayInv, Shapes, Copied, Reached
<1>1. Shapes'
  <2>1. \A r \in Routes : obj'[r] \in {Absent, Present}
    BY WriteFacts DEF WayInv, Shapes, Objects
  <2>2. cr'.spec \in Specs /\ mem'.spec \in Specs
    BY DEF WayInv, Shapes, Same, Alike
  <2>3. "redirect" \in There' => "redirect" \in There \/ o = "redirect"
    BY WriteFacts
  <2>4. o = "redirect" => Rewrites /\ isOCPIngress(mem.spec)
    BY DEF Wanted, Web
  <2>5. "redirect" \in There' => Rewrites /\ \E s \in Specs : isOCPIngress(s)
    BY <1>0, <2>3, <2>4 DEF WayInv, Shapes
  <2> QED BY <2>1, <2>2, <2>5 DEF Shapes
<1>2. Copied'
  <2>1. prechecks(mem.spec) /\ mem'.spec = mem.spec => prechecks(mem'.spec)
    OBVIOUS
  <2> QED BY <2>1 DEF WayInv, Copied, Same, Alike
<1>3. Told(Live', obj'["service"], cr.spec, cr.type, cr.class)
  <2>0. Told(Live, obj["service"], cr.spec, cr.type, cr.class)
    BY DEF WayInv, StatusTells
  <2>1. obj'["service"] = IF o = "service" THEN serviceForPulpWeb(mem.spec) ELSE obj["service"]
    BY WriteFacts DEF Objects, Web, Expected
  <2>2. CASE o \in Live'
    <3>1. mem.spec = cr.spec \/ (cr.type # NoName /\ cr.class = mem.spec.class)
      BY <2>2, WriteFacts DEF Remembered
    <3> QED BY <1>0, <2>0, <2>1, <3>1, WriteFacts, ToldMore
  <2>3. CASE o \notin Live'
    <3>1. Live' \subseteq Live /\ ("service" \in Live' => obj'["service"] = obj["service"])
      BY <2>1, <2>3, WriteFacts
    <3> QED BY <2>0, <3>1, ToldLess
  <2> QED BY <2>2, <2>3
<1>4. StatusTells'
  BY <1>3 DEF StatusTells, Same, Alike
<1> QED BY <1>1, <1>2, <1>4

-----------------------------------------------------------------------------
(* The steps that record or forget something.                               *)

(* updateIngressType: all that .status tells of is deleted.                 *)
LEMMA SwitchStep ==
  ASSUME WayInv, NEW S \in SUBSET Objects, Delete(S), pc = "switch", Goto("store"),
         Live \cap (Routes \cup Pods \cup {"ingress", "redirect"}) \subseteq S,
         Kind(mem.type) = "route" => ~isRoute(mem.spec),
         UNCHANGED <<cr, fresh>>, mem'.spec = mem.spec
  PROVE  WayInv'
<1>0. pc' = "store" /\ queue' = queue
  BY DEF Goto
<1>1. Less /\ Live' \cap S = {}
  BY DeleteLess
<1>2. Live' \cap (Routes \cup Pods \cup {"ingress", "redirect"}) = {}
  BY <1>1 DEF Less
<1>3. StatusTells'
  BY <1>2, ToldNothing DEF StatusTells
<1>4. Shapes'
  BY <1>1 DEF WayInv, Shapes, Less
<1>5. Copied'
  <2>1. prechecks(mem.spec) /\ mem'.spec = mem.spec => prechecks(mem'.spec)
    OBVIOUS
  <2> QED BY <1>0, <2>1 DEF WayInv, Copied
<1>6. fresh => Leaving'
  <2>1. fresh => mem.spec = cr.spec /\ mem.type = cr.type /\ cr.type # NoName
    BY DEF WayInv, Copied, Reached
  <2>2. fresh => Leaving
    BY <2>1 DEF Leaving
  <2> QED BY <2>2 DEF Leaving
<1>7. Reached' /\ Past' /\ AtEnd'
  BY <1>0, <1>6 DEF Reached, Past, AtEnd
<1> QED BY <1>7, <1>3, <1>4, <1>5, <1>6 DEF WayInv

(* The copy is stored, by the reconciliation or by one of its goroutines.   *)
LEMMA StoredStep ==
  ASSUME Shapes, Copied, StatusTells, Overtaken, Less, queue => queue', pc' \in {"store", "idle"}
  PROVE  Shapes' /\ Copied' /\ StatusTells'
<1>0. cr'.spec = cr.spec /\ cr'.type = mem.type /\ cr'.class = mem.class /\ fresh /\ pc = "store"
  BY DEF Overtaken, Alike, Copied
<1>1. Shapes'
  <2>1. \A r \in Routes : obj'[r] \in {Absent, Present}
    BY DEF Shapes, Less
  <2>2. cr'.spec \in Specs /\ mem'.spec \in Specs
    BY <1>0 DEF Shapes, Overtaken, Alike
  <2>3. "redirect" \in There' => Rewrites /\ \E s \in Specs : isOCPIngress(s)
    BY DEF Shapes, Less
  <2> QED BY <2>1, <2>2, <2>3 DEF Shapes
<1>2. Copied'
  <2>1. prechecks(mem.spec) /\ mem'.spec = mem.spec => prechecks(mem'.spec)
    OBVIOUS
  <2> QED BY <1>0, <2>1 DEF Copied, Overtaken, Alike
<1>3. Told(Live', obj'["service"], cr.spec, mem.type, mem.class)
  BY <1>0, ToldLess DEF StatusTells, Less
<1>4. StatusTells'
  BY <1>0, <1>3 DEF StatusTells, Overtaken, Alike
<1> QED BY <1>1, <1>2, <1>4

LEMMA ClassStep ==
  ASSUME TypeOK, WayInv, SwitchClass
  PROVE  WayInv'
<1> DEFINE S == (IF isNginxIngress(mem.spec) \/ mem.spec.class = OCPDefault THEN Pods ELSE {})
                \cup (IF isNginxIngress(mem.spec) THEN {} ELSE {"ingress"})
                \cup (IF mem.class = OCPDefault THEN {"redirect"} ELSE {})
<1>0. pc = "class" /\ pc' = "store" /\ UNCHANGED <<queue, cr, fresh>>
  BY DEF SwitchClass, Goto
<1>1. S \in SUBSET Objects
  BY DEF Objects, Web, Pods
<1>2. Delete(S)
  BY DEF SwitchClass, Pods
<1>3. PICK cond : mem' = [mem EXCEPT !.class = mem.spec.class, !.cond = cond]
  BY DEF SwitchClass
<1>4. mem'.spec = mem.spec /\ mem'.type = mem.type /\ mem'.class = mem.spec.class
  BY <1>3, TypeParts DEF CopyOK, Pulp
<1>5. Less /\ Live' \cap S = {}
  BY <1>1, <1>2, DeleteLess
<1>6. isNginxIngress(mem.spec) \/ mem.spec.class = OCPDefault => Live' \cap Pods = {}
  BY <1>5
<1>7. mem.class = OCPDefault => "redirect" \notin Live'
  BY <1>5
<1>8. Told(Live', obj'["service"], cr.spec, cr.type, cr.class)
  BY <1>5, ToldLess DEF WayInv, StatusTells, Less
<1>9. fresh => Told(Live', obj'["service"], cr.spec, mem.type, mem.spec.class)
  <2>1. fresh => mem.spec = cr.spec /\ mem.type = cr.type /\ mem.class = cr.class
                 /\ cr.type \in {NoName, mem.spec.type}
    BY <1>0 DEF WayInv, Copied, Reached
  <2>2. Told(Live, obj["service"], cr.spec, cr.type, cr.class)
    BY DEF WayInv, StatusTells
  <2>3. Live' \subseteq Live /\ ("service" \in Live' => obj'["service"] = obj["service"])
    BY <1>5 DEF Less
  <2> HIDE DEF S
  <2> QED BY <1>6, <1>7, <2>1, <2>2, <2>3, ToldClass
<1> HIDE DEF S
<1>10. StatusTells'
  BY <1>0, <1>4, <1>8, <1>9 DEF StatusTells
<1>11. Shapes'
  BY <1>0, <1>4, <1>5 DEF WayInv, Shapes, Less
<1>12. Copied'
  <2>1. prechecks(mem.spec) /\ mem'.spec = mem.spec => prechecks(mem'.spec)
    OBVIOUS
  <2> QED BY <1>0, <1>4, <2>1 DEF WayInv, Copied
<1>13. Reached' /\ Past' /\ AtEnd'
  BY <1>0, <1>4 DEF WayInv, Copied, Reached, Past, AtEnd
<1> QED BY <1>10, <1>11, <1>12, <1>13 DEF WayInv

(* What stays right while the objects are left alone.                       *)
LEMMA StaysRight ==
  ASSUME obj' = obj, unnoticed \subseteq unnoticed', mem'.spec = mem.spec
  PROVE  /\ Right("redirect", mem.spec) => Right("redirect", mem.spec)'
         /\ Right("ingress", mem.spec) => Right("ingress", mem.spec)'
         /\ WebMade(mem.spec) => WebMade(mem.spec)'
         /\ Spawned(mem.spec) /\ job' = job => Spawned(mem.spec)'
<1>1. isRoute(mem.spec) = isRoute(mem'.spec)
  OBVIOUS
<1> QED BY <1>1 DEF Right, WebMade, Spawned

LEMMA FieldsStep ==
  ASSUME TypeOK, WayInv, setStatusFields
  PROVE  WayInv'
<1>0. /\ pc = "fields" /\ pc' = "check" /\ UNCHANGED <<queue, obj, unnoticed, job>>
      /\ mem.type = cr.type /\ mem.class = cr.class
      /\ cr.type \in {NoName, mem.spec.type}
  BY DEF setStatusFields, Goto, Untouched, threads, WayInv, Copied, Reached
<1>1. PICK p : /\ Store(p) /\ p.spec = mem.spec /\ p.class = mem.class
               /\ p.type = IF mem.type = NoName THEN mem.spec.type ELSE mem.type
  BY TypeParts DEF setStatusFields, CopyOK, Pulp
<1>2. mem' = p /\ cr' = (IF fresh THEN p ELSE cr) /\ fresh' = fresh
  BY <1>1 DEF Store
<1>3. fresh => mem.spec = cr.spec
  BY DEF WayInv, Copied
<1>4. cr'.spec = cr.spec /\ cr'.class = cr.class /\ cr'.type \in {cr.type, mem.spec.type}
  BY <1>0, <1>1, <1>2, <1>3
<1>5. Shapes'
  BY <1>0, <1>1, <1>2, <1>4 DEF WayInv, Shapes, There
<1>6. Copied'
  <2>1. prechecks(mem.spec) /\ mem'.spec = mem.spec => prechecks(mem'.spec)
    OBVIOUS
  <2> QED BY <1>0, <1>1, <1>2, <1>4, <2>1 DEF WayInv, Copied
<1>7. Reached'
  BY <1>0, <1>1, <1>2, <1>4 DEF Reached
<1>8. StatusTells'
  <2>1. Live' = Live
    BY <1>0 DEF Live, There
  <2>2. Told(Live, obj["service"], cr.spec, cr.type, cr.class)
    BY DEF WayInv, StatusTells
  <2>3. cr'.type = cr.type \/ (cr.type = NoName /\ cr'.type = cr.spec.type)
    BY <1>0, <1>1, <1>2, <1>3
  <2>4. Told(Live, obj["service"], cr.spec, cr'.type, cr.class)
    BY <2>2, <2>3, ToldType
  <2> QED BY <1>0, <1>4, <2>1, <2>4 DEF StatusTells
<1>9. Past'
  <2>1. mem'.spec = mem.spec
    BY <1>1, <1>2
  <2> QED BY <1>0, <1>4, <2>1, StaysRight DEF WayInv, Past
<1>10. AtEnd'
  BY <1>0 DEF AtEnd
<1> QED BY <1>5, <1>6, <1>7, <1>8, <1>9, <1>10 DEF WayInv

LEMMA EditStep ==
  ASSUME TypeOK, WayInv, EditSpec
  PROVE  WayInv'
<1>1. PICK z \in Specs : cr' = [cr EXCEPT !.spec = z]
  BY DEF EditSpec
<1>2. cr'.spec = z /\ cr'.type = cr.type /\ cr'.class = cr.class
  BY <1>1, TypeParts DEF CopyOK, Pulp
<1>3. fresh' = FALSE /\ queue' = TRUE /\ UNCHANGED <<pc, mem, obj>>
  BY DEF EditSpec, cluster
<1>4. Shapes' /\ Copied' /\ Reached'
  BY <1>2, <1>3 DEF WayInv, Shapes, Copied, Reached, There
<1>5. StatusTells'
  <2>0. Told(Live, obj["service"], cr.spec, cr.type, cr.class)
    BY DEF WayInv, StatusTells
  <2>1. CASE Remembered(cr.spec)
    <3>1. Live' = Live
      BY <1>3, <2>1 DEF EditSpec, Live, There
    <3>2. Told(Live, obj["service"], z, cr.type, cr.class)
      BY <2>0, <2>1, ToldEdit DEF Remembered, WayInv, Shapes
    <3> QED BY <1>2, <1>3, <3>1, <3>2 DEF StatusTells
  <2>2. CASE ~Remembered(cr.spec)
    <3>1. Live' = {}
      BY <1>3, <2>2 DEF EditSpec, Live, There
    <3>2. Told({}, obj["service"], z, cr.type, cr.class)
      BY ToldNothing
    <3> QED BY <1>2, <1>3, <3>1, <3>2 DEF StatusTells
  <2> QED BY <2>1, <2>2
<1> QED BY <1>3, <1>4, <1>5, QueuedStep DEF WayInv

LEMMA StartStep ==
  ASSUME WayInv, StartReconcile
  PROVE  WayInv'
<1>0. mem' = cr /\ cr' = cr /\ fresh' = TRUE /\ queue' = FALSE /\ UNCHANGED <<obj, unnoticed, job>>
  BY DEF StartReconcile, cluster
<1>1. pc' = IF ~prechecks(cr.spec)   THEN "idle"
            ELSE IF ~Known           THEN "switch"
            ELSE IF isRoute(cr.spec) THEN "routes"
            ELSE IF isIngress(cr.spec) THEN "redirect"
            ELSE "web"
  BY DEF StartReconcile
<1>2. Shapes' /\ Copied'
  BY <1>0, <1>1 DEF WayInv, Shapes, Copied, There
<1>3. Reached'
  <2>1. Web \subseteq Wanted(cr.spec) \/ isRoute(cr.spec) \/ isIngress(cr.spec)
    BY DEF Wanted
  <2> QED BY <1>0, <1>1, <2>1 DEF Reached, Known, Web
<1>4. StatusTells'
  BY <1>0, <1>1 DEF WayInv, StatusTells, Live, There
<1>5. Past'
  <2>1. ~isRoute(cr.spec) /\ ~isIngress(cr.spec) => Wanted(cr.spec) = Web
    BY DEF Wanted
  <2> QED BY <1>0, <1>1, <2>1 DEF Past, Right, Web
<1>6. AtEnd'
  BY <1>0, <1>1 DEF AtEnd
<1> QED BY <1>2, <1>3, <1>4, <1>5, <1>6 DEF WayInv

-----------------------------------------------------------------------------
(* The goroutines, whose steps come at any time.                            *)
LEMMA RouteExpected == ASSUME NEW r \in Routes, NEW s PROVE Expected(r, s) = Present
  BY RouteNames DEF Expected, Web

LEMMA ReachedStays ==
  ASSUME Reached, Copied, Same \/ Overtaken, pc' = pc
  PROVE  Reached'
<1>1. CASE Overtaken
  BY <1>1 DEF Overtaken, Alike, Reached
<1>2. CASE Same
  <2>1. cr'.spec = cr.spec /\ cr'.type = cr.type /\ mem'.spec = mem.spec /\ mem'.type = mem.type /\ (fresh' => fresh)
    BY <1>2 DEF Same, Alike
  <2>2. Leaving => Leaving'
    BY <2>1 DEF Leaving, isRoute
  <2>3. /\ isIngress(mem.spec) => isIngress(mem'.spec)
        /\ isRoute(mem.spec) => isRoute(mem'.spec)
        /\ "deployment" \in Wanted(mem.spec) => "deployment" \in Wanted(mem'.spec)
    BY <2>1
  <2> QED BY <2>1, <2>2, <2>3 DEF Reached
<1> QED BY <1>1, <1>2

(* A goroutine that ends without a Route was noticed, or another            *)
(* reconciliation follows.                                                  *)
LEMMA PastStays ==
  ASSUME Past, AtEnd, Same \/ Overtaken, UNCHANGED <<pc, obj, queue>>, unnoticed \subseteq unnoticed',
         \A r \in Routes : job'[r] = "done" => job[r] = "done" \/ r \in unnoticed' \/ obj[r] = Present
  PROVE  Past' /\ AtEnd'
<1>1. CASE pc = "store"
  BY <1>1 DEF Past, AtEnd
<1>2. CASE pc # "store"
  <2>1. /\ cr'.spec = cr.spec /\ cr'.type = cr.type /\ cr'.class = cr.class
        /\ mem'.spec = mem.spec
    BY <1>2 DEF Same, Overtaken, Alike
  <2>2. ASSUME NEW s, isRoute(s) => \A r \in Routes : job[r] = "done" => Right(r, s)
        PROVE  isRoute(s) => \A r \in Routes : job'[r] = "done" => (r \in Wanted(s) \ unnoticed' => obj[r] = Expected(r, s))
    BY <2>2, RouteExpected DEF Right
  <2>3. Spawned(mem.spec) => Spawned(mem.spec)'
    BY <2>1, <2>2 DEF Spawned, Right
  <2>4. Spawned(cr.spec) => Spawned(cr.spec)'
    BY <2>1, <2>2 DEF Spawned, Right
  <2>5. Past'
    BY <2>1, <2>3, StaysRight DEF Past
  <2>6. /\ Right("redirect", cr.spec) => Right("redirect", cr.spec)'
        /\ Right("ingress", cr.spec) => Right("ingress", cr.spec)'
        /\ WebMade(cr.spec) => WebMade(cr.spec)'
    BY <2>1 DEF Right, WebMade
  <2>7. prechecks(cr'.spec) => prechecks(cr.spec)
    BY <2>1
  <2>8. AtEnd'
    BY <2>1, <2>4, <2>6, <2>7 DEF AtEnd
  <2> QED BY <2>5, <2>8
<1> QED BY <1>1, <1>2

LEMMA ThreadStep ==
  ASSUME TypeOK, WayInv, NEW r \in Routes, GetRoute(r) \/ RouteFails(r)
  PROVE  WayInv'
<1>0. CopyOK /\ ThreadOK
  BY TypeParts
<1>1. UNCHANGED <<pc, queue, obj>> /\ unnoticed \subseteq unnoticed'
  BY DEF GetRoute, RouteFails, cluster
<1>2. NoUpdate \/ RouteNotReady(r)
  BY DEF GetRoute, RouteFails
<1>3. Same \/ Overtaken
  BY <1>0, <1>2, ThreadSame DEF WayInv
<1>4. Less
  BY <1>1, StillLess
<1>5. Shapes' /\ Copied' /\ StatusTells'
  <2>1. CASE Same
    BY <1>1, <1>4, <2>1, QuietStep DEF WayInv
  <2>2. CASE Overtaken
    BY <1>1, <1>4, <2>2, StoredStep DEF WayInv, Overtaken
  <2> QED BY <1>3, <2>1, <2>2
<1>6. Reached'
  BY <1>1, <1>3, ReachedStays DEF WayInv
<1>7. \A q \in Routes : job'[q] = "done" => job[q] = "done" \/ q \in unnoticed' \/ obj[q] = Present
  <2>1. ASSUME NEW q \in Routes, q # r PROVE job'[q] = job[q]
    BY <1>0, <2>1 DEF GetRoute, RouteFails, ThreadOK
  <2>2. GetRoute(r) /\ job'[r] = "done" => obj[r] = Present
    BY <1>0 DEF GetRoute, ThreadOK, WayInv, Shapes
  <2>3. RouteFails(r) => r \in unnoticed'
    BY DEF RouteFails
  <2> QED BY <2>1, <2>2, <2>3
<1>8. Past' /\ AtEnd'
  BY <1>1, <1>3, <1>7, PastStays DEF WayInv
<1> QED BY <1>5, <1>6, <1>8 DEF WayInv

LEMMA CreateStep ==
  ASSUME TypeOK, WayInv, NEW r \in Routes, CreateRoute(r)
  PROVE  WayInv'
<1>0. /\ obj' = [obj EXCEPT ![r] = Present] /\ queue' = TRUE /\ UNCHANGED <<pc, cr, mem, fresh>>
      /\ unnoticed \subseteq unnoticed' /\ (r \notin unnoticed' => RoutesTold)
  BY DEF CreateRoute, NoUpdate
<1>1. r \in Objects /\ r \notin Web \cup {"ingress", "redirect"}
  BY RouteNames DEF Objects
<1>2. obj \in [Objects -> Object]
  BY TypeParts DEF ObjectOK
<1>3. obj'["service"] = obj["service"] /\ \A q \in Routes : obj'[q] \in {Absent, Present}
  BY <1>0, <1>1, <1>2 DEF WayInv, Shapes, Objects, Web
<1>4. There' \subseteq There \cup {r} /\ Live' \subseteq Live \cup {r}
  BY <1>0, <1>2 DEF There, Live
<1>5. Shapes' /\ Copied' /\ Reached'
  <2>1. "redirect" \in There' => "redirect" \in There
    BY <1>1, <1>4
  <2>2. Shapes'
    BY <1>0, <1>3, <2>1 DEF WayInv, Shapes
  <2>3. Leaving => Leaving'
    BY <1>0 DEF Leaving
  <2> QED BY <1>0, <2>2, <2>3 DEF WayInv, Copied, Reached
<1>6. ASSUME NEW t, NEW c, Told(Live, obj["service"], cr.spec, t, c),
             r \in Live' => Way(cr.spec, t) = "route"
      PROVE  Told(Live', obj["service"], cr.spec, t, c)
  BY <1>1, <1>4, <1>6 DEF Told, RouteTold, IngressTold, PodsTold, RedirectTold, ServiceTold, Pods, Web
<1>7. r \in Live' => RoutesTold
  BY <1>0 DEF Live
<1>8. RoutesTold => Way(cr.spec, cr.type) = "route"
  BY DEF RoutesTold, Way, isRoute
<1>9. RoutesTold /\ pc = "store" /\ fresh => mem.type = cr.type
  BY DEF RoutesTold, Leaving, WayInv, Reached
<1>10. StatusTells'
  <2>1. Told(Live', obj["service"], cr.spec, cr.type, cr.class)
    BY <1>6, <1>7, <1>8 DEF WayInv, StatusTells
  <2>2. pc = "store" /\ fresh => Told(Live', obj["service"], cr.spec, mem.type, mem.class)
    BY <1>6, <1>7, <1>8, <1>9 DEF WayInv, StatusTells
  <2> QED BY <1>0, <1>3, <2>1, <2>2 DEF StatusTells
<1> QED BY <1>0, <1>5, <1>10, QueuedStep DEF WayInv

-----------------------------------------------------------------------------
(* The steps of a reconciliation that go on to the next part.               *)

(* An object that is not to be written is right: the Service too, which is  *)
(* not compared, because .status tells its type.                            *)
LEMMA NotDiffering ==
  ASSUME WayInv, ~queue, pc \in {"redirect", "ingress", "web"}, NEW o \in Objects, ~Differs(o)
  PROVE  Right(o, mem.spec)
<1>1. CASE obj[o] = Expected(o, mem.spec)
  BY <1>1 DEF Right
<1>2. CASE o = "service" /\ obj[o] # Absent
  <2>1. mem.spec = cr.spec /\ cr.type \in {NoName, cr.spec.type}
    BY DEF WayInv, Copied, Reached
  <2>2. o \notin unnoticed => "service" \in Live
    BY <1>2 DEF Live, There
  <2>3. o \notin unnoticed => obj["service"] = ServiceOf(Kind(cr.spec.type))
    BY <2>1, <2>2, WayHere DEF WayInv, StatusTells, Told, ServiceTold
  <2> QED BY <1>2, <2>1, <2>3, ServiceKind DEF Right, Expected
<1> QED BY <1>1, <1>2 DEF Differs

LEMMA OnwardStep ==
  ASSUME WayInv, Same, Less, queue => queue', pc \notin {"idle", "store", "check"},
         pc' \notin {"idle", "store", "switch"},
         pc' \in {"redirect", "ingress"} => isIngress(mem.spec),
         pc' \in {"routes", "spawned"} => isRoute(mem.spec),
         pc' = "web" => "deployment" \in Wanted(mem.spec),
         pc # "switch"
  PROVE  Shapes' /\ Copied' /\ StatusTells' /\ Reached' /\ AtEnd'
<1>1. Shapes' /\ Copied' /\ StatusTells'
  BY QuietStep DEF WayInv
<1>2. mem'.spec = mem.spec /\ cr'.type = cr.type
  BY DEF Same, Alike
<1>3. cr.type \in {NoName, mem.spec.type}
  BY DEF WayInv, Reached
<1>4. Reached' /\ AtEnd'
  BY <1>2, <1>3 DEF Reached, AtEnd
<1> QED BY <1>1, <1>4

LEMMA SpawnStep ==
  ASSUME TypeOK, WayInv, SpawnRoutes
  PROVE  WayInv'
<1>1. pc = "routes" /\ pc' = "spawned" /\ UNCHANGED <<queue, obj, unnoticed>> /\ NoUpdate
  BY DEF SpawnRoutes, Goto, Untouched
<1>2. \A r \in Routes : job'[r] # "done"
  BY DEF SpawnRoutes
<1>3. Same /\ Less
  BY <1>1, NoUpdateSame, StillLess
<1>4. isRoute(mem.spec)
  BY <1>1 DEF WayInv, Reached
<1>5. Past'
  BY <1>1, <1>2 DEF Past, Spawned
<1> QED BY <1>1, <1>3, <1>4, <1>5, OnwardStep DEF WayInv

LEMMA RemoveWebStep ==
  ASSUME TypeOK, WayInv, RemoveWeb
  PROVE  WayInv'
<1>0. pc = "spawned" /\ pc' = "class" /\ queue' = (queue \/ obj' # obj) /\ job' = job
  BY DEF RemoveWeb, threads
<1>1. Less /\ unnoticed \subseteq unnoticed'
  <2>1. {"deployment", "service"} \in SUBSET Objects
    BY DEF Objects, Web
  <2>2. Delete({"deployment", "service"})
    BY DEF RemoveWeb
  <2> QED BY <2>1, <2>2, DeleteLess
<1>2. Same
  <2> DEFINE new == [mem EXCEPT !.cond["web"] = "none"]
  <2>1. new \in Pulp /\ Alike(new, mem)
    BY CondTypes, CondAlike, TypeParts DEF CopyOK, Conds
  <2>2. Alike([new EXCEPT !.cond["route"] = "True"], new)
    BY <2>1, CondAlike
  <2>3. \/ Store([new EXCEPT !.cond["route"] = "True"])
        \/ mem' = new /\ UNCHANGED <<cr, fresh, lateFresh>>
    BY DEF RemoveWeb
  <2> HIDE DEF new
  <2>4. CASE Store([new EXCEPT !.cond["route"] = "True"])
    <3>1. Alike([new EXCEPT !.cond["route"] = "True"], mem)
      BY <2>1, <2>2 DEF Alike
    <3> QED BY <1>0, <2>4, <3>1, StoreSame DEF WayInv
  <2>5. CASE mem' = new /\ UNCHANGED <<cr, fresh, lateFresh>>
    BY <2>1, <2>5 DEF Same, Alike
  <2> QED BY <2>3, <2>4, <2>5
<1>3. mem'.spec = mem.spec /\ isRoute(mem.spec)
  BY <1>0, <1>2 DEF Same, Alike, WayInv, Reached
<1>4. Past'
  <2>1. CASE queue'
    BY <2>1, QueuedStep
  <2>2. CASE ~queue'
    <3>1. obj' = obj /\ ~queue
      BY <1>0, <2>2
    <3>2. Spawned(mem.spec)'
      BY <1>0, <1>1, <1>3, <3>1, StaysRight DEF WayInv, Past
    <3>3. Wanted(mem.spec) \cap (Web \cup {"ingress", "redirect"}) = {}
      BY <1>3, RouteNames DEF Wanted
    <3> QED BY <1>0, <1>3, <3>2, <3>3 DEF Past, Right, WebMade
  <2> QED BY <2>1, <2>2
<1>5. Shapes' /\ Copied' /\ StatusTells' /\ Reached' /\ AtEnd'
  BY <1>0, <1>1, <1>2, <1>3, OnwardStep
<1> QED BY <1>4, <1>5 DEF WayInv

LEMMA RedirectStep ==
  ASSUME TypeOK, WayInv, Redirect
  PROVE  WayInv'
<1>0. pc = "redirect" /\ pc' = "ingress" /\ isIngress(mem.spec) /\ CopyOK /\ ObjectOK
  BY TypeParts DEF Redirect, WayInv, Reached
<1>1. CASE "redirect" \in Wanted(mem.spec) /\ Differs("redirect")
  <2>1. Write("redirect") /\ UpdateStatus("ingress", "False") /\ queue' = TRUE
    BY <1>1 DEF Redirect
  <2>2. Same
    BY <1>0, <2>1, UpdateStatusSame DEF WayInv
  <2>3. "redirect" \in Objects \ Routes
    BY RouteNames DEF Objects
  <2>4. Shapes' /\ Copied' /\ StatusTells'
    BY <1>0, <1>1, <2>1, <2>2, <2>3, WriteStep
  <2>5. mem'.spec = mem.spec /\ cr'.type = cr.type /\ cr.type \in {NoName, mem.spec.type}
    BY <1>0, <2>2 DEF Same, Alike, WayInv, Reached
  <2>6. Reached'
    BY <1>0, <2>5 DEF Reached
  <2> QED BY <2>1, <2>4, <2>6, QueuedStep DEF WayInv
<1>2. CASE ~("redirect" \in Wanted(mem.spec) /\ Differs("redirect"))
  <2>1. UNCHANGED <<obj, unnoticed, queue>> /\ NoUpdate
    BY <1>2 DEF Redirect, Untouched
  <2>2. Same /\ Less
    BY <2>1, NoUpdateSame, StillLess
  <2>3. "redirect" \in Objects
    BY DEF Objects
  <2>4. ~queue => Right("redirect", mem.spec)
    BY <1>0, <1>2, <2>3, NotDiffering DEF Right
  <2>5. Past'
    BY <1>0, <2>1, <2>4, StaysRight DEF Past, NoUpdate
  <2> QED BY <1>0, <2>1, <2>2, <2>5, OnwardStep DEF WayInv
<1> QED BY <1>1, <1>2

LEMMA IngressReadyStep ==
  ASSUME TypeOK, WayInv, IngressReady
  PROVE  WayInv'
<1>0. /\ pc = "ingress" /\ pc' = (IF Deploy(mem.spec).web THEN "web" ELSE "class")
      /\ UNCHANGED <<queue, obj, unnoticed, job>> /\ ~Differs("ingress")
      /\ isIngress(mem.spec) /\ ~isRoute(mem.spec) /\ CopyOK
  BY TypeParts DEF IngressReady, Goto, Untouched, threads, WayInv, Reached, isIngress, isRoute
<1>1. Same
  BY <1>0, NoUpdateSame, UpdateStatusSame DEF IngressReady, WayInv
<1>2. Less
  BY <1>0, StillLess
<1>3. mem'.spec = mem.spec
  BY <1>1 DEF Same, Alike
<1>4. Deploy(mem.spec).web => "deployment" \in Wanted(mem.spec)
  BY <1>0 DEF Wanted, Web
<1>5. ~Deploy(mem.spec).web => Wanted(mem.spec) \cap Web = {}
  BY <1>0 DEF Wanted, Web
<1>6. ~queue => Right("ingress", mem.spec)
  BY <1>0, NotDiffering DEF Objects
<1>7. Past'
  <2>1. ~queue => Right("redirect", mem.spec)' /\ Right("ingress", mem.spec)'
    BY <1>0, <1>3, <1>6, StaysRight DEF WayInv, Past
  <2>2. ~Deploy(mem.spec).web => WebMade(mem.spec)'
    BY <1>3, <1>5 DEF WebMade, Right
  <2>3. Spawned(mem.spec)'
    BY <1>0, <1>3 DEF Spawned
  <2> QED BY <1>0, <2>1, <2>2, <2>3 DEF Past
<1> QED BY <1>0, <1>1, <1>2, <1>4, <1>7, OnwardStep DEF WayInv

LEMMA WebDoneStep ==
  ASSUME TypeOK, WayInv, WebDone
  PROVE  WayInv'
<1>0. /\ pc = "web" /\ pc' = "class" /\ NoUpdate
      /\ UNCHANGED <<queue, obj, unnoticed, job>> /\ \A o \in Web : ~Differs(o)
  BY DEF WebDone, Goto, Untouched, threads
<1>1. Same /\ Less
  BY <1>0, NoUpdateSame, StillLess
<1>2. ~queue => WebMade(mem.spec)
  BY <1>0, NotDiffering DEF WebMade, Objects
<1>3. ~isRoute(mem.spec)
  BY <1>0, RouteNames DEF WayInv, Reached, Wanted, Web
<1>4. Past'
  <2>1. mem'.spec = mem.spec
    BY <1>0 DEF NoUpdate
  <2>2. ~queue => Right("redirect", mem.spec)' /\ Right("ingress", mem.spec)' /\ WebMade(mem.spec)'
    BY <1>0, <1>2, <2>1, StaysRight DEF WayInv, Past
  <2>3. Spawned(mem.spec)'
    BY <1>3, <2>1 DEF Spawned
  <2> QED BY <1>0, <2>2, <2>3 DEF Past
<1> QED BY <1>0, <1>1, <1>4, OnwardStep DEF WayInv

LEMMA SameClassStep ==
  ASSUME TypeOK, WayInv, SameClass
  PROVE  WayInv'
<1>0. /\ pc = "class" /\ pc' = "fields" /\ NoUpdate /\ mem.class = mem.spec.class
      /\ UNCHANGED <<queue, obj, unnoticed, job>>
  BY DEF SameClass, Goto, Untouched, threads
<1>1. Same /\ Less
  BY <1>0, NoUpdateSame, StillLess
<1>2. cr'.class = cr.class /\ mem'.spec = mem.spec /\ cr.class = mem.spec.class
  BY <1>0 DEF NoUpdate, WayInv, Copied
<1>3. Past'
  BY <1>0, <1>2, StaysRight DEF WayInv, Past
<1> QED BY <1>0, <1>1, <1>3, OnwardStep DEF WayInv

(* The end of a reconciliation.                                             *)
LEMMA CheckStep ==
  ASSUME TypeOK, WayInv, setStatusConditions
  PROVE  WayInv'
<1>0. /\ pc = "check" /\ pc' = "idle" /\ (queue => queue') /\ CopyOK
      /\ UNCHANGED <<obj, unnoticed, job>>
  BY TypeParts DEF setStatusConditions, Return, Untouched, threads
<1>1. Same
  BY <1>0, NoUpdateSame, UpdateStatusSame DEF setStatusConditions, WayInv
<1>2. Less
  BY <1>0, StillLess
<1>3. Shapes' /\ Copied' /\ StatusTells'
  BY <1>0, <1>1, <1>2, QuietStep DEF WayInv
<1>4. cr'.spec = cr.spec /\ cr'.type = cr.type /\ cr'.class = cr.class
  BY <1>1 DEF Same, Alike
<1>5. AtEnd'
  <2>1. CASE queue'
    BY <2>1 DEF AtEnd
  <2>2. CASE ~queue'
    <3>1. ~queue /\ mem.spec = cr.spec
      BY <1>0, <2>2 DEF WayInv, Copied
    <3>2. /\ cr.class = cr.spec.class /\ cr.type \in {NoName, cr.spec.type}
          /\ Right("redirect", cr.spec) /\ Right("ingress", cr.spec)
          /\ WebMade(cr.spec) /\ Spawned(cr.spec)
      BY <1>0, <3>1 DEF WayInv, Past, Reached
    <3>3. isRoute(cr'.spec) = isRoute(cr.spec)
      BY <1>4
    <3> QED BY <1>0, <1>4, <3>2, <3>3 DEF AtEnd, Right, WebMade, Spawned
  <2> QED BY <2>1, <2>2
<1>6. Reached' /\ Past'
  BY <1>0 DEF Reached, Past
<1> QED BY <1>3, <1>5, <1>6 DEF WayInv

-----------------------------------------------------------------------------
(* Steps that end a reconciliation early and queue another.                 *)
LEMMA GiveUpStep ==
  ASSUME WayInv, Same, Less, pc' = "idle", queue', fresh' => pc # "store"
  PROVE  WayInv'
<1>1. Shapes' /\ Copied' /\ StatusTells'
  BY QuietStep DEF WayInv
<1>2. Reached'
  BY DEF Reached
<1> QED BY <1>1, <1>2, QueuedStep DEF WayInv

LEMMA WriteAndReturn ==
  ASSUME TypeOK, WayInv, NEW o \in Objects \ Routes, Write(o), o \in Wanted(mem.spec),
         pc \in {"ingress", "web"}, Return(TRUE), NEW c, NEW v, UpdateStatus(c, v)
  PROVE  WayInv'
<1>1. pc' = "idle" /\ queue' /\ CopyOK /\ ObjectOK
  BY TypeParts DEF Return
<1>2. Same
  BY <1>1, UpdateStatusSame DEF WayInv
<1>3. Shapes' /\ Copied' /\ StatusTells'
  BY <1>1, <1>2, WriteStep
<1>4. Reached'
  BY <1>1 DEF Reached
<1> QED BY <1>1, <1>3, <1>4, QueuedStep DEF WayInv

(* What the recorded type tells is what updateIngressType deletes.          *)
LEMMA SwitchCovers ==
  ASSUME WayInv, pc = "switch"
  PROVE  /\ cr.type = mem.type
         /\ Kind(mem.type) = "route" => Live \cap (Pods \cup {"ingress", "redirect"}) = {}
         /\ Kind(mem.type) # "route" => Live \cap Routes = {}
         /\ Kind(mem.type) # "ingress" => Live \cap {"ingress", "redirect"} = {}
<1>1. cr.type = mem.type /\ cr.type # NoName
  BY DEF WayInv, Copied, Reached
<1>2. Way(cr.spec, cr.type) = Kind(mem.type)
  BY <1>1 DEF Way
<1> QED BY <1>1, <1>2 DEF WayInv, StatusTells, Told, RouteTold, IngressTold, PodsTold

LEMMA WayStep ==
  ASSUME TypeOK, WayInv, [Next]_vars
  PROVE  WayInv'
<1> CopyOK
  BY TypeParts
<1>1. CASE StartReconcile
  BY <1>1, StartStep
<1>2. CASE FromRoute
  <2>1. /\ pc = "switch" /\ Kind(mem.type) = "route" /\ ~isRoute(mem.spec) /\ Delete(Routes)
        /\ Goto("store") /\ UNCHANGED <<cr, fresh>>
    BY <1>2 DEF FromRoute, From
  <2>2. mem'.spec = mem.spec
    BY <1>2 DEF FromRoute, CopyOK, Pulp
  <2>3. Routes \in SUBSET Objects
    BY DEF Objects
  <2>4. Live \cap (Routes \cup Pods \cup {"ingress", "redirect"}) \subseteq Routes
    BY <2>1, SwitchCovers
  <2> QED BY <2>1, <2>2, <2>3, <2>4, SwitchStep
<1>3. CASE FromIngress
  <2> DEFINE S == {"ingress", "redirect", "deployment", "service"}
  <2>1. /\ pc = "switch" /\ Kind(mem.type) = "ingress" /\ Delete(S)
        /\ Goto("store") /\ UNCHANGED <<cr, fresh>>
    BY <1>3 DEF FromIngress, From
  <2>2. mem'.spec = mem.spec
    BY <1>3 DEF FromIngress, CopyOK, Pulp
  <2>3. S \in SUBSET Objects
    BY DEF Objects, Web
  <2>4. Live \cap (Routes \cup Pods \cup {"ingress", "redirect"}) \subseteq S
    BY <2>1, SwitchCovers DEF Pods
  <2> HIDE DEF S
  <2> QED BY <2>1, <2>2, <2>3, <2>4, SwitchStep
<1>4. CASE FromWeb
  <2>1. /\ pc = "switch" /\ Kind(mem.type) \in {"nodeport", "loadbalancer"} /\ Delete(Pods)
        /\ Goto("store") /\ UNCHANGED <<cr, fresh>>
    BY <1>4 DEF FromWeb, From, Pods
  <2>2. mem'.spec = mem.spec
    BY <1>4 DEF FromWeb, CopyOK, Pulp
  <2>3. Pods \in SUBSET Objects
    BY DEF Objects, Web, Pods
  <2>4. Live \cap (Routes \cup Pods \cup {"ingress", "redirect"}) \subseteq Pods
    BY <2>1, SwitchCovers
  <2> QED BY <2>1, <2>2, <2>3, <2>4, SwitchStep
<1>5. CASE FromNowhere
  BY <1>5, GiveUpStep, NoUpdateSame, StillLess DEF FromNowhere, Return, Untouched
<1>6. CASE StoreStatus
  <2>1. Store(mem) /\ pc = "store" /\ pc' = "idle" /\ queue' /\ UNCHANGED <<obj, unnoticed>>
    BY <1>6 DEF StoreStatus, Return, Untouched
  <2>2. Less
    BY <2>1, StillLess
  <2>3. CASE fresh
    <3>1. Overtaken
      BY <2>1, <2>3 DEF Store, Overtaken, Alike
    <3>2. Shapes' /\ Copied' /\ StatusTells'
      BY <2>1, <2>2, <3>1, StoredStep DEF WayInv
    <3>3. Reached'
      BY <2>1 DEF Reached
    <3> QED BY <2>1, <3>2, <3>3, QueuedStep DEF WayInv
  <2>4. CASE ~fresh
    <3>1. Same /\ ~fresh'
      BY <2>1, <2>4 DEF Store, Same, Alike
    <3> QED BY <2>1, <2>2, <3>1, GiveUpStep
  <2> QED BY <2>3, <2>4
<1>7. CASE NoPaths
  <2>1. pc # "store" /\ pc' = "idle" /\ queue' /\ UNCHANGED <<obj, unnoticed>>
    BY <1>7 DEF NoPaths, Return, Untouched
  <2>2. Same
    BY <1>7, <2>1, NoUpdateSame, UpdateStatusSame DEF NoPaths, WayInv
  <2> QED BY <2>1, <2>2, StillLess, GiveUpStep
<1>8. CASE SpawnRoutes
  BY <1>8, SpawnStep
<1>9. CASE RemoveWeb
  BY <1>9, RemoveWebStep
<1>10. CASE Redirect
  BY <1>10, RedirectStep
<1>11. CASE WriteIngress
  <2>1. pc = "ingress" /\ Write("ingress") /\ Return(TRUE) /\ UpdateStatus("ingress", "False")
    BY <1>11 DEF WriteIngress
  <2>2. "ingress" \in Objects \ Routes
    BY RouteNames DEF Objects
  <2>3. "ingress" \in Wanted(mem.spec)
    BY <2>1 DEF WayInv, Reached, Wanted, isIngress, isRoute
  <2> QED BY <2>1, <2>2, <2>3, WriteAndReturn
<1>12. CASE IngressReady
  BY <1>12, IngressReadyStep
<1>13. CASE \E o \in Web : WriteWeb(o)
  <2>1. PICK o \in Web : WriteWeb(o)
    BY <1>13
  <2>2. pc = "web" /\ Write(o) /\ Return(TRUE) /\ UpdateStatus("web", "False")
    BY <2>1 DEF WriteWeb
  <2>3. o \in Objects \ Routes
    BY RouteNames DEF Objects
  <2>4. "deployment" \in Wanted(mem.spec)
    BY <2>2 DEF WayInv, Reached
  <2>5. o \in Wanted(mem.spec)
    BY <2>4, RouteNames DEF Wanted, Web
  <2> QED BY <2>2, <2>3, <2>5, WriteAndReturn
<1>14. CASE WebDone
  BY <1>14, WebDoneStep
<1>15. CASE WriteFails
  <2>1. pc # "store" /\ pc' = "idle" /\ queue' /\ UNCHANGED <<obj, unnoticed>>
    BY <1>15 DEF WriteFails, Return, Untouched
  <2>2. Same
    BY <1>15, <2>1, UpdateStatusSame DEF WriteFails, WayInv
  <2> QED BY <2>1, <2>2, StillLess, GiveUpStep
<1>16. CASE SwitchClass
  BY <1>16, ClassStep
<1>17. CASE SameClass
  BY <1>17, SameClassStep
<1>18. CASE setStatusFields
  BY <1>18, FieldsStep
<1>19. CASE setStatusConditions
  BY <1>19, CheckStep
<1>20. CASE \E r \in Routes : Goroutine(r)
  BY <1>20, ThreadStep, CreateStep DEF Goroutine
<1>21. CASE EditSpec
  BY <1>21, EditStep
<1>22. CASE WebReady
  <2>1. UNCHANGED <<pc, cr, mem, fresh, obj, unnoticed>> /\ queue'
    BY <1>22 DEF WebReady
  <2>2. Same /\ Less
    BY <2>1, StillLess DEF Same, Alike
  <2> QED BY <2>1, <2>2, QuietStep, ReachedStays, QueuedStep DEF WayInv
<1>23. CASE OperatorRestart
  <2>1. UNCHANGED <<cr, mem, obj, unnoticed>> /\ pc' = "idle" /\ queue' /\ ~fresh'
    BY <1>23 DEF OperatorRestart, Untouched
  <2>2. Same
    BY <2>1 DEF Same, Alike
  <2> QED BY <2>1, <2>2, StillLess, GiveUpStep
<1>24. CASE UNCHANGED vars
  <2>1. UNCHANGED <<pc, queue, cr, mem, fresh, obj, unnoticed, job>>
    BY <1>24 DEF vars
  <2>2. Same /\ Less
    BY <2>1, StillLess DEF Same, Alike
  <2>3. Past' /\ AtEnd'
    BY <2>1, <2>2, PastStays DEF WayInv
  <2> QED BY <2>1, <2>2, <2>3, QuietStep, ReachedStays DEF WayInv
<1> QED BY <1>1, <1>2, <1>3, <1>4, <1>5, <1>6, <1>7, <1>8, <1>9, <1>10, <1>11, <1>12, <1>13, <1>14, <1>15, <1>16, <1>17, <1>18, <1>19, <1>20, <1>21, <1>22, <1>23, <1>24 DEF Next, Reconcile

LEMMA WayInit == Init => WayInv
<1> SUFFICES ASSUME Init PROVE WayInv
  OBVIOUS
<1>1. PICK s \in Installed : cr.spec = s
  BY DEF Init
<1>2. /\ pc = "idle" /\ queue /\ mem = cr /\ ~fresh
      /\ \A o \in Objects : obj[o] = Absent
  BY DEF Init
<1>3. There = {} /\ Live = {}
  BY <1>2 DEF There, Live
<1>4. Shapes
  BY <1>1, <1>2, <1>3, IngressConstants DEF Shapes, Objects
<1>5. StatusTells
  BY <1>2, <1>3, ToldNothing DEF StatusTells
<1> QED BY <1>2, <1>4, <1>5 DEF WayInv, Copied, Reached, Past, AtEnd

LEMMA WayEnds == WayInv => OneWayIn
<1> SUFFICES ASSUME WayInv, AtRest, prechecks(cr.spec)
             PROVE  /\ There \ Wanted(cr.spec) \subseteq unnoticed \cup {"configmap"}
                    /\ \A o \in Wanted(cr.spec) \ unnoticed : obj[o] = Expected(o, cr.spec)
  BY DEF OneWayIn
<1>1. /\ cr.class = cr.spec.class /\ cr.type \in {NoName, cr.spec.type}
      /\ Right("redirect", cr.spec) /\ Right("ingress", cr.spec)
      /\ WebMade(cr.spec) /\ Spawned(cr.spec)
  BY DEF WayInv, AtEnd, AtRest
<1>2. Live \in SUBSET Objects /\ cr.spec \in Specs
      /\ ("redirect" \in Live => Rewrites /\ \E z \in Specs : isOCPIngress(z))
  BY DEF WayInv, Shapes, Live, There
<1>3. Live \subseteq Wanted(cr.spec) \cup {"configmap"}
  <2>1. Told(Live, obj["service"], cr.spec, cr.type, cr.spec.class)
    BY <1>1 DEF WayInv, StatusTells
  <2>2. cr.type \in {NoName, cr.spec.type}
    BY <1>1
  <2> QED BY ONLY <1>2, <2>1, <2>2, ToldEnd
<1>4. ASSUME NEW o \in Wanted(cr.spec) \ unnoticed PROVE obj[o] = Expected(o, cr.spec)
  <2>1. CASE isRoute(cr.spec)
    <3>1. o \in Routes
      BY <2>1 DEF Wanted
    <3> QED BY <1>1, <2>1, <3>1 DEF Spawned, Right, AtRest
  <2>2. CASE ~isRoute(cr.spec)
    <3>1. o \in Web \cup {"ingress", "redirect"}
      BY <2>2 DEF Wanted
    <3> QED BY <1>1, <3>1 DEF WebMade, Right
  <2> QED BY <2>1, <2>2
<1> QED BY <1>3, <1>4 DEF Live

(* Whatever was edited, failed or restarted on the way, when the operator   *)
(* is at rest exactly the objects of the ingress_type and class in .spec    *)
(* are there, as they should be, those it lost track of apart: what         *)
(* .status.ingress_type and ingress_class_name hold is always enough for    *)
(* updateIngressType and updateIngressClass to remove the rest.             *)
THEOREM OneWayKept == Spec => []OneWayIn
<1>1. TypeOK /\ WayInv /\ [Next]_vars => WayInv'
  BY WayStep
<1> QED BY <1>1, WayInit, WayEnds, IngressTypeCorrect, PTL DEF Spec
=============================================================================
