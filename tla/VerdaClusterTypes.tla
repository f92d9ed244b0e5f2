------------------------- MODULE VerdaClusterTypes --------------------------
(***************************************************************************)
(* The first of three modules of proofs about VerdaCluster, for any number *)
(* of instances, scripts, volumes, machines, faults, crashes and changes:  *)
(* what each step does to the object and its copies, and the types.        *)
(***************************************************************************)
EXTENDS VerdaCluster, TLAPS

-----------------------------------------------------------------------------
(* The fields of the object.                                               *)

Fields == {"exists", "finalizer", "deleting", "enabled", "endpoint", "delReq", "instanceID", "scriptID",
           "backends", "ready", "provisioned"}

Whole(m) == m = [f \in Fields |-> m[f]]

Typed(m) ==
    /\ m.exists \in BOOLEAN /\ m.finalizer \in BOOLEAN /\ m.deleting \in BOOLEAN /\ m.enabled \in BOOLEAN
    /\ m.endpoint \in InstanceIDs \cup Hosts \cup {None} /\ m.delReq \in LiveStatus \cup {"none"}
    /\ m.instanceID \in InstanceIDs \cup {None} /\ m.scriptID \in ScriptIDs \cup {None}
    /\ m.backends \in SUBSET Nodes /\ m.ready \in BOOLEAN /\ m.provisioned \in BOOLEAN

\* n has the fields of m, those in F excepted.
Rest(n, m, F) == \A f \in Fields \ F : n[f] = m[f]

\* A VerdaCluster is what has its fields, each of its type.
LEMMA Shape == ASSUME NEW m PROVE m \in Clusters <=> Whole(m) /\ Typed(m)
BY Zenon DEF Clusters, Whole, Typed, Fields

\* Setting one field leaves the others.
LEMMA SetField ==
    ASSUME NEW m, Whole(m), NEW f \in Fields, NEW x
    PROVE  LET n == [m EXCEPT ![f] = x] IN Whole(n) /\ Rest(n, m, {f}) /\ n[f] = x
BY Zenon DEF Whole, Rest

\* Setting a flag of a VerdaCluster leaves a VerdaCluster.
LEMMA SetFlag ==
    ASSUME NEW m \in Clusters, NEW f \in {"exists", "finalizer", "deleting", "enabled", "ready", "provisioned"},
           NEW x \in BOOLEAN
    PROVE  LET n == [m EXCEPT ![f] = x] IN n \in Clusters /\ Rest(n, m, {f}) /\ n[f] = x
<1> SUFFICES ASSUME NEW n, n = [m EXCEPT ![f] = x]
             PROVE  n \in Clusters /\ Rest(n, m, {f}) /\ n[f] = x
  BY Zenon
<1>1. Whole(m) /\ Typed(m) /\ f \in Fields
  BY Shape, Zenon DEF Fields
<1>2. Whole(n) /\ Rest(n, m, {f}) /\ n[f] = x
  BY <1>1, SetField, Zenon
<1>3. Typed(n)
  BY <1>1, <1>2, Zenon DEF Typed, Rest, Fields
<1> QED BY <1>2, <1>3, Shape, Zenon

\* NotReady clears the ready condition and nothing else.
LEMMA NotReadyFields ==
    ASSUME NEW m \in Clusters
    PROVE  NotReady(m) \in Clusters /\ Rest(NotReady(m), m, {"ready"}) /\ NotReady(m).ready = FALSE
BY SetFlag, Zenon DEF NotReady

\* The other single fields that are set.
LEMMA SetOthers ==
    ASSUME NEW m \in Clusters
    PROVE  /\ \A x \in InstanceIDs \cup Hosts \cup {None} :
                LET n == [m EXCEPT !.endpoint = x] IN n \in Clusters /\ Rest(n, m, {"endpoint"}) /\ n.endpoint = x
           /\ \A x \in LiveStatus \cup {"none"} :
                LET n == [m EXCEPT !.delReq = x] IN n \in Clusters /\ Rest(n, m, {"delReq"}) /\ n.delReq = x
           /\ \A x \in ScriptIDs \cup {None} :
                LET n == [m EXCEPT !.scriptID = x] IN n \in Clusters /\ Rest(n, m, {"scriptID"}) /\ n.scriptID = x
<1> Whole(m) /\ Typed(m)
  BY Shape, Zenon
<1>2. ASSUME NEW x \in InstanceIDs \cup Hosts \cup {None}, NEW n, n = [m EXCEPT !.endpoint = x]
      PROVE  n \in Clusters /\ Rest(n, m, {"endpoint"}) /\ n.endpoint = x
  <2>1. Whole(n) /\ Rest(n, m, {"endpoint"}) /\ n.endpoint = x
    BY <1>2, SetField DEF Fields
  <2>2. Typed(n)
    BY <1>2, <2>1, Zenon DEF Typed, Rest, Fields
  <2> QED BY <2>1, <2>2, Shape, Zenon
<1>3. ASSUME NEW x \in LiveStatus \cup {"none"}, NEW n, n = [m EXCEPT !.delReq = x]
      PROVE  n \in Clusters /\ Rest(n, m, {"delReq"}) /\ n.delReq = x
  <2>1. Whole(n) /\ Rest(n, m, {"delReq"}) /\ n.delReq = x
    BY <1>3, SetField DEF Fields
  <2>2. Typed(n)
    BY <1>3, <2>1, Zenon DEF Typed, Rest, Fields
  <2> QED BY <2>1, <2>2, Shape, Zenon
<1>4. ASSUME NEW x \in ScriptIDs \cup {None}, NEW n, n = [m EXCEPT !.scriptID = x]
      PROVE  n \in Clusters /\ Rest(n, m, {"scriptID"}) /\ n.scriptID = x
  <2>1. Whole(n) /\ Rest(n, m, {"scriptID"}) /\ n.scriptID = x
    BY <1>4, SetField DEF Fields
  <2>2. Typed(n)
    BY <1>4, <2>1, Zenon DEF Typed, Rest, Fields
  <2> QED BY <2>1, <2>2, Shape, Zenon
<1> QED BY <1>2, <1>3, <1>4, Zenon

WithInstance(m, i, s) == [m EXCEPT !.instanceID = i, !.scriptID = s]

\* RecordInstance and RemoveSecret set the instance and its script.
LEMMA SetInstance ==
    ASSUME NEW m \in Clusters, NEW i \in InstanceIDs \cup {None}, NEW s \in ScriptIDs \cup {None},
           NEW n, n = WithInstance(m, i, s)
    PROVE  /\ n \in Clusters /\ Rest(n, m, {"instanceID", "scriptID"})
           /\ n.instanceID = i /\ n.scriptID = s
<1> USE DEF WithInstance
<1> Whole(m) /\ Typed(m)
  BY Shape, Zenon
<1>2. Whole(n)
  BY Zenon DEF Whole, Fields
<1>3. Rest(n, m, {"instanceID", "scriptID"})
  BY Zenon DEF Whole, Rest, Fields
<1>4. n.instanceID = i /\ n.scriptID = s
  BY Zenon DEF Whole, Fields
<1>5. Typed(n)
  BY <1>3, <1>4, Zenon DEF Typed, Rest, Fields
<1> QED BY <1>2, <1>3, <1>4, <1>5, Shape, Zenon

WithEndpoint(m, e) == [m EXCEPT !.endpoint = e, !.ready = TRUE, !.provisioned = TRUE]

\* reconcileEndpoint sets the endpoint and reports it.
LEMMA SetEndpoint ==
    ASSUME NEW m \in Clusters, NEW e \in InstanceIDs \cup Hosts \cup {None},
           NEW n, n = WithEndpoint(m, e)
    PROVE  /\ n \in Clusters /\ Rest(n, m, {"endpoint", "ready", "provisioned"})
           /\ n.endpoint = e /\ n.ready /\ n.provisioned
<1> USE DEF WithEndpoint
<1> Whole(m) /\ Typed(m)
  BY Shape, Zenon
<1>2. Whole(n)
  BY Zenon DEF Whole, Fields
<1>3. Rest(n, m, {"endpoint", "ready", "provisioned"})
  BY Zenon DEF Whole, Rest, Fields
<1>4. n.endpoint = e /\ n.ready = TRUE /\ n.provisioned = TRUE
  BY Zenon DEF Whole, Fields
<1>5. Typed(n)
  BY <1>3, <1>4, Zenon DEF Typed, Rest, Fields
<1> QED BY <1>2, <1>3, <1>4, <1>5, Shape, Zenon

WithBackends(m, b) == [m EXCEPT !.backends = b, !.ready = TRUE]

\* UpdateBackends sets the backends and the condition.
LEMMA SetBackends ==
    ASSUME NEW m \in Clusters, NEW b \in SUBSET Nodes,
           NEW n, n = WithBackends(m, b)
    PROVE  /\ n \in Clusters /\ Rest(n, m, {"backends", "ready"})
           /\ n.backends = b /\ n.ready
<1> USE DEF WithBackends
<1> Whole(m) /\ Typed(m)
  BY Shape, Zenon
<1>2. Whole(n)
  BY Zenon DEF Whole, Fields
<1>3. Rest(n, m, {"backends", "ready"})
  BY Zenon DEF Whole, Rest, Fields
<1>4. n.backends = b /\ n.ready = TRUE
  BY Zenon DEF Whole, Fields
<1>5. Typed(n)
  BY <1>3, <1>4, Zenon DEF Typed, Rest, Fields
<1> QED BY <1>2, <1>3, <1>4, <1>5, Shape, Zenon

\* A request of the patch writes the fields F that the reconcile has changed, and
\* an object whose last finalizer is removed goes away.
LEMMA PatchedFields ==
    ASSUME NEW F \in SUBSET (Fields \ {"exists"}), mem \in Clusters, obj \in Clusters, base \in Clusters,
           NEW n, n = Patched(F)
    PROVE  /\ n \in Clusters
           /\ \A f \in F : n[f] = (IF mem[f] # base[f] THEN mem[f] ELSE obj[f])
           /\ Rest(n, obj, F \cup {"exists"})
           /\ n.exists = (n.finalizer \/ ~n.deleting)
<1> DEFINE o == [f \in Fields |-> IF f \in F /\ mem[f] # base[f] THEN mem[f] ELSE obj[f]]
<1>1. DOMAIN obj = Fields /\ Typed(obj) /\ Typed(mem)
  BY Shape, Zenon DEF Clusters, Fields
<1>2. Whole(o) /\ Typed(o)
  BY <1>1 DEF Whole, Typed, Fields
<1>3. PICK x \in BOOLEAN : x = (o.finalizer \/ ~o.deleting)
  BY <1>2, Zenon DEF Typed
<1>4. n = [o EXCEPT !.exists = x]
  BY <1>1, <1>3, Zenon DEF Patched
<1> HIDE DEF o
<1>5. o \in Clusters
  BY <1>2, Shape, Zenon
<1> n \in Clusters /\ Rest(n, o, {"exists"}) /\ n.exists = x
  BY <1>4, <1>5, SetFlag
<1>7. \A f \in F : n[f] = (IF mem[f] # base[f] THEN mem[f] ELSE obj[f])
  BY Zenon DEF Rest, o
<1>8. Rest(n, obj, F \cup {"exists"})
  BY Zenon DEF Rest, o
<1>9. n.exists = (n.finalizer \/ ~n.deleting)
  BY <1>3, Zenon DEF Rest, Fields
<1> QED BY <1>7, <1>8, <1>9, Zenon

-----------------------------------------------------------------------------
(* The calls of the client and the moves of the cloud: only                *)
(* Instances.Create makes an instance live.                                *)

NoneBorn == \A i \in InstanceIDs : /\ istatus'[i] \in LiveStatus => istatus[i] \in LiveStatus
                                   /\ istatus[i] = "none" <=> istatus'[i] = "none"

CloudKeeps == CloudTypeOK' /\ NoneBorn

\* A step that leaves the cloud alone makes nothing live.
LEMMA IdleKeeps == ASSUME CloudTypeOK, UNCHANGED cloudVars PROVE CloudKeeps
BY Zenon DEF CloudTypeOK, cloudVars, CloudKeeps, NoneBorn

\* Deleting or adding startup scripts makes nothing live.
LEMMA ScriptsKeep ==
    ASSUME CloudTypeOK, (\E S : DeleteScripts(S)) \/ (\E s \in ScriptIDs : AddStartupScript(s)) PROVE CloudKeeps
BY Zenon DEF CloudTypeOK, DeleteScripts, AddStartupScript, CloudKeeps, NoneBorn

\* Purging the volumes of an instance makes nothing live.
LEMMA PurgeKeeps == ASSUME CloudTypeOK, NEW i, PurgeInstanceVolumes(i) PROVE CloudKeeps /\ UNCHANGED <<iscript, scripts>>
BY Zenon DEF CloudTypeOK, PurgeInstanceVolumes, VolumeStatus, CloudKeeps, NoneBorn

\* DeleteInstance, in each of its four cases, makes nothing live.
LEMMA DeleteInstanceKeeps ==
    ASSUME CloudTypeOK, NEW i \in InstanceIDs, DeleteInstance(i) PROVE CloudKeeps /\ UNCHANGED <<iscript, scripts>>
<1>1. CASE UNCHANGED cloudVars
  BY <1>1, IdleKeeps, Zenon DEF cloudVars
<1>2. CASE PurgeInstanceVolumes(i)
  BY <1>2, PurgeKeeps, Zenon
<1>3. CASE /\ istatus[i] = "offline"
           /\ istatus' = [istatus EXCEPT ![i] = "deleting"]
           /\ UNCHANGED <<ishut, iscript, ivol, scripts, vstatus, vmanaged>>
  BY <1>3, Zenon DEF CloudTypeOK, InstanceStatus, LiveStatus, CloudKeeps, NoneBorn
<1>4. CASE /\ ishut' = [ishut EXCEPT ![i] = TRUE]
           /\ UNCHANGED <<istatus, iscript, ivol, scripts, vstatus, vmanaged>>
  BY <1>4, Zenon DEF CloudTypeOK, CloudKeeps, NoneBorn
<1> QED BY <1>1, <1>2, <1>3, <1>4, Zenon DEF DeleteInstance

\* Instances.Create brings the instance it returns to life, and no other.
LEMMA CreateBears ==
    ASSUME CloudTypeOK, NEW i \in InstanceIDs, NEW s \in ScriptIDs \cup {None},
           NEW v \in VolumeIDs, NEW S, InstancesCreate(i, s, v, S)
    PROVE  /\ CloudTypeOK'
           /\ istatus[i] = "none" /\ istatus'[i] = "provisioning" /\ iscript'[i] = s
           /\ \A j \in InstanceIDs \ {i} : istatus'[j] = istatus[j] /\ iscript'[j] = iscript[j]
BY Zenon DEF CloudTypeOK, InstancesCreate, InstanceStatus, LiveStatus, VolumeStatus

\* No move of the cloud brings an instance back to life.
LEMMA CloudStepKeeps == ASSUME CloudTypeOK, CloudStep PROVE CloudKeeps /\ UNCHANGED <<iscript, scripts>>
<1>1. ASSUME NEW i \in InstanceIDs, InstanceMoves(i) PROVE CloudKeeps
  <2>1. PICK m \in Moves : istatus[i] = m[1] /\ istatus' = [istatus EXCEPT ![i] = m[2]]
    BY <1>1, Zenon DEF InstanceMoves
  <2>2. m[2] \in InstanceStatus /\ (m[2] \in LiveStatus => m[1] \in LiveStatus) /\ m[1] # "none" /\ m[2] # "none"
    BY DEF Moves, InstanceStatus, LiveStatus, GoneStatus
  <2> QED BY <1>1, <2>1, <2>2, Zenon DEF InstanceMoves, CloudTypeOK, CloudKeeps, NoneBorn
<1>2. ASSUME NEW i \in InstanceIDs, InstanceShutsDown(i) PROVE CloudKeeps
  BY <1>2, Zenon DEF InstanceShutsDown, CloudTypeOK, CloudKeeps, NoneBorn, InstanceStatus, LiveStatus
<1>3. ASSUME NEW i \in InstanceIDs, VolumeReleased(i) PROVE CloudKeeps
  BY <1>3 DEF VolumeReleased, CloudTypeOK, CloudKeeps, NoneBorn, VolumeStatus
<1>4. ASSUME NEW v \in VolumeIDs, CloneFinishes(v) \/ VolumeDeleted(v) PROVE CloudKeeps
  BY <1>4, Zenon DEF CloneFinishes, VolumeDeleted, CloudTypeOK, CloudKeeps, NoneBorn, VolumeStatus
<1>5. UNCHANGED <<iscript, scripts>>
  BY Zenon DEF CloudStep, InstanceMoves, InstanceShutsDown, VolumeReleased, CloneFinishes, VolumeDeleted
<1> QED BY <1>1, <1>2, <1>3, <1>4, <1>5, Zenon DEF CloudStep

-----------------------------------------------------------------------------
(* What each call of a reconcile does.                                     *)

Goes(next) == pc' = next /\ mem' = mem /\ queued' = queued

\* The call returns and asks for another reconcile.
GivesUp == /\ pc' = "patchConditions" /\ queued' = TRUE
           /\ mem' \in Clusters /\ Rest(mem', mem, {"ready"}) /\ (mem'.ready => mem.ready)

Calls == Fault \/ NoFault

\* A call that returns early gives up.
LEMMA ReturnGivesUp ==
    ASSUME mem \in Clusters, Return(mem, TRUE) \/ Return(NotReady(mem), TRUE) PROVE GivesUp
<1>1. CASE Return(mem, TRUE)
  BY <1>1, Zenon DEF Return, GivesUp, Rest
<1>2. CASE Return(NotReady(mem), TRUE)
  <2>1. NotReady(mem) \in Clusters /\ Rest(NotReady(mem), mem, {"ready"}) /\ NotReady(mem).ready = FALSE
    BY NotReadyFields, Zenon
  <2> QED BY <1>2, <2>1, Zenon DEF Return, GivesUp
<1> QED BY <1>1, <1>2, Zenon

\* ensureKeys reads the keys or stores new ones.
LEMMA KeysEffect ==
    ASSUME TypeOK, ensureKeys
    PROVE  /\ pc = "keys" /\ Inside /\ Calls /\ UNCHANGED <<cloudVars, found, script, conf, secret, ikeys>>
           /\ UNCHANGED <<keySecret, made>> \/ (keySecret = 0 /\ keySecret' = made + 1 /\ made' = made + 1)
           /\ \/ Goes("find") /\ keys' = keySecret' /\ keySecret' # 0
              \/ GivesUp /\ UNCHANGED keys
<1>1. mem \in Clusters /\ made \in Nat
  BY DEF TypeOK
<1>2. ReturnError(mem) => GivesUp /\ Fault
  BY <1>1, ReturnGivesUp, Zenon DEF ReturnError
<1> QED BY <1>1, <1>2 DEF ensureKeys, Generated, Continue, Goes, Calls

\* instanceGone tells the states in which an instance is not alive.
LEMMA GoneIsNotLive == \A st \in ReportedStatus : instanceGone(st) <=> st \notin LiveStatus
BY Zenon DEF ReportedStatus, instanceGone, LiveStatus, GoneStatus

\* What findLoadBalancer answers: the instance the status names, in the state it
\* is in, or one with the tag; and it answers that there is none, or one that is
\* gone, by tag only if none is alive.
LEMMA FindAnswer ==
    ASSUME TypeOK, NEW r \in findLoadBalancer
    PROVE  /\ r \in [id: InstanceIDs \cup {None}, status: ReportedStatus]
           /\ r.id = None => r.status = "notfound" /\ mem.instanceID = None
           /\ mem.instanceID # None => r.id = mem.instanceID
           /\ mem.instanceID = None /\ r.id # None => istatus[r.id] # "none"
           /\ mem.instanceID = None /\ r.status \notin LiveStatus => NoLive
           /\ r.id # None => (r.status \in LiveStatus <=> Live(r.id))
           /\ mem.instanceID = None /\ r.id # None => role = "lb" \/ r.status \in LiveStatus
<1> /\ mem.instanceID \in InstanceIDs \cup {None} /\ None \notin InstanceIDs
    /\ istatus \in [InstanceIDs -> InstanceStatus]
  BY NoneAssumption, Zenon DEF TypeOK, Clusters, CloudTypeOK
<1>2. CASE mem.instanceID # None
  <2>1. r = [id |-> mem.instanceID, status |-> GetInstance(mem.instanceID)]
    BY <1>2, Zenon DEF findLoadBalancer, ByID
  <2>2. GetInstance(mem.instanceID) \in ReportedStatus
    BY <1>2, Zenon DEF GetInstance, ReportedStatus, InstanceStatus
  <2>3. GetInstance(mem.instanceID) \in LiveStatus <=> istatus[mem.instanceID] \in LiveStatus
    BY <1>2, Zenon DEF GetInstance, LiveStatus
  <2> QED BY <1>2, <2>1, <2>2, <2>3, Zenon DEF Live
<1>3. CASE mem.instanceID = None /\ FindInstanceByTag = {}
  <2>1. r = NoInstance
    BY <1>3, Zenon DEF findLoadBalancer, ByTag
  <2>2. NoLive
    BY <1>3, Zenon DEF FindInstanceByTag, Listed, LiveStatus, NoLive, Live
  <2> QED BY <1>3, <2>1, <2>2, Zenon DEF NoInstance, ReportedStatus
<1>4. CASE mem.instanceID = None /\ FindInstanceByTag # {}
  <2>1. PICK i \in FindInstanceByTag : \/ /\ r = [id |-> i, status |-> istatus[i]]
                                          /\ role = "lb" \/ ~instanceGone(istatus[i])
                                       \/ instanceGone(istatus[i]) /\ r = NoInstance
    <3>1. ByTag # {}
      BY <1>4, Zenon DEF ByTag
    <3>2. PICK q \in ByTag : \/ r = q /\ (role = "lb" \/ ~instanceGone(q.status))
                             \/ instanceGone(q.status) /\ r = NoInstance
      BY <1>4, <3>1, Zenon DEF findLoadBalancer
    <3>3. PICK i \in FindInstanceByTag : q = [id |-> i, status |-> istatus[i]]
      BY Zenon DEF ByTag
    <3>4. q.status = istatus[i]
      BY <3>3, Zenon
    <3> QED BY <3>2, <3>3, <3>4, Zenon
  <2>2. i \in InstanceIDs /\ istatus[i] \in ReportedStatus /\ istatus[i] # "none"
    BY Zenon DEF FindInstanceByTag, Listed, ReportedStatus, GoneStatus, LiveStatus
  <2>3. ~Live(i) => NoLive
    <3>1. ASSUME NEW j \in InstanceIDs, Live(j) PROVE Live(i)
      <4>1. j \in Listed /\ istatus[j] # "discontinued"
        BY <3>1, Zenon DEF Listed, Live, LiveStatus
      <4>2. i \in Listed /\ istatus[i] # "discontinued"
        BY <4>1, Zenon DEF FindInstanceByTag
      <4> QED BY <4>2, Zenon DEF Listed, Live
    <3> QED BY <3>1, Zenon DEF NoLive
  <2>4. instanceGone(istatus[i]) <=> ~Live(i)
    BY <2>2, GoneIsNotLive, Zenon DEF Live
  <2>5. CASE r = [id |-> i, status |-> istatus[i]] /\ (role = "lb" \/ Live(i))
    BY <1>4, <2>2, <2>3, <2>5, Zenon DEF Live
  <2>6. CASE ~Live(i) /\ r = NoInstance
    BY <1>4, <2>3, <2>6, Zenon DEF NoInstance, ReportedStatus
  <2> QED BY <2>1, <2>4, <2>5, <2>6, Zenon
<1> QED BY <1>2, <1>3, <1>4, Zenon

\* FindInstance.
LEMMA FindEffect ==
    ASSUME TypeOK, FindInstance
    PROVE  /\ pc = "find" /\ Inside /\ Calls /\ KeepsKeys /\ UNCHANGED <<cloudVars, script, conf, secret>>
           /\ \/ \E r \in findLoadBalancer :
                   found' = r /\ NoFault /\ (IF r.id # None THEN Goes("record") ELSE Goes("script"))
              \/ GivesUp /\ UNCHANGED found
<1>1. mem \in Clusters
  BY Zenon DEF TypeOK
<1>2. ReturnError(mem) => GivesUp /\ Fault
  BY <1>1, ReturnGivesUp, Zenon DEF ReturnError
<1> QED BY <1>1, <1>2, Zenon DEF FindInstance, Continue, Goes, Calls

\* CreateInstance of the client handles the startup script first.
LEMMA ScriptEffect ==
    ASSUME TypeOK, CreateRemovesScripts \/ CreateAddsScript
    PROVE  /\ Inside /\ Calls /\ KeepsKeys /\ UNCHANGED <<istatus, iscript, found, conf, secret>> /\ CloudKeeps
           /\ script' \in ScriptIDs \cup {None}
           /\ \/ pc = "script" /\ Goes("addScript") /\ DeleteScripts(Present) /\ UNCHANGED script
              \/ /\ pc = "addScript" /\ Goes("create")
                 /\ \E s \in ScriptIDs : AddStartupScript(s) /\ script' = s
              \/ pc \in {"script", "addScript"} /\ GivesUp
                 /\ (UNCHANGED scripts \/ faults' # faults)
<1> mem \in Clusters /\ CloudTypeOK /\ script \in ScriptIDs \cup {None} /\ faults \in Nat
  BY DEF TypeOK
<1>2. CASE CreateRemovesScripts
  <2>1. CASE DeleteScripts(Present) /\ NoFault /\ Continue("addScript", mem)
    <3>1. CloudKeeps
      BY <2>1, ScriptsKeep, Zenon
    <3> QED BY <1>2, <2>1, <3>1, Zenon DEF CreateRemovesScripts, Continue, Goes, Calls, DeleteScripts
  <2>2. CASE \E S \in SUBSET Present : DeleteScripts(S) /\ ReturnError(NotReady(mem))
    <3>1. CloudKeeps
      BY <2>2, ScriptsKeep, Zenon
    <3>2. GivesUp /\ Fault
      BY <2>2, ReturnGivesUp, Zenon DEF ReturnError
    <3> QED BY <1>2, <2>2, <3>1, <3>2 DEF CreateRemovesScripts, Calls, DeleteScripts, Fault
  <2>3. CASE NoFault /\ Return(NotReady(mem), TRUE) /\ UNCHANGED cloudVars
    <3>1. CloudKeeps
      BY <2>3, IdleKeeps, Zenon
    <3>2. GivesUp
      BY <2>3, ReturnGivesUp, Zenon
    <3> QED BY <1>2, <2>3, <3>1, <3>2, Zenon DEF CreateRemovesScripts, Calls, cloudVars
  <2>4. PICK blocked : RemoveOldScripts(blocked)
    BY <1>2, Zenon DEF CreateRemovesScripts
  <2> QED BY <2>1, <2>2, <2>3, <2>4, Zenon DEF RemoveOldScripts
<1>3. CASE CreateAddsScript
  <2>1. CASE \E s \in ScriptIDs : AddStartupScript(s) /\ script' = s /\ NoFault /\ Continue("create", mem)
    <3>1. CloudKeeps
      BY <2>1, ScriptsKeep, Zenon
    <3> QED BY <1>3, <2>1, <3>1, Zenon DEF CreateAddsScript, Continue, Goes, Calls, AddStartupScript
  <2>2. CASE \E s \in ScriptIDs : AddStartupScript(s) /\ UNCHANGED script /\ ReturnError(NotReady(mem))
    <3>1. CloudKeeps
      BY <2>2, ScriptsKeep, Zenon
    <3>2. GivesUp /\ Fault
      BY <2>2, ReturnGivesUp, Zenon DEF ReturnError
    <3> QED BY <1>3, <2>2, <3>1, <3>2 DEF CreateAddsScript, Calls, AddStartupScript, Fault
  <2>3. CASE Calls /\ Return(NotReady(mem), TRUE) /\ UNCHANGED <<cloudVars, script>>
    <3>1. CloudKeeps
      BY <2>3, IdleKeeps, Zenon
    <3>2. GivesUp
      BY <2>3, ReturnGivesUp, Zenon
    <3> QED BY <1>3, <2>3, <3>1, <3>2, Zenon DEF CreateAddsScript, cloudVars
  <2> QED BY <1>3, <2>1, <2>2, <2>3, Zenon DEF CreateAddsScript, AddScript, Calls
<1> QED BY <1>2, <1>3, Zenon

Born(i) == /\ istatus[i] = "none" /\ istatus'[i] = "provisioning" /\ iscript'[i] = script
           /\ \A j \in InstanceIDs \ {i} : istatus'[j] = istatus[j] /\ iscript'[j] = iscript[j]

\* Instances.Create creates one instance, which is found or, if the reply is
\* lost, is not; or it creates none.
LEMMA CreateEffect ==
    ASSUME TypeOK, CreateInstance
    PROVE  /\ pc = "create" /\ Inside /\ Calls /\ UNCHANGED <<script, keys, conf, secret, keySecret, made>>
           /\ CloudTypeOK'
           /\ ikeys' = [i \in InstanceIDs |-> IF istatus[i] = "none" /\ istatus'[i] # "none" THEN keys ELSE ikeys[i]]
           /\ \/ \E i \in InstanceIDs : /\ Born(i) /\ found' = [id |-> i, status |-> "provisioning"]
                                        /\ Goes("record") /\ UNCHANGED scripts
              \/ (\E i \in InstanceIDs : Born(i)) /\ UNCHANGED found /\ GivesUp /\ Fault
              \/ UNCHANGED <<istatus, iscript, found>> /\ GivesUp /\ (Fault \/ DeleteScripts({script}))
<1> mem \in Clusters /\ CloudTypeOK /\ script \in ScriptIDs \cup {None}
  BY Zenon DEF TypeOK
<1> DEFINE V == {v \in VolumeIDs : vstatus[v] = "none"}
<1>2. CASE \E i \in InstanceIDs, v \in V : /\ InstancesCreate(i, script, v, {})
                                           /\ found' = [id |-> i, status |-> "provisioning"]
                                           /\ NoFault /\ Continue("record", mem)
  <2>1. PICK i \in InstanceIDs, v \in V : /\ InstancesCreate(i, script, v, {})
                                          /\ found' = [id |-> i, status |-> "provisioning"]
                                          /\ NoFault /\ Continue("record", mem)
    BY <1>2, Zenon
  <2>2. CloudTypeOK' /\ Born(i)
    BY <2>1, CreateBears, Zenon DEF Born
  <2>3. UNCHANGED scripts
    BY <2>1, Zenon DEF InstancesCreate, CloudTypeOK
  <2>4. Goes("record") /\ Calls
    BY <2>1, Zenon DEF Goes, Continue, Calls
  <2> QED BY <2>1, <2>2, <2>3, <2>4, Zenon DEF CreateInstance
<1>3. CASE \E i \in InstanceIDs, v \in V, S \in SUBSET {script} :
              InstancesCreate(i, script, v, S) /\ UNCHANGED found /\ ReturnError(NotReady(mem))
  <2>1. PICK i \in InstanceIDs, v \in V, S \in SUBSET {script} :
              InstancesCreate(i, script, v, S) /\ UNCHANGED found /\ ReturnError(NotReady(mem))
    BY <1>3, Zenon
  <2>2. CloudTypeOK' /\ Born(i)
    BY <2>1, CreateBears, Zenon DEF Born
  <2>3. GivesUp /\ Fault /\ Calls
    BY <2>1, ReturnGivesUp, Zenon DEF ReturnError, Calls
  <2> QED BY <2>1, <2>2, <2>3, Zenon DEF CreateInstance
<1>4. CASE /\ \E S : DeleteScripts(S) /\ (Fault \/ (NoFault /\ S = {script}))
           /\ UNCHANGED found /\ Return(NotReady(mem), TRUE)
  <2>1. GivesUp
    BY <1>4, ReturnGivesUp, Zenon
  <2>2. CloudTypeOK'
    BY <1>4, ScriptsKeep, Zenon DEF CloudKeeps
  <2>3. UNCHANGED <<istatus, iscript>> /\ Calls /\ (Fault \/ DeleteScripts({script}))
    BY <1>4, Zenon DEF DeleteScripts, Calls
  <2> QED BY <1>4, <2>1, <2>2, <2>3, Zenon DEF CreateInstance
<1>5. \/ \E i \in InstanceIDs, v \in V : /\ InstancesCreate(i, script, v, {})
                                         /\ found' = [id |-> i, status |-> "provisioning"]
                                         /\ NoFault /\ Continue("record", mem)
      \/ \E i \in InstanceIDs, v \in V, S \in SUBSET {script} :
              InstancesCreate(i, script, v, S) /\ UNCHANGED found /\ ReturnError(NotReady(mem))
      \/ /\ \E S : DeleteScripts(S) /\ (Fault \/ (NoFault /\ S = {script}))
         /\ UNCHANGED found /\ Return(NotReady(mem), TRUE)
  BY Zenon DEF CreateInstance, Instantiate
<1> HIDE DEF V
<1> QED BY <1>2, <1>3, <1>4, <1>5, Zenon

\* RecordInstance notes the instance and its script, and goes on if it is running.
LEMMA RecordEffect ==
    ASSUME TypeOK, RecordInstance
    PROVE  /\ pc = "record" /\ Inside /\ Calls /\ KeepsKeys /\ UNCHANGED <<cloudVars, found, script, conf, secret>>
           /\ mem' \in Clusters /\ Rest(mem', mem, {"instanceID", "scriptID", "endpoint", "ready"})
           /\ mem'.instanceID = found.id
           /\ mem'.scriptID \in {mem.scriptID, iscript[found.id]}
           /\ \/ pc' = "patchConditions" /\ ~mem'.ready /\ mem'.endpoint = mem.endpoint /\ queued' \in BOOLEAN
                 /\ (queued => queued')
              \/ /\ pc' = "backends" /\ role = "lb" /\ mem'.endpoint = found.id /\ mem'.ready = mem.ready
                 /\ queued' = queued
              \/ /\ pc' = "publish" /\ role # "lb" /\ mem'.endpoint = mem.endpoint /\ mem'.ready = mem.ready
                 /\ queued' = queued
<1> /\ mem \in Clusters /\ pc = "record" /\ found.id \in InstanceIDs /\ queued \in BOOLEAN
    /\ iscript[found.id] \in ScriptIDs \cup {None} /\ mem.scriptID \in ScriptIDs \cup {None}
  BY Zenon DEF TypeOK, CloudTypeOK, Clusters, RecordInstance
<1>2. PICK s : s = IF found.status # "notfound" /\ iscript[found.id] # None THEN iscript[found.id] ELSE mem.scriptID
  BY Zenon
<1>3. PICK m : m = WithInstance(mem, found.id, s)
  BY Zenon
<1>4. m \in Clusters /\ Rest(m, mem, {"instanceID", "scriptID"}) /\ m.instanceID = found.id /\ m.scriptID = s
  <2>1. s \in ScriptIDs \cup {None} /\ found.id \in InstanceIDs \cup {None}
    BY <1>2, Zenon
  <2> QED BY <1>3, <2>1, SetInstance
<1>5. PICK again \in BOOLEAN : again = ~(instanceGone(found.status) \/ found.status \in {"error", "no_capacity"})
  BY Zenon DEF instanceGone
<1>6. \/ Return(NotReady(m), again)
      \/ role = "lb" /\ Continue("backends", [m EXCEPT !.endpoint = found.id])
      \/ role # "lb" /\ Continue("publish", m)
  BY <1>2, <1>3, <1>5, Zenon DEF WithInstance, RecordInstance
<1> /\ Inside /\ Calls /\ KeepsKeys /\ UNCHANGED <<cloudVars, found, script, conf, secret>>
  BY Zenon DEF RecordInstance, Calls
<1>8. CASE Return(NotReady(m), again)
  <2>1. mem' = NotReady(m) /\ pc' = "patchConditions" /\ queued' = (queued \/ again)
    BY <1>8, Zenon DEF Return
  <2>2. NotReady(m) \in Clusters /\ Rest(NotReady(m), m, {"ready"}) /\ NotReady(m).ready = FALSE
    BY <1>4, NotReadyFields, Zenon
  <2> HIDE DEF NotReady
  <2> QED BY <1>2, <1>4, <2>1, <2>2, Zenon DEF Rest, Fields
<1>9. CASE role = "lb" /\ Continue("backends", [m EXCEPT !.endpoint = found.id])
  <2>1. pc' = "backends" /\ queued' = queued
    BY <1>9, Zenon DEF Continue
  <2>2. mem' \in Clusters /\ Rest(mem', m, {"endpoint"}) /\ mem'.endpoint = found.id
    BY <1>4, <1>9, SetOthers, Zenon DEF Continue
  <2> QED BY <1>2, <1>4, <1>9, <2>1, <2>2, Zenon DEF Rest, Fields
<1>10. CASE role # "lb" /\ Continue("publish", m)
  <2>1. pc' = "publish" /\ queued' = queued /\ mem' = m
    BY <1>10, Zenon DEF Continue
  <2> QED BY <1>2, <1>4, <1>10, <2>1, Zenon DEF Rest, Fields
<1> QED BY <1>6, <1>8, <1>9, <1>10, Zenon

\* UpdateBackends always asks for another reconcile; it reports the backends only
\* when it has set them or they were set.
LEMMA BackendsEffect ==
    ASSUME TypeOK, UpdateBackends
    PROVE  /\ pc = "backends" /\ Inside /\ Calls /\ KeepsKeys /\ UNCHANGED <<cloudVars, found, script, secret>>
           /\ pc' = "patchConditions" /\ queued' = TRUE
           /\ mem' \in Clusters /\ Rest(mem', mem, {"backends", "ready", "provisioned"})
           /\ conf' \in [InstanceIDs -> SUBSET Nodes]
<1> /\ mem \in Clusters /\ found.id \in InstanceIDs /\ want \in SUBSET Nodes
    /\ conf \in [InstanceIDs -> SUBSET Nodes]
  BY Zenon DEF TypeOK, UpdateBackends
<1>2. PICK m : m = [mem EXCEPT !.provisioned = TRUE]
  BY Zenon
<1> m \in Clusters /\ Rest(m, mem, {"provisioned"})
  BY <1>2, SetFlag, Zenon
<1>4. PICK n : n = [m EXCEPT !.ready = TRUE]
  BY Zenon
<1>5. n \in Clusters /\ Rest(n, m, {"ready"})
  BY <1>4, SetFlag, Zenon
<1>6. PICK b : b = WithBackends(m, want)
  BY Zenon
<1>7. b \in Clusters /\ Rest(b, m, {"backends", "ready"})
  BY <1>6, SetBackends, Zenon
<1>8. NotReady(m) \in Clusters /\ Rest(NotReady(m), m, {"ready"})
  BY NotReadyFields, Zenon
<1> /\ Calls /\ (conf' = conf \/ conf' = [conf EXCEPT ![found.id] = want])
    /\ Return(n, TRUE) \/ Return(b, TRUE) \/ Return(NotReady(m), TRUE) \/ Return(mem, TRUE)
  BY <1>2, <1>4, <1>6, Zenon DEF WithBackends, UpdateBackends, ReturnError, Calls
<1>10. pc' = "patchConditions" /\ queued' = TRUE /\ mem' \in {n, b, NotReady(m), mem}
  BY Zenon DEF Return
<1>11. mem' \in Clusters /\ Rest(mem', mem, {"backends", "ready", "provisioned"})
  BY <1>5, <1>7, <1>8, <1>10, Zenon DEF Rest
<1>12. conf' \in [InstanceIDs -> SUBSET Nodes]
  BY Zenon
<1> QED BY <1>10, <1>11, <1>12, Zenon DEF UpdateBackends

\* PublishSecret: the condition is set only when the Secret was written.
LEMMA PublishEffect ==
    ASSUME TypeOK, PublishSecret
    PROVE  /\ pc = "publish" /\ Inside /\ Calls /\ KeepsKeys /\ UNCHANGED <<cloudVars, found, script, conf>>
           /\ secret' \in {secret, [id |-> found.id, keys |-> keys]}
           /\ \/ /\ pc' = "patchConditions" /\ queued' = queued /\ mem' \in Clusters /\ Rest(mem', mem, {"ready"})
                 /\ secret' = [id |-> found.id, keys |-> keys]
              \/ GivesUp
<1> mem \in Clusters /\ queued \in BOOLEAN
  BY Zenon DEF TypeOK
<1>2. PICK n : n = [mem EXCEPT !.ready = TRUE]
  BY Zenon
<1>3. n \in Clusters /\ Rest(n, mem, {"ready"})
  BY <1>2, SetFlag, Zenon
<1>4. PICK d : d = [id |-> found.id, keys |-> keys]
  BY Zenon
<1>5. \/ NoFault /\ secret' = d /\ Return(n, FALSE)
      \/ ReturnError(NotReady(mem)) /\ secret' \in {secret, d}
  BY <1>2, <1>4, Zenon DEF PublishSecret
<1>6. ReturnError(NotReady(mem)) => GivesUp /\ Fault
  BY ReturnGivesUp, Zenon DEF ReturnError
<1>7. Return(n, FALSE) => pc' = "patchConditions" /\ queued' = queued /\ mem' = n
  BY Zenon DEF Return
<1>8. Calls
  BY <1>5, <1>6, Zenon DEF Calls
<1> QED BY <1>3, <1>4, <1>5, <1>6, <1>7, <1>8, Zenon DEF PublishSecret

\* DeleteFindsInstance looks the instance up and decides on a delete request.
LEMMA DeleteFindEffect ==
    ASSUME TypeOK, NEW elapsed \in BOOLEAN, DeleteFindsInstance(elapsed)
    PROVE  /\ pc = "delFind" /\ Inside /\ Calls /\ KeepsKeys /\ UNCHANGED <<cloudVars, script, conf, secret>>
           /\ \/ \E r \in findLoadBalancer :
                   /\ found' = r
                   /\ \/ r.status \notin LiveStatus /\ r.status = "notfound" /\ Goes("delScript")
                      \/ r.status \notin LiveStatus /\ r.status # "notfound" /\ Goes("purge")
                      \/ /\ r.status \in LiveStatus /\ pc' = "delInstance" /\ queued' = queued
                         /\ mem' \in Clusters /\ Rest(mem', mem, {"delReq"})
                      \/ r.status \in LiveStatus /\ GivesUp
              \/ GivesUp /\ UNCHANGED found
<1> mem \in Clusters
  BY Zenon DEF TypeOK
<1>2. ReturnError(mem) => GivesUp /\ Fault
  BY ReturnGivesUp, Zenon DEF ReturnError
<1>3. /\ pc = "delFind" /\ Inside /\ KeepsKeys /\ UNCHANGED <<cloudVars, script, conf, secret>>
  BY Zenon DEF DeleteFindsInstance
<1>4. CASE ReturnError(mem) /\ UNCHANGED found
  BY <1>2, <1>3, <1>4, Zenon DEF Calls
<1>5. ASSUME NoFault, NEW r \in findLoadBalancer, found' = r,
             IF instanceGone(r.status)
             THEN Continue(IF r.status = "notfound" THEN "delScript" ELSE "purge", mem)
             ELSE IF r.status # "deleting" /\ DeleteRequestDue(r.status, elapsed)
                  THEN Continue("delInstance", [mem EXCEPT !.delReq = r.status])
                  ELSE Return(mem, TRUE)
      PROVE  /\ Calls
             /\ \/ r.status \notin LiveStatus /\ r.status = "notfound" /\ Goes("delScript")
                \/ r.status \notin LiveStatus /\ r.status # "notfound" /\ Goes("purge")
                \/ /\ r.status \in LiveStatus /\ pc' = "delInstance" /\ queued' = queued
                   /\ mem' \in Clusters /\ Rest(mem', mem, {"delReq"})
                \/ r.status \in LiveStatus /\ GivesUp
  <2>1. r.status \in ReportedStatus /\ (instanceGone(r.status) <=> r.status \notin LiveStatus)
    BY FindAnswer, GoneIsNotLive, Zenon
  <2>2. CASE r.status \notin LiveStatus
    BY <1>5, <2>1, <2>2, Zenon DEF Continue, Goes, Calls
  <2>3. CASE r.status \in LiveStatus /\ Return(mem, TRUE)
    BY <1>5, <2>3, ReturnGivesUp, Zenon DEF Calls
  <2>4. CASE r.status \in LiveStatus /\ Continue("delInstance", [mem EXCEPT !.delReq = r.status])
    <3>1. mem' \in Clusters /\ Rest(mem', mem, {"delReq"})
      BY <2>4, SetOthers, Zenon DEF Continue
    <3> QED BY <1>5, <2>4, <3>1, Zenon DEF Continue, Calls
  <2> QED BY <1>5, <2>1, <2>2, <2>3, <2>4, Zenon
<1> QED BY <1>3, <1>4, <1>5, Zenon DEF DeleteFindsInstance

\* DeleteRequestsInstance always comes back later.
LEMMA DeleteRequestEffect ==
    ASSUME TypeOK, DeleteRequestsInstance
    PROVE  /\ pc = "delInstance" /\ Inside /\ Calls /\ KeepsKeys /\ UNCHANGED <<found, script, conf, secret, iscript, scripts>>
           /\ CloudKeeps /\ GivesUp
<1> mem \in Clusters /\ CloudTypeOK /\ found.id \in InstanceIDs /\ pc = "delInstance"
  BY Zenon DEF TypeOK, DeleteRequestsInstance
<1> Calls /\ (Return(NotReady(mem), TRUE) \/ Return(mem, TRUE)) /\ (UNCHANGED cloudVars \/ DeleteInstance(found.id))
  BY Zenon DEF DeleteRequestsInstance, RequestDelete, ReturnError, Calls
<1>3. CloudKeeps /\ UNCHANGED <<iscript, scripts>>
  BY IdleKeeps, DeleteInstanceKeeps, Zenon DEF cloudVars
<1>4. GivesUp
  BY ReturnGivesUp, Zenon
<1> QED BY <1>3, <1>4, Zenon DEF DeleteRequestsInstance

\* DeletePurgesVolumes goes on when no volume is pending.
LEMMA PurgeEffect ==
    ASSUME TypeOK, DeletePurgesVolumes
    PROVE  /\ pc = "purge" /\ Inside /\ Calls /\ KeepsKeys /\ UNCHANGED <<found, script, conf, secret, iscript, scripts>>
           /\ CloudKeeps /\ (GivesUp \/ Goes("delScript"))
<1>1. mem \in Clusters /\ CloudTypeOK
  BY Zenon DEF TypeOK
<1> /\ Calls /\ (Continue("delScript", mem) \/ Return(mem, TRUE))
    /\ UNCHANGED cloudVars \/ PurgeInstanceVolumes(found.id)
  BY Zenon DEF DeletePurgesVolumes, PurgeVolumes, ReturnError, Calls
<1>3. CloudKeeps /\ UNCHANGED <<iscript, scripts>>
  BY <1>1, IdleKeeps, PurgeKeeps, Zenon DEF cloudVars
<1>4. GivesUp \/ Goes("delScript")
  BY <1>1, ReturnGivesUp, Zenon DEF Continue, Goes
<1> QED BY <1>3, <1>4, Zenon DEF DeletePurgesVolumes

ScriptsToDelete == IF mem.scriptID # None THEN {mem.scriptID} ELSE IF role = "user" THEN {} ELSE Present

\* DeleteScript is the last call for haproxy; for envoy it depends on why it is
\* deleted.
LEMMA DeleteScriptEffect ==
    ASSUME TypeOK, DeleteScript
    PROVE  /\ pc = "delScript" /\ Inside /\ Calls /\ KeepsKeys /\ UNCHANGED <<found, script, conf, secret, istatus, iscript>>
           /\ CloudKeeps
           /\ \/ GivesUp /\ mem' = mem /\ Fault
              \/ /\ queued' = queued /\ mem' \in Clusters /\ mem'.scriptID = None /\ DeleteScripts(ScriptsToDelete)
                 /\ \/ /\ role # "servicelb" /\ pc' = "patchConditions"
                       /\ Rest(mem', mem, {"scriptID", "finalizer"}) /\ ~mem'.finalizer
                    \/ /\ role = "servicelb" /\ pc' = (IF mem.deleting THEN "delOther" ELSE "unpublish")
                       /\ Rest(mem', mem, {"scriptID"})
<1> mem \in Clusters /\ CloudTypeOK /\ queued \in BOOLEAN
  BY Zenon DEF TypeOK
<1>2. PICK m : m = [mem EXCEPT !.scriptID = None]
  BY Zenon
<1> m \in Clusters /\ Rest(m, mem, {"scriptID"}) /\ m.scriptID = None
  BY <1>2, SetOthers, Zenon
<1>4. PICK n : n = [m EXCEPT !.finalizer = FALSE]
  BY Zenon
<1>5. n \in Clusters /\ Rest(n, m, {"finalizer"}) /\ n.finalizer = FALSE
  BY <1>4, SetFlag, Zenon
<1>6. \/ /\ NoFault /\ DeleteScripts(ScriptsToDelete)
         /\ \/ role # "servicelb" /\ Return(n, FALSE)
            \/ role = "servicelb" /\ Continue(IF mem.deleting THEN "delOther" ELSE "unpublish", m)
      \/ (\E T : DeleteScripts(T)) /\ ReturnError(mem)
  BY <1>2, <1>4, Zenon DEF DeleteScript, ScriptsToDelete
<1> CloudKeeps /\ UNCHANGED <<istatus, iscript>> /\ Calls
  BY <1>6, ScriptsKeep, Zenon DEF DeleteScripts, Calls, ReturnError
<1>8. ReturnError(mem) => GivesUp /\ mem' = mem /\ Fault
  BY ReturnGivesUp, Zenon DEF ReturnError, Return
<1> pc = "delScript" /\ Inside /\ KeepsKeys /\ UNCHANGED <<found, script, conf, secret>>
  BY Zenon DEF DeleteScript
<1>10. CASE NoFault /\ DeleteScripts(ScriptsToDelete) /\ role # "servicelb" /\ Return(n, FALSE)
  <2>1. pc' = "patchConditions" /\ queued' = queued /\ mem' = n
    BY <1>10, Zenon DEF Return
  <2>2. Rest(n, mem, {"scriptID", "finalizer"}) /\ n.scriptID = None
    BY <1>5, Zenon DEF Rest, Fields
  <2> QED BY <1>5, <1>10, <2>1, <2>2, Zenon
<1>11. CASE /\ NoFault /\ DeleteScripts(ScriptsToDelete)
            /\ role = "servicelb" /\ Continue(IF mem.deleting THEN "delOther" ELSE "unpublish", m)
  BY <1>11, Zenon DEF Continue
<1> QED BY <1>6, <1>8, <1>10, <1>11, Zenon

\* DeleteOther waits for the other instance before it removes the finalizer.
LEMMA DeleteOtherEffect ==
    ASSUME TypeOK, DeleteOther
    PROVE  /\ pc = "delOther" /\ Inside /\ Calls /\ KeepsKeys /\ UNCHANGED <<cloudVars, found, script, conf, secret>>
           /\ \/ GivesUp
              \/ /\ queued' = queued /\ mem' \in Clusters /\ pc' = "patchConditions"
                 /\ Rest(mem', mem, {"finalizer"}) /\ ~mem'.finalizer
<1> mem \in Clusters /\ queued \in BOOLEAN
  BY DEF TypeOK
<1>2. PICK n : n = [mem EXCEPT !.finalizer = FALSE]
  BY Zenon
<1>3. n \in Clusters /\ Rest(n, mem, {"finalizer"}) /\ n.finalizer = FALSE
  BY <1>2, SetFlag, Zenon
<1>4. Calls /\ (Return(mem, TRUE) \/ Return(n, FALSE))
  BY <1>2, Zenon DEF DeleteOther, ReturnError, Calls
<1>5. Return(mem, TRUE) => GivesUp
  BY ReturnGivesUp, Zenon
<1>6. Return(n, FALSE) => pc' = "patchConditions" /\ queued' = queued /\ mem' = n
  BY DEF Return
<1> QED BY <1>3, <1>4, <1>5, <1>6, Zenon DEF DeleteOther

\* RemoveSecret forgets the instance that was switched off.
LEMMA UnpublishEffect ==
    ASSUME TypeOK, RemoveSecret
    PROVE  /\ pc = "unpublish" /\ Inside /\ Calls /\ KeepsKeys /\ UNCHANGED <<cloudVars, found, script, conf>>
           /\ secret' \in {secret, NoSecret}
           /\ queued' = queued /\ mem' \in Clusters /\ pc' = "patchConditions"
           /\ Rest(mem', mem, {"instanceID", "scriptID", "ready"})
           /\ mem'.instanceID = None /\ mem'.scriptID = None /\ ~mem'.ready
<1>1. mem \in Clusters /\ queued \in BOOLEAN
  BY DEF TypeOK
<1>2. NotReady(mem) \in Clusters /\ Rest(NotReady(mem), mem, {"ready"}) /\ NotReady(mem).ready = FALSE
  BY <1>1, NotReadyFields, Zenon
<1>3. PICK n : n = WithInstance(NotReady(mem), None, None)
  BY Zenon
<1>4. /\ n \in Clusters /\ Rest(n, NotReady(mem), {"instanceID", "scriptID"})
      /\ n.instanceID = None /\ n.scriptID = None
  <2>1. None \in InstanceIDs \cup {None} /\ None \in ScriptIDs \cup {None}
    BY Zenon
  <2> QED BY <1>2, <1>3, <2>1, SetInstance
<1>5. Return(n, FALSE) /\ Calls /\ secret' \in {secret, NoSecret}
  BY <1>3, Zenon DEF WithInstance, RemoveSecret, Calls
<1>6. pc' = "patchConditions" /\ queued' = queued /\ mem' = n
  BY <1>1, <1>5, Zenon DEF Return
<1>7. Rest(n, mem, {"instanceID", "scriptID", "ready"}) /\ ~n.ready
  BY <1>2, <1>4, Zenon DEF Rest, Fields
<1> QED BY <1>4, <1>5, <1>6, <1>7, Zenon DEF RemoveSecret

-----------------------------------------------------------------------------
(* The beginning and the end of a reconcile.                               *)

\* The parts of Reconcile before the first call.
LEMMA StartEffect ==
    ASSUME TypeOK, ReconcileStarts
    PROVE  /\ pc = "idle" /\ queued /\ obj.exists /\ (obj.finalizer \/ obj.deleting) /\ held # "paused"
           /\ base' = obj /\ Calls /\ UNCHANGED <<cloudVars, obj, found, script, keys, around, outside, crashes>>
           /\ mem' \in Clusters /\ queued' \in BOOLEAN
           /\ \/ pc' = "keys" /\ mem' = obj /\ role \in {"lb", "servicelb"} /\ ~obj.deleting
              \/ pc' = "delFind" /\ mem' = obj /\ (obj.deleting \/ role = "servicelb")
              \/ pc' = "patchConditions" /\ mem' = obj /\ queued'
              \/ pc' = "patchConditions" /\ role = "servicelb" /\ ~obj.enabled /\ ~mem'.ready
                 /\ Rest(mem', obj, {"ready"})
              \/ pc' = "patchConditions" /\ role = "user" /\ Rest(mem', obj, {"endpoint", "ready", "provisioned"})
                 /\ (mem'.ready => mem'.endpoint # None)
<1> obj \in Clusters /\ host \in Hosts \cup {None} /\ obj.endpoint \in InstanceIDs \cup Hosts \cup {None}
  BY Zenon DEF TypeOK, Clusters
<1> /\ pc = "idle" /\ queued /\ obj.exists /\ (obj.finalizer \/ obj.deleting) /\ held # "paused"
    /\ base' = obj /\ Calls /\ UNCHANGED <<cloudVars, obj, found, script, keys, around, outside, crashes>>
  BY Zenon DEF ReconcileStarts, FailsToStart, CanStart, NeedsFinalizer, Waits, Calls
<1>3. NotReady(obj) \in Clusters /\ Rest(NotReady(obj), obj, {"ready"}) /\ NotReady(obj).ready = FALSE
  BY NotReadyFields, Zenon
<1>4. \/ obj.deleting /\ StartsDelete
      \/ ~obj.deleting /\ StartsNormal /\ queued' = FALSE
      \/ FailsToStart
  BY Zenon DEF ReconcileStarts
<1>5. CASE obj.deleting /\ StartsDelete
  BY <1>5, Zenon DEF StartsDelete
<1>6. ASSUME reconcileEndpoint
      PROVE  /\ mem' \in Clusters /\ Rest(mem', obj, {"endpoint", "ready", "provisioned"})
             /\ mem'.ready => mem'.endpoint # None
  <2>1. PICK e \in InstanceIDs \cup Hosts \cup {None} : e = IF obj.endpoint # None THEN obj.endpoint ELSE host
    BY Zenon
  <2>2. mem' = IF e = None THEN NotReady(obj) ELSE [obj EXCEPT !.endpoint = e, !.ready = TRUE, !.provisioned = TRUE]
    BY <1>6, <2>1, Zenon DEF reconcileEndpoint
  <2>3. CASE e = None
    BY <1>3, <2>2, <2>3, Zenon DEF Rest
  <2>4. CASE e # None
    <3>1. mem' = WithEndpoint(obj, e)
      BY <2>2, <2>4, Zenon DEF WithEndpoint
    <3>2. mem' \in Clusters /\ Rest(mem', obj, {"endpoint", "ready", "provisioned"}) /\ mem'.endpoint = e
      BY <3>1, SetEndpoint, Zenon
    <3> QED BY <2>4, <3>2, Zenon
  <2> QED BY <2>3, <2>4, Zenon
<1>7. CASE ~obj.deleting /\ StartsNormal /\ queued' = FALSE
  <2>1. CASE reconcileEndpoint /\ role = "user" /\ pc' = "patchConditions"
    BY <1>6, <1>7, <2>1, Zenon
  <2>2. CASE role = "servicelb" /\ ~obj.enabled /\ pc' = "patchConditions" /\ mem' = NotReady(obj)
    BY <1>3, <1>7, <2>2, Zenon
  <2>3. CASE mem' = obj /\ ((pc' = "keys" /\ role \in {"lb", "servicelb"}) \/ (pc' = "delFind" /\ role = "servicelb"))
    BY <1>7, <2>3, Zenon
  <2>4. role \in {"lb", "servicelb"} <=> role = "lb" \/ role = "servicelb"
    BY Zenon
  <2> QED BY <1>7, <2>1, <2>2, <2>3, <2>4, Zenon DEF StartsNormal
<1>8. CASE FailsToStart
  <2>1. CASE mem' = obj
    BY <1>8, <2>1, Zenon DEF FailsToStart
  <2>2. CASE role = "user" /\ mem' = NotReady(obj)
    BY <1>3, <1>8, <2>2, Zenon DEF FailsToStart, Rest
  <2>3. CASE role = "user" /\ reconcileEndpoint
    BY <1>6, <1>8, <2>3, Zenon DEF FailsToStart
  <2> QED BY <1>8, <2>1, <2>2, <2>3, Zenon DEF FailsToStart
<1> QED BY <1>4, <1>5, <1>7, <1>8, Zenon

\* A request of the patch: the object changes as PatchedFields says, or not at
\* all, and then the reconcile is repeated or nothing had to change.
LEMMA PatchEffect ==
    ASSUME TypeOK, NEW here \in PCs, NEW next, NEW F \in SUBSET (Fields \ {"exists"}), NEW refused \in BOOLEAN,
           PatchRequest(here, next, F, refused)
    PROVE  /\ pc = here /\ pc' = next /\ Calls /\ UNCHANGED <<cloudVars, around, outside, crashes>>
           /\ obj' \in Clusters /\ queued' \in BOOLEAN /\ (queued => queued')
           /\ obj' # obj => queued' /\ obj.exists
           /\ \/ queued' /\ UNCHANGED obj /\ (refused \/ Fault)
              \/ ~obj.exists /\ UNCHANGED obj
              \/ /\ \A f \in F : obj'[f] = (IF mem[f] # base[f] THEN mem[f] ELSE obj[f])
                 /\ Rest(obj', obj, F \cup {"exists"})
                 /\ obj'.exists = (obj'.finalizer \/ ~obj'.deleting)
                 /\ NoFault /\ ~refused
<1>1. obj \in Clusters /\ mem \in Clusters /\ base \in Clusters /\ queued \in BOOLEAN
  BY Zenon DEF TypeOK
<1>2. PICK n : n = Patched(F)
  BY Zenon
<1>3. /\ n \in Clusters
      /\ \A f \in F : n[f] = (IF mem[f] # base[f] THEN mem[f] ELSE obj[f])
      /\ Rest(n, obj, F \cup {"exists"})
      /\ n.exists = (n.finalizer \/ ~n.deleting)
  BY <1>1, <1>2, PatchedFields
<1>4. /\ pc = here /\ pc' = next /\ Calls /\ UNCHANGED <<cloudVars, around, outside, crashes>>
      /\ \/ /\ NoFault /\ ~refused /\ obj' = (IF obj.exists THEN n ELSE obj) /\ queued' = (queued \/ obj' # obj)
         \/ (refused \/ Fault) /\ UNCHANGED obj /\ queued' = TRUE
  BY <1>2, Zenon DEF PatchRequest, Calls
<1> QED BY <1>1, <1>3, <1>4, Zenon

-----------------------------------------------------------------------------
(* The surroundings.                                                       *)

Environment == \/ UserDeletes \/ UserSwitches \/ MachinesChange \/ OwnerAppears \/ PauseToggles
               \/ OtherGone \/ ClusterGetsEndpoint \/ UserSetsEndpoint

\* What the user, the Cluster and the machines do: whoever changes the object
\* queues it, and a finalizer holds back its deletion.
LEMMA EnvironmentEffect ==
    ASSUME TypeOK, Environment
    PROVE  /\ Outside /\ obj' \in Clusters /\ queued' \in BOOLEAN /\ (queued => queued')
           /\ obj' # obj \/ held' # held => queued'
           /\ held' \in {"owner", "paused", "no"} /\ other' \in BOOLEAN /\ want' \in SUBSET Nodes
           /\ host' \in Hosts \cup {None} /\ changes' \in 0..changes
           /\ \/ obj' = obj
              \/ obj.finalizer /\ Rest(obj', obj, {"deleting"}) /\ obj'.deleting
              \/ obj.exists /\ ~obj.deleting /\ ~obj.finalizer /\ Rest(obj', obj, {"exists"}) /\ ~obj'.exists
              \/ role = "servicelb" /\ Rest(obj', obj, {"enabled"})
              \/ role # "servicelb" /\ obj.endpoint = None /\ Rest(obj', obj, {"endpoint"}) /\ obj'.endpoint \in Hosts
<1> /\ obj \in Clusters /\ queued \in BOOLEAN /\ held \in {"owner", "paused", "no"} /\ other \in BOOLEAN
    /\ want \in SUBSET Nodes /\ host \in Hosts \cup {None} /\ changes \in Nat /\ obj.enabled \in BOOLEAN
  BY DEF TypeOK, Clusters
<1>2. CASE UserDeletes
  <2>1. CASE obj.finalizer
    <3>1. obj' = [obj EXCEPT !.deleting = TRUE] /\ queued' = TRUE /\ UNCHANGED around /\ Outside
      BY <1>2, <2>1, Zenon DEF UserDeletes
    <3>2. obj' \in Clusters /\ Rest(obj', obj, {"deleting"}) /\ obj'.deleting
      BY <3>1, SetFlag, Zenon
    <3> QED BY <2>1, <3>1, <3>2 DEF around
  <2>2. CASE ~obj.finalizer
    <3>1. obj' = [obj EXCEPT !.exists = FALSE] /\ queued' = TRUE /\ UNCHANGED around /\ Outside
      BY <1>2, <2>2, Zenon DEF UserDeletes
    <3>2. obj' \in Clusters /\ Rest(obj', obj, {"exists"}) /\ obj'.exists = FALSE
      BY <3>1, SetFlag, Zenon
    <3>3. obj.exists /\ ~obj.deleting
      BY <1>2, Zenon DEF UserDeletes
    <3> QED BY <2>2, <3>1, <3>2, <3>3 DEF around
  <2> QED BY <2>1, <2>2, Zenon
<1>3. CASE UserSwitches
  <2>1. PICK x \in BOOLEAN : x = ~obj.enabled
    BY Zenon
  <2>2. obj' = [obj EXCEPT !.enabled = x] /\ queued' = TRUE /\ UNCHANGED <<held, other, want, host>> /\ Outside
        /\ role = "servicelb" /\ changes > 0 /\ changes' = changes - 1
    BY <1>3, <2>1, Zenon DEF UserSwitches
  <2>3. obj' \in Clusters /\ Rest(obj', obj, {"enabled"})
    BY <2>1, <2>2, SetFlag, Zenon
  <2> QED BY <2>2, <2>3
<1>4. CASE UserSetsEndpoint
  <2>1. PICK h \in Hosts : obj' = [obj EXCEPT !.endpoint = h]
    BY <1>4, Zenon DEF UserSetsEndpoint
  <2>2. obj' \in Clusters /\ Rest(obj', obj, {"endpoint"}) /\ obj'.endpoint = h
    BY <2>1, SetOthers, Zenon
  <2> QED BY <1>4, <2>2 DEF UserSetsEndpoint, around
<1>5. CASE MachinesChange
  BY <1>5 DEF MachinesChange, verdaMachineToVerdaCluster
<1>6. CASE OwnerAppears \/ OtherGone \/ ClusterGetsEndpoint
  <2>1. changes \in 0..changes
    OBVIOUS
  <2>2. CASE OwnerAppears
    BY <2>1, <2>2, Zenon DEF OwnerAppears
  <2>3. CASE OtherGone
    BY <2>1, <2>3, Zenon DEF OtherGone
  <2>4. CASE ClusterGetsEndpoint
    BY <2>1, <2>4, Zenon DEF ClusterGetsEndpoint
  <2> QED BY <1>6, <2>2, <2>3, <2>4, Zenon
<1>7. CASE PauseToggles
  BY <1>7 DEF PauseToggles
<1> QED BY <1>2, <1>3, <1>4, <1>5, <1>6, <1>7, Zenon DEF Environment

\* The finalizer is set on an object that is not being deleted.
LEMMA FinalizerEffect ==
    ASSUME TypeOK, EnsureFinalizer
    PROVE  /\ pc = "idle" /\ queued /\ Calls /\ UNCHANGED <<cloudVars, queued, scope, around, outside, crashes>>
           /\ obj' \in Clusters /\ obj.exists /\ ~obj.deleting /\ ~obj.finalizer
           /\ obj' = obj \/ (Rest(obj', obj, {"finalizer"}) /\ obj'.finalizer)
<1>1. obj \in Clusters
  BY Zenon DEF TypeOK
<1>2. [obj EXCEPT !.finalizer = TRUE] \in Clusters /\ Rest([obj EXCEPT !.finalizer = TRUE], obj, {"finalizer"})
      /\ [obj EXCEPT !.finalizer = TRUE].finalizer = TRUE
  BY <1>1, SetFlag, Zenon
<1>3. obj' = obj \/ obj' = [obj EXCEPT !.finalizer = TRUE]
  BY Zenon DEF EnsureFinalizer
<1>4. /\ pc = "idle" /\ queued /\ Calls /\ UNCHANGED <<cloudVars, queued, scope, around, outside, crashes>>
      /\ obj.exists /\ ~obj.deleting /\ ~obj.finalizer
  BY Zenon DEF EnsureFinalizer, CanStart, NeedsFinalizer, Calls
<1> QED BY <1>1, <1>2, <1>3, <1>4, Zenon

-----------------------------------------------------------------------------
(* Types.                                                                  *)

\* New keys are generated for a Secret that is missing, and each loss of the
\* Secret is one of the changes.
Budget == made + changes <= MaxChanges + (IF keySecret = 0 THEN 0 ELSE 1)

Holding == {"record", "backends", "publish", "delInstance", "purge"}
Answers == [id: InstanceIDs \cup {None}, status: ReportedStatus]

KeysTypeOK ==
    /\ secret \in [id: InstanceIDs \cup {None}, keys: 0..made]
    /\ made \in 0..(MaxChanges + 1) /\ keySecret \in {0, made} /\ keys \in 0..made
    /\ ikeys \in [InstanceIDs -> 0..made]

\* A call that fails uses up one of the faults that are left.
LEMMA FaultsLeft == ASSUME TypeOK, Calls PROVE faults' \in 0..MaxFaults
BY BoundsAssumption DEF Calls, Fault, NoFault, TypeOK

\* The parts of TypeOK that a call inside a reconcile may touch.
LEMMA InsideTypes ==
    ASSUME TypeOK, Inside, Calls, CloudTypeOK', mem' \in Clusters, queued' \in BOOLEAN, pc' \in PCs,
           found' \in Answers, pc' \in Holding => found'.id # None, script' \in ScriptIDs \cup {None},
           conf' \in [InstanceIDs -> SUBSET Nodes], KeysTypeOK'
    PROVE  TypeOK'
<1>1. faults' \in 0..MaxFaults
  BY FaultsLeft, Zenon
<1> QED BY <1>1, Zenon DEF TypeOK, Inside, around, KeysTypeOK, Answers, Holding

\* A call that leaves keys and Secret alone.
LEMMA PlainTypes ==
    ASSUME TypeOK, Budget, Inside, Calls, KeepsKeys, CloudTypeOK',
           (\E next \in PCs : Goes(next)) \/ GivesUp \/ (mem' \in Clusters /\ queued' \in BOOLEAN /\ pc' \in PCs),
           found' \in Answers, pc' \in Holding => found'.id # None, script' \in ScriptIDs \cup {None},
           conf' \in [InstanceIDs -> SUBSET Nodes],
           secret' \in [id: InstanceIDs \cup {None}, keys: 0..made]
    PROVE  TypeOK' /\ Budget'
<1>1. mem' \in Clusters /\ queued' \in BOOLEAN /\ pc' \in PCs
  BY Zenon DEF TypeOK, Goes, GivesUp, PCs
<1>2. KeysTypeOK' /\ Budget'
  BY Zenon DEF TypeOK, KeepsKeys, KeysTypeOK, Budget, Inside, around
<1> QED BY <1>1, <1>2, InsideTypes, Zenon

\* Every call of reconcileNormal keeps the types.
LEMMA NormalTypes == ASSUME TypeOK, Budget, Normal PROVE TypeOK' /\ Budget'
<1> /\ CloudTypeOK /\ found \in Answers /\ script \in ScriptIDs \cup {None} /\ mem \in Clusters
    /\ conf \in [InstanceIDs -> SUBSET Nodes] /\ secret \in [id: InstanceIDs \cup {None}, keys: 0..made]
    /\ made \in Nat /\ keys \in 0..made /\ (pc \in Holding => found.id # None)
  BY DEF TypeOK, Answers, Holding
<1>2. CASE ensureKeys
  <2>1. CloudTypeOK'
    BY <1>2, KeysEffect, IdleKeeps, Zenon DEF CloudKeeps
  <2>2. mem' \in Clusters /\ queued' \in BOOLEAN /\ pc' \in {"find", "patchConditions"} /\ UNCHANGED <<found, script, conf>>
    BY <1>2, KeysEffect, Zenon DEF Goes, GivesUp, TypeOK
  <2>3. KeysTypeOK' /\ Budget'
    <3>1. /\ changes \in Nat /\ made \in 0..(MaxChanges + 1) /\ keySecret \in {0, made} /\ keys \in 0..made
          /\ ikeys \in [InstanceIDs -> 0..made] /\ UNCHANGED <<changes, ikeys, secret>>
      BY <1>2, KeysEffect DEF TypeOK, Inside, around
    <3>2. CASE UNCHANGED <<keySecret, made>>
      <4>1. keys' \in 0..made
        BY <1>2, <3>1, <3>2, KeysEffect
      <4> QED BY <3>1, <3>2, <4>1, Zenon DEF KeysTypeOK, Budget
    <3>3. CASE keySecret = 0 /\ keySecret' = made + 1 /\ made' = made + 1
      <4>1. keys' \in 0..(made + 1) /\ made + 1 \in 0..(MaxChanges + 1) /\ made + 1 + changes <= MaxChanges + 1
        BY <1>2, <3>1, <3>3, KeysEffect, ChangesAssumption DEF Budget
      <4>2. 0..made \subseteq 0..(made + 1)
        BY <3>1
      <4>3. ikeys \in [InstanceIDs -> 0..(made + 1)] /\ secret \in [id: InstanceIDs \cup {None}, keys: 0..(made + 1)]
        BY <3>1, <4>2, Zenon
      <4> QED BY <3>1, <3>3, <4>1, <4>3 DEF KeysTypeOK, Budget
    <3> QED BY <1>2, <3>2, <3>3, KeysEffect, Zenon
  <2> QED BY <1>2, <2>1, <2>2, <2>3, KeysEffect, InsideTypes, Zenon DEF PCs, Holding
<1>3. CASE FindInstance
  <2>1. CloudTypeOK' /\ UNCHANGED <<script, conf, secret>>
    BY <1>3, FindEffect, IdleKeeps, Zenon DEF CloudKeeps
  <2>2. found' \in Answers /\ (pc' \in Holding => found'.id # None) /\ (GivesUp \/ \E next \in PCs : Goes(next))
    BY <1>3, FindEffect, FindAnswer, Zenon DEF Goes, GivesUp, Answers, Holding, PCs
  <2> QED BY <1>3, <2>1, <2>2, FindEffect, PlainTypes, Zenon
<1>4. CASE CreateRemovesScripts \/ CreateAddsScript
  <2>1. /\ CloudTypeOK' /\ UNCHANGED <<found, conf, secret>> /\ script' \in ScriptIDs \cup {None}
        /\ Inside /\ Calls /\ KeepsKeys
    BY <1>4, ScriptEffect, Zenon DEF CloudKeeps
  <2>2. (GivesUp \/ \E next \in PCs : Goes(next)) /\ pc' \notin Holding
    BY <1>4, ScriptEffect, Zenon DEF Goes, GivesUp, Holding, PCs
  <2> QED BY <2>1, <2>2, PlainTypes, Zenon
<1>5. CASE CreateInstance
  <2>1. mem' \in Clusters /\ queued' \in BOOLEAN /\ pc' \in {"record", "patchConditions"}
    BY <1>5, CreateEffect, Zenon DEF Goes, GivesUp, TypeOK
  <2>2. found' \in Answers /\ (pc' \in Holding => found'.id # None)
    <3>1. ASSUME NEW i \in InstanceIDs, found' = [id |-> i, status |-> "provisioning"]
          PROVE  found' \in Answers /\ found'.id # None
      BY <3>1, NoneAssumption, Zenon DEF Answers, ReportedStatus, LiveStatus
    <3>2. CASE found' = found /\ pc' = "patchConditions"
      BY <3>2, Zenon DEF Holding
    <3> QED BY <1>5, <3>1, <3>2, CreateEffect, Zenon DEF GivesUp
  <2>3. KeysTypeOK' /\ Budget'
    BY <1>5, CreateEffect DEF TypeOK, KeysTypeOK, Budget, Inside, around
  <2> QED BY <1>5, <2>1, <2>2, <2>3, CreateEffect, InsideTypes, Zenon DEF PCs
<1>6. CASE RecordInstance
  <2>1. CloudTypeOK' /\ UNCHANGED <<found, script, conf, secret>> /\ pc = "record"
    BY <1>6, RecordEffect, IdleKeeps, Zenon DEF CloudKeeps
  <2>2. mem' \in Clusters /\ queued' \in BOOLEAN /\ pc' \in PCs
    BY <1>6, RecordEffect, Zenon DEF PCs, TypeOK
  <2> QED BY <1>6, <2>1, <2>2, RecordEffect, PlainTypes, Zenon DEF Holding
<1>7. CASE UpdateBackends
  <2>1. CloudTypeOK' /\ UNCHANGED <<found, script, secret>> /\ pc' = "patchConditions"
    BY <1>7, BackendsEffect, IdleKeeps, Zenon DEF CloudKeeps
  <2> QED BY <1>7, <2>1, BackendsEffect, PlainTypes, Zenon DEF Holding, PCs
<1>8. CASE PublishSecret
  <2>1. CloudTypeOK' /\ UNCHANGED <<found, script, conf>> /\ pc' = "patchConditions"
    BY <1>8, PublishEffect, IdleKeeps, Zenon DEF CloudKeeps, GivesUp
  <2>2. mem' \in Clusters /\ queued' \in BOOLEAN
    BY <1>8, PublishEffect, Zenon DEF TypeOK, GivesUp
  <2>3. secret' \in [id: InstanceIDs \cup {None}, keys: 0..made]
    BY <1>8, PublishEffect DEF Answers
  <2> QED BY <1>8, <2>1, <2>2, <2>3, PublishEffect, PlainTypes, Zenon DEF Holding, PCs
<1> QED BY <1>2, <1>3, <1>4, <1>5, <1>6, <1>7, <1>8, Zenon DEF Normal

\* So does every call of reconcileDelete and deleteServiceLoadBalancer.
LEMMA DeleteTypes == ASSUME TypeOK, Budget, Delete PROVE TypeOK' /\ Budget'
<1> /\ CloudTypeOK /\ found \in Answers /\ script \in ScriptIDs \cup {None} /\ mem \in Clusters
    /\ conf \in [InstanceIDs -> SUBSET Nodes] /\ secret \in [id: InstanceIDs \cup {None}, keys: 0..made]
    /\ made \in Nat /\ (pc \in Holding => found.id # None) /\ queued \in BOOLEAN
  BY DEF TypeOK, Answers, Holding
<1>2. ASSUME NEW elapsed \in BOOLEAN, DeleteFindsInstance(elapsed) PROVE TypeOK' /\ Budget'
  <2>1. CloudTypeOK' /\ UNCHANGED <<script, conf, secret>> /\ Inside /\ Calls /\ KeepsKeys
    BY <1>2, DeleteFindEffect, IdleKeeps, Zenon DEF CloudKeeps
  <2>2. CASE GivesUp /\ UNCHANGED found
    BY <2>1, <2>2, PlainTypes, Zenon DEF GivesUp, Holding
  <2>3. ASSUME NEW r \in findLoadBalancer, found' = r,
               \/ r.status = "notfound" /\ Goes("delScript")
               \/ r.status \notin LiveStatus /\ r.status # "notfound" /\ Goes("purge")
               \/ /\ r.status \in LiveStatus /\ pc' = "delInstance" /\ queued' = queued /\ mem' \in Clusters
               \/ GivesUp
        PROVE  TypeOK' /\ Budget'
    <3>1. r \in Answers /\ (r.id = None => r.status = "notfound")
      BY <2>3, FindAnswer, Zenon DEF Answers
    <3>2. "notfound" \notin LiveStatus
      BY Zenon DEF LiveStatus
    <3>3. pc' \in Holding => r.id # None
      BY <2>3, <3>1, <3>2, Zenon DEF Goes, GivesUp, Holding
    <3>4. (\E next \in PCs : Goes(next)) \/ GivesUp \/ (mem' \in Clusters /\ queued' \in BOOLEAN /\ pc' \in PCs)
      BY <2>3, Zenon DEF PCs
    <3> QED BY <2>1, <2>3, <3>1, <3>3, <3>4, PlainTypes, Zenon
  <2> QED BY <1>2, <2>2, <2>3, DeleteFindEffect, Zenon
<1>3. CASE DeleteRequestsInstance
  <2>1. CloudTypeOK' /\ UNCHANGED <<found, script, conf, secret>> /\ pc' \notin Holding
    BY <1>3, DeleteRequestEffect, Zenon DEF CloudKeeps, GivesUp, Holding
  <2> QED BY <1>3, <2>1, DeleteRequestEffect, PlainTypes, Zenon
<1>4. CASE DeletePurgesVolumes
  <2>1. CloudTypeOK' /\ UNCHANGED <<found, script, conf, secret>> /\ pc' \notin Holding
    BY <1>4, PurgeEffect, Zenon DEF CloudKeeps, GivesUp, Goes, Holding
  <2>2. "delScript" \in PCs
    BY Zenon DEF PCs
  <2> QED BY <1>4, <2>1, <2>2, PurgeEffect, PlainTypes, Zenon
<1>5. CASE DeleteScript
  <2>1. CloudTypeOK' /\ UNCHANGED <<found, script, conf, secret>> /\ Inside /\ Calls /\ KeepsKeys
    BY <1>5, DeleteScriptEffect, Zenon DEF CloudKeeps
  <2>2. mem' \in Clusters /\ queued' \in BOOLEAN /\ pc' \in {"patchConditions", "delOther", "unpublish"}
    BY <1>5, DeleteScriptEffect, Zenon DEF GivesUp
  <2> QED BY <2>1, <2>2, PlainTypes, Zenon DEF PCs, Holding
<1>6. CASE DeleteOther
  <2>1. CloudTypeOK' /\ UNCHANGED <<found, script, conf, secret>> /\ Inside /\ Calls /\ KeepsKeys
    BY <1>6, DeleteOtherEffect, IdleKeeps, Zenon DEF CloudKeeps
  <2>2. mem' \in Clusters /\ queued' \in BOOLEAN /\ pc' = "patchConditions"
    BY <1>6, DeleteOtherEffect, Zenon DEF GivesUp
  <2> QED BY <2>1, <2>2, PlainTypes, Zenon DEF PCs, Holding
<1>7. CASE RemoveSecret
  <2>1. CloudTypeOK' /\ UNCHANGED <<found, script, conf>> /\ Inside /\ Calls /\ KeepsKeys
    BY <1>7, UnpublishEffect, IdleKeeps, Zenon DEF CloudKeeps
  <2>2. mem' \in Clusters /\ queued' \in BOOLEAN /\ pc' = "patchConditions"
    BY <1>7, UnpublishEffect, Zenon
  <2>3. secret' \in [id: InstanceIDs \cup {None}, keys: 0..made]
    BY <1>7, UnpublishEffect, SMTT(30) DEF NoSecret
  <2> QED BY <2>1, <2>2, <2>3, PlainTypes, Zenon DEF PCs, Holding
<1> QED BY <1>2, <1>3, <1>4, <1>5, <1>6, <1>7, Zenon DEF Delete

\* A new object, and the copies of an idle reconcile.
LEMMA NewClusterFields ==
    /\ NewCluster \in Clusters
    /\ NewCluster.instanceID = None /\ NewCluster.scriptID = None /\ NewCluster.endpoint = None
    /\ NewCluster.exists = TRUE /\ NewCluster.finalizer = FALSE /\ NewCluster.deleting = FALSE
    /\ NewCluster.ready = FALSE /\ NewCluster.provisioned = FALSE
BY Zenon DEF NewCluster, Clusters

\* The end of a reconcile: its copies are dropped.
Ends == /\ pc' = "idle" /\ mem' = NewCluster /\ base' = NewCluster /\ found' = NoInstance
        /\ script' = None /\ keys' = 0

\* The three requests of the patch.
LEMMA PatchesEffect ==
    ASSUME TypeOK, PatchConditions \/ PatchMeta \/ PatchStatus
    PROVE  /\ Calls /\ UNCHANGED <<cloudVars, around, outside, crashes>>
           /\ obj' \in Clusters /\ queued' \in BOOLEAN /\ (queued => queued')
           /\ obj' # obj => queued' /\ obj.exists
           /\ \/ pc = "patchConditions" /\ pc' = "patchMeta" /\ UNCHANGED <<mem, base, found, script, keys>>
              \/ pc = "patchMeta" /\ pc' = "patchStatus" /\ UNCHANGED <<mem, base, found, script, keys>>
              \/ pc = "patchStatus" /\ Ends
<1>1. CASE PatchConditions
  BY <1>1, PatchEffect, Zenon DEF PatchConditions, Fields, PCs
<1>2. CASE PatchMeta
  <2>1. EndpointChanges \in BOOLEAN
    BY Zenon DEF EndpointChanges, TypeOK, Clusters
  <2> QED BY <1>2, <2>1, PatchEffect, Zenon DEF PatchMeta, Fields, PCs
<1>3. CASE PatchStatus
  BY <1>3, PatchEffect, Zenon DEF PatchStatus, Fields, PCs, Ends
<1> QED BY <1>1, <1>2, <1>3, Zenon

\* A field for which the request holds what the reconcile has changed.
Merged(f) == obj'[f] = (IF mem[f] # base[f] THEN mem[f] ELSE obj[f])

\* A request that does not change the object: it failed or was refused and the
\* reconcile is repeated, or the object is gone.
Unpatched(refused) == obj' = obj /\ ((queued' /\ (refused \/ Fault)) \/ ~obj.exists)

\* The request that writes the conditions.
LEMMA ConditionsEffect ==
    ASSUME TypeOK, PatchConditions
    PROVE  \/ Unpatched(FALSE)
           \/ Merged("ready") /\ Rest(obj', obj, {"ready", "exists"}) /\ NoFault
              /\ obj'.exists = (obj'.finalizer \/ ~obj'.deleting)
<1>1. PICK F : F = {"ready"}
  BY Zenon
<1>2. F \in SUBSET (Fields \ {"exists"}) /\ "patchConditions" \in PCs
  BY <1>1, Zenon DEF Fields, PCs
<1>3. PatchRequest("patchConditions", "patchMeta", F, FALSE)
  BY <1>1, Zenon DEF PatchConditions
<1>4. \/ Unpatched(FALSE)
      \/ (\A f \in F : Merged(f)) /\ Rest(obj', obj, F \cup {"exists"}) /\ NoFault
         /\ obj'.exists = (obj'.finalizer \/ ~obj'.deleting)
  BY <1>2, <1>3, PatchEffect, Zenon DEF Unpatched, Merged
<1>5. F \cup {"exists"} = {"ready", "exists"}
  BY <1>1, Zenon
<1> QED BY <1>1, <1>4, <1>5, Zenon

\* The request that writes spec and metadata.
LEMMA MetaEffect ==
    ASSUME TypeOK, PatchMeta
    PROVE  \/ Unpatched(EndpointChanges)
           \/ /\ Merged("endpoint") /\ Merged("delReq") /\ Merged("finalizer") /\ NoFault /\ ~EndpointChanges
              /\ Rest(obj', obj, {"endpoint", "delReq", "finalizer", "exists"})
              /\ obj'.exists = (obj'.finalizer \/ ~obj'.deleting)
<1>1. PICK F : F = {"endpoint", "delReq", "finalizer"}
  BY Zenon
<1>2. F \in SUBSET (Fields \ {"exists"}) /\ "patchMeta" \in PCs
  BY <1>1, Zenon DEF Fields, PCs
<1>3. EndpointChanges \in BOOLEAN
  BY Zenon DEF EndpointChanges, TypeOK, Clusters
<1>4. PatchRequest("patchMeta", "patchStatus", F, EndpointChanges)
  BY <1>1, Zenon DEF PatchMeta
<1>5. \/ Unpatched(EndpointChanges)
      \/ (\A f \in F : Merged(f)) /\ Rest(obj', obj, F \cup {"exists"}) /\ NoFault /\ ~EndpointChanges
         /\ obj'.exists = (obj'.finalizer \/ ~obj'.deleting)
  BY <1>2, <1>3, <1>4, PatchEffect DEF Unpatched, Merged
<1>6. F \cup {"exists"} = {"endpoint", "delReq", "finalizer", "exists"}
  BY <1>1, Zenon
<1> QED BY <1>1, <1>5, <1>6, Zenon

\* The request that writes the status.
LEMMA StatusEffect ==
    ASSUME TypeOK, PatchStatus
    PROVE  \/ Unpatched(FALSE)
           \/ /\ Merged("instanceID") /\ Merged("scriptID") /\ Merged("backends") /\ Merged("provisioned") /\ NoFault
              /\ Rest(obj', obj, {"instanceID", "scriptID", "backends", "provisioned", "exists"})
              /\ obj'.exists = (obj'.finalizer \/ ~obj'.deleting)
<1>1. PICK F : F = {"instanceID", "scriptID", "backends", "provisioned"}
  BY Zenon
<1>2. F \in SUBSET (Fields \ {"exists"}) /\ "patchStatus" \in PCs
  BY <1>1, Zenon DEF Fields, PCs
<1>3. PatchRequest("patchStatus", "idle", F, FALSE)
  BY <1>1, Zenon DEF PatchStatus
<1>4. \/ Unpatched(FALSE)
      \/ (\A f \in F : Merged(f)) /\ Rest(obj', obj, F \cup {"exists"}) /\ NoFault
         /\ obj'.exists = (obj'.finalizer \/ ~obj'.deleting)
  BY <1>2, <1>3, PatchEffect, Zenon DEF Unpatched, Merged
<1>5. F \cup {"exists"} = {"instanceID", "scriptID", "backends", "provisioned", "exists"}
  BY <1>1, Zenon
<1> QED BY <1>1, <1>4, <1>5, Zenon

\* The types of a new cluster.
LEMMA InitTypes == ASSUME Init PROVE TypeOK /\ Budget
<1>1. CloudTypeOK
  BY Zenon DEF Init, CloudInit, CloudTypeOK, InstanceStatus, VolumeStatus
<1>2. KeysTypeOK /\ Budget /\ changes \in 0..MaxChanges
  BY ChangesAssumption DEF Init, KeysTypeOK, Budget, NoSecret
<1>3. NoInstance \in Answers
  BY Zenon DEF NoInstance, Answers, ReportedStatus
<1>4. /\ faults \in 0..MaxFaults /\ crashes \in 0..MaxCrashes
      /\ want \in SUBSET Nodes /\ conf \in [InstanceIDs -> SUBSET Nodes]
  BY BoundsAssumption DEF Init
<1> QED BY <1>1, <1>2, <1>3, <1>4, NewClusterFields, Zenon DEF Init, TypeOK, KeysTypeOK, Answers, PCs

\* A budget is kept when changes are used up.
LEMMA FewerChanges == \A m, c, d, k \in Nat : m + c <= k /\ d <= c => m + d <= k
OBVIOUS

\* Every step keeps the types.
LEMMA StepTypes == ASSUME TypeOK, Budget, [Next]_vars PROVE TypeOK' /\ Budget'
<1> /\ CloudTypeOK /\ found \in Answers /\ NoInstance \in Answers /\ faults \in Nat /\ crashes \in Nat
    /\ (pc \in Holding => found.id # None) /\ changes \in Nat /\ KeysTypeOK
  BY DEF TypeOK, Answers, Holding, NoInstance, ReportedStatus, KeysTypeOK
<1>2. CASE Normal \/ Delete
  BY <1>2, NormalTypes, DeleteTypes, Zenon
<1>3. CASE ReconcileWaits \/ UNCHANGED vars
  <2>1. UNCHANGED <<cloudVars, obj, scope, around, outside, faults, crashes>> /\ queued' \in BOOLEAN
    BY <1>3, Zenon DEF ReconcileWaits, vars, TypeOK
  <2>2. CloudTypeOK'
    BY <2>1, IdleKeeps, Zenon DEF CloudKeeps
  <2> QED BY <2>1, <2>2 DEF TypeOK, Budget, scope, around, outside
<1>4. CASE EnsureFinalizer
  <2>1. CloudTypeOK'
    BY <1>4, FinalizerEffect, IdleKeeps, Zenon DEF CloudKeeps
  <2>2. faults' \in 0..MaxFaults
    BY <1>4, FinalizerEffect, FaultsLeft, Zenon
  <2> QED BY <1>4, <2>1, <2>2, FinalizerEffect, Zenon DEF TypeOK, Budget, scope, around, outside
<1>5. CASE ReconcileStarts
  <2>1. CloudTypeOK'
    BY <1>5, StartEffect, IdleKeeps, Zenon DEF CloudKeeps
  <2>2. faults' \in 0..MaxFaults
    BY <1>5, StartEffect, FaultsLeft, Zenon
  <2>3. pc' \in {"keys", "delFind", "patchConditions"}
    BY <1>5, StartEffect, Zenon
  <2> QED BY <1>5, <2>1, <2>2, <2>3, StartEffect, ZenonT(60) DEF TypeOK, Budget, around, outside, PCs
<1>6. CASE PatchConditions \/ PatchMeta \/ PatchStatus
  <2>1. CloudTypeOK'
    BY <1>6, PatchesEffect, IdleKeeps, Zenon DEF CloudKeeps
  <2>2. faults' \in 0..MaxFaults
    BY <1>6, PatchesEffect, FaultsLeft, Zenon
  <2>3. /\ pc' \in {"patchMeta", "patchStatus", "idle"} /\ mem' \in Clusters /\ base' \in Clusters
        /\ found' \in Answers /\ script' \in ScriptIDs \cup {None} /\ keys' \in 0..made
    BY <1>6, PatchesEffect, NewClusterFields, SMTT(30) DEF Ends, TypeOK
  <2> QED BY <1>6, <2>1, <2>2, <2>3, PatchesEffect DEF TypeOK, Budget, around, outside, PCs, Answers
<1>7. CASE Environment
  <2>1. CloudTypeOK'
    BY <1>7, EnvironmentEffect, IdleKeeps, Zenon DEF CloudKeeps, Outside
  <2>2. changes' \in 0..MaxChanges /\ Budget'
    <3>1. changes' \in 0..changes /\ UNCHANGED <<made, keySecret>>
      BY <1>7, EnvironmentEffect, Zenon DEF Outside, outside
    <3>2. made \in Nat /\ MaxChanges \in Nat /\ changes \in 0..MaxChanges
      BY ChangesAssumption DEF TypeOK, KeysTypeOK
    <3>3. changes' \in Nat /\ changes' <= changes /\ changes <= MaxChanges
      BY <3>1, <3>2
    <3> DEFINE b == IF keySecret = 0 THEN 0 ELSE 1
               k == MaxChanges + b
    <3>4. k \in Nat /\ made + changes <= k /\ k' = k
      BY <3>1, <3>2 DEF Budget
    <3>5. made + changes' <= k
      <4> HIDE DEF k
      <4> QED BY <3>2, <3>3, <3>4, FewerChanges, Zenon
    <3>6. Budget'
      BY <3>1, <3>5, Zenon DEF Budget
    <3> QED BY <3>2, <3>3, <3>6
  <2> QED BY <1>7, <2>1, <2>2, EnvironmentEffect, Zenon DEF TypeOK, Outside, scope, outside
<1>8. CASE KeySecretLost
  <2>1. CloudTypeOK'
    BY <1>8, IdleKeeps, Zenon DEF CloudKeeps, KeySecretLost
  <2>2. changes' \in 0..MaxChanges /\ Budget' /\ keySecret' = 0
    <3>1. keySecret # 0 /\ keySecret' = 0 /\ changes > 0 /\ changes' = changes - 1 /\ made' = made
      BY <1>8, Zenon DEF KeySecretLost
    <3> QED BY <3>1, ChangesAssumption DEF TypeOK, Budget, KeysTypeOK
  <2> QED BY <1>8, <2>1, <2>2 DEF KeySecretLost, TypeOK, scope
<1>9. CASE Crash
  <2>1. CloudTypeOK'
    BY <1>9, IdleKeeps, Zenon DEF CloudKeeps, Crash
  <2>2. crashes' \in 0..MaxCrashes
    BY <1>9, BoundsAssumption DEF Crash, TypeOK
  <2>3. pc' = "idle" /\ mem' \in Clusters /\ base' \in Clusters /\ found' \in Answers
    BY <1>9, NewClusterFields, Zenon DEF Crash
  <2> QED BY <1>9, <2>1, <2>2, <2>3 DEF Crash, TypeOK, Budget, around, outside, PCs, Answers
<1>10. CASE CloudMoves
  <2>1. CloudTypeOK'
    BY <1>10, CloudStepKeeps, Zenon DEF CloudKeeps, CloudMoves
  <2> QED BY <1>10, <2>1 DEF CloudMoves, TypeOK, Budget, scope, around, outside
<1> QED BY <1>2, <1>3, <1>4, <1>5, <1>6, <1>7, <1>8, <1>9, <1>10, Zenon
        DEF Next, Controller, Surroundings, Environment

\* Every variable holds a value of its type: at most one key Secret more is ever
\* generated than Secrets are lost, and no call is made on an instance the
\* reconcile does not have.
THEOREM TypeCorrect == Spec => []TypeOK
<1>1. Init => TypeOK /\ Budget
  BY InitTypes, Zenon
<1>2. TypeOK /\ Budget /\ [Next]_vars => TypeOK' /\ Budget'
  BY StepTypes, Zenon
<1> QED BY <1>1, <1>2, PTL DEF Spec

=============================================================================
