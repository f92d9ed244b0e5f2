------------------------- MODULE VerdaClusterProofs -------------------------
(***************************************************************************)
(* Proofs about VerdaCluster, continued: the instance of a load balancer,  *)
(* its object and its keys.                                                *)
(***************************************************************************)
EXTENDS VerdaClusterTypes

-----------------------------------------------------------------------------
(* The instance and the object.                                            *)

Creating == {"script", "addScript", "create"}
Making == Creating \cup {"keys", "find", "record", "backends", "publish"}
Patching == {"patchConditions", "patchMeta", "patchStatus"}
Deleting == {"delFind", "delInstance", "purge", "delScript"}
Emptied == {"purge", "delScript", "delOther", "unpublish"}
Unrecorded == Creating \cup {"keys", "find", "delFind"}

\* An ID that is recorded or was found is that of an instance, and no other
\* instance is alive.
Known(id) == id # None => istatus[id] # "none" /\ OnlyLive(id)

RecordsLive ==
    /\ Known(obj.instanceID) /\ Known(mem.instanceID) /\ Known(found.id)
    /\ pc \in Creating => mem.instanceID = None /\ found.id = None
    /\ pc \in Unrecorded => mem.instanceID = obj.instanceID

\* A reconcile begins to create only when there is no instance, and goes on
\* deleting only when there is none left.
CreatesOnlyWhenNone == AtMostOneLive /\ (pc \in Creating \cup Emptied => NoLive)

\* The object keeps its finalizer until no instance is left.
FinalizerGoesLast ==
    /\ ~obj.finalizer => /\ NoLive /\ pc \in {"idle", "patchStatus"}
                         /\ obj.exists => ~obj.deleting /\ pc = "idle"
                         /\ ~obj.deleting => obj.instanceID = None
    /\ obj.finalizer => obj.exists
    /\ ~mem.finalizer /\ pc # "idle" => NoLive /\ pc \in Patching /\ obj.deleting
    /\ pc # "idle" => base.finalizer
    /\ mem.deleting => obj.deleting
    /\ role # "servicelb" /\ pc \in Deleting => mem.deleting
    /\ pc = "delOther" => mem.deleting

OwnerInv == TypeOK /\ Budget /\ RecordsLive /\ CreatesOnlyWhenNone /\ FinalizerGoesLast

\* The fields of the copy that OwnerInv reads.
Kept == mem'.instanceID = mem.instanceID /\ mem'.deleting = mem.deleting /\ mem'.finalizer = mem.finalizer

\* A call that goes on or gives up keeps them.
LEMMA PlainKeeps ==
    /\ \A next : Goes(next) => Kept /\ pc' = next
    /\ GivesUp => Kept /\ pc' = "patchConditions"
    /\ Rest(mem', mem, {"ready"}) \/ Rest(mem', mem, {"delReq"}) \/ Rest(mem', mem, {"scriptID"}) => Kept
    /\ Rest(mem', mem, {"backends", "ready", "provisioned"}) => Kept
BY Zenon DEF Goes, GivesUp, Kept, Rest, Fields

\* findLoadBalancer finds the instance there is.
LEMMA FindKnows ==
    ASSUME TypeOK, AtMostOneLive, Known(mem.instanceID), NEW r \in findLoadBalancer
    PROVE  /\ Known(r.id) /\ (r.id = None => NoLive /\ mem.instanceID = None)
           /\ r.status \notin LiveStatus => NoLive
<1> r.id \in InstanceIDs \cup {None} /\ "notfound" \notin LiveStatus
  BY FindAnswer, Zenon DEF LiveStatus
<1>2. CASE mem.instanceID # None
  BY <1>2, FindAnswer, Zenon DEF Known, OnlyLive, NoLive, Live
<1>3. CASE mem.instanceID = None
  <2>1. r.status \notin LiveStatus => NoLive
    BY <1>3, FindAnswer, Zenon
  <2>2. r.id = None => NoLive
    BY <2>1, FindAnswer, Zenon
  <2>3. r.id # None => istatus[r.id] # "none" /\ OnlyLive(r.id)
    BY <1>3, <2>1, FindAnswer, Zenon DEF AtMostOneLive, OnlyLive, NoLive
  <2> QED BY <1>3, <2>1, <2>2, <2>3, Zenon DEF Known
<1> QED BY <1>2, <1>3, Zenon

\* What a call inside a reconcile has to respect when it creates no instance.
LEMMA CallKeepsOwner ==
    ASSUME OwnerInv, TypeOK', Budget', Inside, NoneBorn, pc \notin Patching \cup {"idle"}, pc' # "idle",
           Known(mem'.instanceID), Known(found'.id), mem'.deleting = mem.deleting,
           mem'.finalizer = mem.finalizer \/ (NoLive /\ pc' \in Patching /\ obj.deleting),
           pc' \in Creating \cup Emptied => NoLive,
           pc' \in Creating => mem'.instanceID = None /\ found'.id = None,
           pc' \in Unrecorded => pc \in Unrecorded /\ mem'.instanceID = mem.instanceID,
           role # "servicelb" /\ pc' \in Deleting => mem.deleting,
           pc' = "delOther" => mem.deleting
    PROVE  OwnerInv'
<1>1. (NoLive => NoLive') /\ AtMostOneLive'
  BY Zenon DEF NoneBorn, NoLive, Live, AtMostOneLive, OwnerInv, CreatesOnlyWhenNone
<1> UNCHANGED <<obj, base, role>>
  BY Zenon DEF Inside, around
<1>3. CreatesOnlyWhenNone'
  BY <1>1, Zenon DEF CreatesOnlyWhenNone
<1>4. RecordsLive'
  <2>1. obj.instanceID \in InstanceIDs \cup {None} /\ mem'.instanceID \in InstanceIDs \cup {None}
        /\ found'.id \in InstanceIDs \cup {None}
    BY ZenonT(60) DEF OwnerInv, TypeOK, Clusters
  <2>2. Known(obj.instanceID)' /\ Known(mem.instanceID)' /\ Known(found.id)'
    BY <2>1, Zenon DEF OwnerInv, RecordsLive, Known, OnlyLive, Live, NoneBorn
  <2> QED BY <2>2, Zenon DEF OwnerInv, RecordsLive
<1>5. FinalizerGoesLast'
  BY <1>1, Zenon DEF OwnerInv, FinalizerGoesLast, Patching
<1> QED BY <1>3, <1>4, <1>5, Zenon DEF OwnerInv

\* The calls of reconcileNormal other than Instances.Create.
LEMMA NormalKeepsOwner == ASSUME OwnerInv, Normal, pc # "create" PROVE OwnerInv'
<1> TypeOK' /\ Budget' /\ TypeOK /\ CloudTypeOK /\ AtMostOneLive
  BY NormalTypes, Zenon DEF OwnerInv, TypeOK, CreatesOnlyWhenNone
<1> Known(mem.instanceID) /\ Known(found.id) /\ Known(obj.instanceID)
  BY Zenon DEF OwnerInv, RecordsLive
<1>3. CASE ensureKeys
  <2>1. NoneBorn /\ Inside /\ pc = "keys" /\ found' = found
    BY <1>3, KeysEffect, IdleKeeps, Zenon DEF CloudKeeps
  <2>2. Kept /\ pc' \in {"find", "patchConditions"}
    BY <1>3, KeysEffect, PlainKeeps, Zenon
  <2> QED BY <2>1, <2>2, CallKeepsOwner, Zenon DEF Kept, Creating, Patching, Deleting, Emptied, Unrecorded
<1>4. CASE FindInstance
  <2>1. NoneBorn /\ Inside /\ pc = "find"
    BY <1>4, FindEffect, IdleKeeps, Zenon DEF CloudKeeps
  <2>2. CASE GivesUp /\ UNCHANGED found
    BY <2>1, <2>2, PlainKeeps, CallKeepsOwner, Zenon DEF Kept, Creating, Patching, Deleting, Emptied, Unrecorded
  <2>3. ASSUME NEW r \in findLoadBalancer, found' = r, IF r.id # None THEN Goes("record") ELSE Goes("script")
        PROVE  OwnerInv'
    <3>1. Known(r.id) /\ (r.id = None => NoLive /\ mem.instanceID = None)
      BY FindKnows, Zenon
    <3>2. Kept /\ pc' = (IF r.id # None THEN "record" ELSE "script")
      BY <2>3, PlainKeeps, Zenon
    <3> QED BY <2>1, <2>3, <3>1, <3>2, CallKeepsOwner, Zenon
            DEF Kept, Creating, Patching, Deleting, Emptied, Unrecorded
  <2> QED BY <1>4, <2>2, <2>3, FindEffect, Zenon
<1>5. CASE CreateRemovesScripts \/ CreateAddsScript
  <2>1. NoneBorn /\ Inside /\ pc \in {"script", "addScript"} /\ found' = found
    BY <1>5, ScriptEffect, Zenon DEF CloudKeeps
  <2>2. Kept /\ pc' \in {"addScript", "create", "patchConditions"}
    BY <1>5, ScriptEffect, PlainKeeps, Zenon
  <2>3. NoLive /\ mem.instanceID = None /\ found.id = None
    BY <2>1, Zenon DEF OwnerInv, RecordsLive, CreatesOnlyWhenNone, Creating
  <2> QED BY <2>1, <2>2, <2>3, CallKeepsOwner, Zenon DEF Kept, Creating, Patching, Deleting, Emptied, Unrecorded
<1>6. CASE RecordInstance
  <2>1. /\ NoneBorn /\ Inside /\ pc = "record" /\ found' = found
        /\ pc' \in {"patchConditions", "backends", "publish"}
    BY <1>6, RecordEffect, IdleKeeps, Zenon DEF CloudKeeps
  <2>2. mem'.instanceID = found.id /\ mem'.deleting = mem.deleting /\ mem'.finalizer = mem.finalizer
    BY <1>6, RecordEffect, Zenon DEF Rest, Fields
  <2> QED BY <2>1, <2>2, CallKeepsOwner, Zenon DEF Creating, Patching, Deleting, Emptied, Unrecorded
<1>7. CASE UpdateBackends \/ PublishSecret
  <2>1. NoneBorn /\ Inside /\ pc \in {"backends", "publish"} /\ found' = found /\ pc' = "patchConditions"
    BY <1>7, BackendsEffect, PublishEffect, IdleKeeps, Zenon DEF CloudKeeps, GivesUp
  <2>2. Kept
    BY <1>7, BackendsEffect, PublishEffect, PlainKeeps, Zenon
  <2> QED BY <2>1, <2>2, CallKeepsOwner, Zenon DEF Kept, Creating, Patching, Deleting, Emptied, Unrecorded
<1>8. CASE CreateInstance
  BY <1>8, CreateEffect, Zenon
<1> QED BY <1>3, <1>4, <1>5, <1>6, <1>7, <1>8, Zenon DEF Normal

\* Instances.Create brings to life the only instance.
LEMMA CreateKeepsOwner == ASSUME OwnerInv, CreateInstance PROVE OwnerInv'
<1> TypeOK' /\ Budget' /\ TypeOK /\ CloudTypeOK /\ pc = "create"
  BY NormalTypes, CreateEffect, ZenonT(60) DEF OwnerInv, TypeOK, Normal
<1> /\ NoLive /\ mem.instanceID = None /\ found.id = None /\ obj.instanceID = None /\ mem.finalizer
    /\ obj.finalizer /\ obj.exists
  BY Zenon DEF OwnerInv, RecordsLive, CreatesOnlyWhenNone, FinalizerGoesLast, Creating, Unrecorded, Patching
<1>3. Inside /\ UNCHANGED <<obj, base, role>>
  BY CreateEffect, ZenonT(60) DEF Inside, around
<1>4. Kept /\ pc' \in {"record", "patchConditions"}
  BY CreateEffect, PlainKeeps, Zenon
<1>5. ASSUME NEW i \in InstanceIDs, Born(i)
      PROVE  AtMostOneLive' /\ istatus'[i] # "none" /\ \A j \in InstanceIDs : Live(j)' => j = i
  BY <1>5, Zenon DEF Born, NoLive, Live, AtMostOneLive, LiveStatus
<1>6. AtMostOneLive' /\ Known(found.id)'
  <2>1. CASE \E i \in InstanceIDs : Born(i) /\ found' = [id |-> i, status |-> "provisioning"]
    <3>1. PICK i \in InstanceIDs : Born(i) /\ found' = [id |-> i, status |-> "provisioning"]
      BY <2>1, Zenon
    <3>2. found'.id = i
      BY <3>1, Zenon
    <3> QED BY <1>5, <3>1, <3>2, Zenon DEF Known, OnlyLive
  <2>2. CASE (\E i \in InstanceIDs : Born(i)) /\ UNCHANGED found
    BY <1>5, <2>2, Zenon DEF Known
  <2>3. CASE UNCHANGED <<istatus, found>>
    BY <2>3, Zenon DEF Known, AtMostOneLive, NoLive, Live
  <2> QED BY <2>1, <2>2, <2>3, CreateEffect, Zenon
<1>7. CreatesOnlyWhenNone' /\ RecordsLive'
  BY <1>3, <1>4, <1>6, Zenon DEF CreatesOnlyWhenNone, RecordsLive, Known, Kept, Creating, Emptied, Unrecorded
<1>8. FinalizerGoesLast'
  BY <1>3, <1>4, Zenon DEF OwnerInv, FinalizerGoesLast, Kept, Deleting, Creating
<1> QED BY <1>7, <1>8, Zenon DEF OwnerInv

\* The calls of reconcileDelete and deleteServiceLoadBalancer.
LEMMA DeleteKeepsOwner == ASSUME OwnerInv, Delete PROVE OwnerInv'
<1> TypeOK' /\ Budget' /\ TypeOK /\ CloudTypeOK /\ AtMostOneLive
  BY DeleteTypes, Zenon DEF OwnerInv, TypeOK, CreatesOnlyWhenNone
<1> Known(mem.instanceID) /\ Known(found.id) /\ Known(obj.instanceID)
  BY Zenon DEF OwnerInv, RecordsLive
<1> /\ role # "servicelb" /\ pc \in Deleting => mem.deleting
    /\ pc = "delOther" => mem.deleting
    /\ mem.deleting => obj.deleting
    /\ pc \in Emptied => NoLive
  BY Zenon DEF OwnerInv, FinalizerGoesLast, CreatesOnlyWhenNone
<1>4. ASSUME NEW elapsed \in BOOLEAN, DeleteFindsInstance(elapsed) PROVE OwnerInv'
  <2>1. NoneBorn /\ Inside /\ pc = "delFind"
    BY <1>4, DeleteFindEffect, IdleKeeps, Zenon DEF CloudKeeps
  <2>2. CASE GivesUp /\ UNCHANGED found
    BY <2>1, <2>2, PlainKeeps, CallKeepsOwner, ZenonT(60) DEF Kept, Creating, Patching, Deleting, Emptied, Unrecorded
  <2>3. ASSUME NEW r \in findLoadBalancer, found' = r,
               \/ r.status \notin LiveStatus /\ Goes("delScript")
               \/ r.status \notin LiveStatus /\ Goes("purge")
               \/ pc' = "delInstance" /\ Rest(mem', mem, {"delReq"})
               \/ GivesUp
        PROVE  OwnerInv'
    <3>1. Known(r.id) /\ (r.status \notin LiveStatus => NoLive)
      BY FindKnows, Zenon
    <3>2. Kept /\ pc' \in {"delScript", "purge", "delInstance", "patchConditions"}
          /\ (pc' \in {"delScript", "purge"} => NoLive)
      BY <2>3, <3>1, PlainKeeps, Zenon
    <3> QED BY <2>1, <2>3, <3>1, <3>2, CallKeepsOwner, Zenon
            DEF Kept, Creating, Patching, Deleting, Emptied, Unrecorded
  <2> QED BY <1>4, <2>2, <2>3, DeleteFindEffect, Zenon
<1>5. CASE DeleteRequestsInstance
  <2>1. NoneBorn /\ Inside /\ pc = "delInstance" /\ found' = found
    BY <1>5, DeleteRequestEffect, Zenon DEF CloudKeeps
  <2>2. Kept /\ pc' = "patchConditions"
    BY <1>5, DeleteRequestEffect, PlainKeeps, Zenon
  <2> QED BY <2>1, <2>2, CallKeepsOwner, Zenon DEF Kept, Creating, Patching, Deleting, Emptied, Unrecorded
<1>6. CASE DeletePurgesVolumes
  <2>1. NoneBorn /\ Inside /\ pc = "purge" /\ found' = found
    BY <1>6, PurgeEffect, Zenon DEF CloudKeeps
  <2>2. Kept /\ pc' \in {"patchConditions", "delScript"}
    BY <1>6, PurgeEffect, PlainKeeps, Zenon
  <2> QED BY <2>1, <2>2, CallKeepsOwner, Zenon
          DEF Kept, Creating, Patching, Deleting, Emptied, Unrecorded
<1>7. CASE DeleteScript
  <2>1. NoneBorn /\ Inside /\ pc = "delScript" /\ found' = found
    BY <1>7, DeleteScriptEffect, Zenon DEF CloudKeeps
  <2>2. CASE Kept /\ pc' = "patchConditions"
    BY <2>1, <2>2, CallKeepsOwner, ZenonT(60) DEF Kept, Creating, Patching, Deleting, Emptied, Unrecorded
  <2>3. CASE role # "servicelb" /\ pc' = "patchConditions" /\ Rest(mem', mem, {"scriptID", "finalizer"})
    <3>1. mem'.instanceID = mem.instanceID /\ mem'.deleting = mem.deleting
      BY <2>3, Zenon DEF Rest, Fields
    <3> QED BY <2>1, <2>3, <3>1, CallKeepsOwner, Zenon
            DEF Creating, Patching, Deleting, Emptied, Unrecorded
  <2>4. CASE role = "servicelb" /\ pc' = (IF mem.deleting THEN "delOther" ELSE "unpublish") /\ Kept
    BY <2>1, <2>4, CallKeepsOwner, Zenon DEF Kept, Creating, Patching, Deleting, Emptied, Unrecorded
  <2> QED BY <1>7, <2>2, <2>3, <2>4, DeleteScriptEffect, PlainKeeps, Zenon
<1>8. CASE DeleteOther
  <2>1. NoneBorn /\ Inside /\ pc = "delOther" /\ found' = found /\ pc' = "patchConditions"
    BY <1>8, DeleteOtherEffect, IdleKeeps, Zenon DEF CloudKeeps, GivesUp
  <2>2. mem'.instanceID = mem.instanceID /\ mem'.deleting = mem.deleting
    BY <1>8, DeleteOtherEffect, Zenon DEF Rest, Fields, GivesUp
  <2> QED BY <2>1, <2>2, CallKeepsOwner, Zenon
          DEF Creating, Patching, Deleting, Emptied, Unrecorded
<1>9. CASE RemoveSecret
  <2>1. NoneBorn /\ Inside /\ pc = "unpublish" /\ found' = found /\ pc' = "patchConditions"
    BY <1>9, UnpublishEffect, IdleKeeps, Zenon DEF CloudKeeps
  <2>2. mem'.instanceID = None /\ mem'.deleting = mem.deleting /\ mem'.finalizer = mem.finalizer
    BY <1>9, UnpublishEffect, Zenon DEF Rest, Fields
  <2> QED BY <2>1, <2>2, CallKeepsOwner, Zenon
          DEF Known, Creating, Patching, Deleting, Emptied, Unrecorded
<1> QED BY <1>4, <1>5, <1>6, <1>7, <1>8, <1>9, Zenon DEF Delete

\* What a step has to respect that leaves the reconcile where it is, or between
\* two requests of its patch.
LEMMA ObjectKeepsOwner ==
    ASSUME OwnerInv, TypeOK', Budget', NoneBorn, UNCHANGED <<mem, base, found, role>>,
           pc' = pc \/ (pc \in Patching /\ pc' \in Patching),
           obj'.instanceID = obj.instanceID, obj.deleting => obj'.deleting, obj'.finalizer => obj'.exists,
           ~obj'.finalizer => /\ NoLive /\ pc' \in {"idle", "patchStatus"}
                              /\ obj'.exists => ~obj'.deleting /\ pc' = "idle"
                              /\ ~obj'.deleting => obj'.instanceID = None
    PROVE  OwnerInv'
<1>1. (NoLive => NoLive') /\ AtMostOneLive'
  BY Zenon DEF NoneBorn, NoLive, Live, AtMostOneLive, OwnerInv, CreatesOnlyWhenNone
<1>2. CreatesOnlyWhenNone'
  BY <1>1, Zenon DEF CreatesOnlyWhenNone, OwnerInv, Creating, Emptied, Patching
<1>3. RecordsLive'
  <2>1. obj.instanceID \in InstanceIDs \cup {None} /\ mem.instanceID \in InstanceIDs \cup {None}
        /\ found.id \in InstanceIDs \cup {None}
    BY ZenonT(60) DEF OwnerInv, TypeOK, Clusters
  <2>2. Known(obj.instanceID)' /\ Known(mem.instanceID)' /\ Known(found.id)'
    BY <2>1, ZenonT(60) DEF OwnerInv, RecordsLive, Known, OnlyLive, Live, NoneBorn
  <2> QED BY <2>2, Zenon DEF OwnerInv, RecordsLive, Creating, Unrecorded, Patching
<1>4. FinalizerGoesLast'
  BY <1>1, Zenon DEF OwnerInv, FinalizerGoesLast, Patching, Deleting
<1> QED BY <1>2, <1>3, <1>4, Zenon DEF OwnerInv

\* What the end of a reconcile has to respect.
LEMMA EndKeepsOwner ==
    ASSUME OwnerInv, TypeOK', Budget', istatus' = istatus, Ends, Known(obj'.instanceID),
           obj'.finalizer => obj'.exists,
           ~obj'.finalizer => /\ NoLive
                              /\ obj'.exists => ~obj'.deleting
                              /\ ~obj'.deleting => obj'.instanceID = None
    PROVE  OwnerInv'
<1>1. (NoLive => NoLive') /\ AtMostOneLive'
  BY Zenon DEF NoLive, Live, AtMostOneLive, OwnerInv, CreatesOnlyWhenNone
<1> mem'.instanceID = None /\ mem'.deleting = FALSE /\ found'.id = None /\ pc' = "idle"
  BY NewClusterFields, ZenonT(60) DEF Ends, NoInstance
<1>3. CreatesOnlyWhenNone'
  BY <1>1, Zenon DEF CreatesOnlyWhenNone, Creating, Emptied
<1>4. RecordsLive'
  BY Zenon DEF RecordsLive, Known, OnlyLive, Live, Creating, Unrecorded
<1>5. FinalizerGoesLast'
  BY <1>1, Zenon DEF FinalizerGoesLast, Patching, Deleting
<1> QED BY <1>3, <1>4, <1>5, Zenon DEF OwnerInv

\* What a request of the patch does to the parts of the object that the owner
\* sees: the finalizer goes when the reconcile has removed it, and the object with
\* it.
LEMMA PatchSees ==
    ASSUME OwnerInv, PatchConditions \/ PatchMeta \/ PatchStatus
    PROVE  /\ obj'.deleting = obj.deleting
           /\ pc # "patchStatus" => obj'.instanceID = obj.instanceID
           /\ obj'.instanceID \in {obj.instanceID, mem.instanceID}
           /\ \/ obj'.finalizer = obj.finalizer /\ obj'.exists = obj.exists
              \/ /\ pc = "patchMeta" /\ ~mem.finalizer /\ obj.deleting /\ obj.exists
                 /\ ~obj'.finalizer /\ ~obj'.exists
           /\ obj' # obj => obj.finalizer
<1> /\ TypeOK /\ mem.finalizer \in BOOLEAN /\ base.finalizer \in BOOLEAN /\ obj.finalizer \in BOOLEAN
    /\ obj.exists \in BOOLEAN /\ obj'.exists \in BOOLEAN
  BY PatchesEffect, ZenonT(60) DEF OwnerInv, TypeOK, Clusters
<1>2. /\ pc \in Patching /\ base.finalizer /\ (~mem.finalizer => obj.deleting)
      /\ obj.finalizer => obj.exists
      /\ ~obj.finalizer => ~obj.exists /\ pc = "patchStatus"
  BY PatchesEffect, Zenon DEF OwnerInv, FinalizerGoesLast, Patching
<1>3. CASE obj' = obj
  BY <1>3, Zenon
<1>4. CASE obj' # obj
  <2>1. obj.exists /\ obj.finalizer
    BY <1>2, <1>4, PatchesEffect, Zenon
  <2>2. CASE PatchConditions
    <3>1. Rest(obj', obj, {"ready", "exists"}) /\ obj'.exists = (obj'.finalizer \/ ~obj'.deleting)
      BY <1>4, <2>2, ConditionsEffect, Zenon DEF Unpatched
    <3> QED BY <2>1, <3>1, Zenon DEF Rest, Fields
  <2>3. CASE PatchStatus
    <3>1. /\ pc = "patchStatus" /\ Merged("instanceID")
          /\ Rest(obj', obj, {"instanceID", "scriptID", "backends", "provisioned", "exists"})
          /\ obj'.exists = (obj'.finalizer \/ ~obj'.deleting)
      BY <1>4, <2>3, StatusEffect, ZenonT(60) DEF Unpatched, PatchStatus, PatchRequest
    <3> QED BY <2>1, <3>1, Zenon DEF Rest, Fields, Merged
  <2>4. CASE PatchMeta
    <3>1. /\ pc = "patchMeta" /\ Merged("finalizer") /\ Rest(obj', obj, {"endpoint", "delReq", "finalizer", "exists"})
          /\ obj'.exists = (obj'.finalizer \/ ~obj'.deleting)
      BY <1>4, <2>4, MetaEffect, ZenonT(60) DEF Unpatched, PatchMeta, PatchRequest
    <3>2. obj'.deleting = obj.deleting /\ obj'.instanceID = obj.instanceID
      BY <3>1, Zenon DEF Rest, Fields
    <3> QED BY <1>2, <2>1, <3>1, <3>2, Zenon DEF Merged
  <2> QED BY <2>2, <2>3, <2>4, Zenon
<1> QED BY <1>3, <1>4, Zenon

\* Reconcile, its patch and what happens around it.
LEMMA AroundKeepsOwner ==
    ASSUME OwnerInv, [Next]_vars, ~(Normal \/ Delete) PROVE OwnerInv'
<1> TypeOK' /\ Budget' /\ TypeOK /\ CloudTypeOK
  BY StepTypes, Zenon DEF OwnerInv, TypeOK
<1> UNCHANGED cloudVars => NoneBorn /\ istatus' = istatus
  BY IdleKeeps, Zenon DEF CloudKeeps, cloudVars
<1>3. CASE ReconcileWaits \/ KeySecretLost \/ CloudMoves \/ UNCHANGED vars
  <2>1. UNCHANGED <<obj, pc, mem, base, found, role>>
    BY <1>3, Zenon DEF ReconcileWaits, KeySecretLost, CloudMoves, vars, scope, around
  <2>2. NoneBorn
    BY <1>3, CloudStepKeeps, Zenon DEF ReconcileWaits, KeySecretLost, CloudMoves, vars, CloudKeeps
  <2> QED BY <2>1, <2>2, ObjectKeepsOwner, ZenonT(60) DEF OwnerInv, FinalizerGoesLast
<1>4. CASE EnsureFinalizer
  <2>1. NoneBorn /\ UNCHANGED <<pc, mem, base, found, role>>
    BY <1>4, FinalizerEffect, Zenon DEF scope, around
  <2>2. obj' = obj \/ (obj'.finalizer /\ obj'.exists = obj.exists /\ obj'.instanceID = obj.instanceID
                       /\ obj'.deleting = obj.deleting)
    BY <1>4, FinalizerEffect, Zenon DEF Rest, Fields
  <2>3. obj.exists
    BY <1>4, FinalizerEffect, Zenon
  <2> QED BY <2>1, <2>2, <2>3, ObjectKeepsOwner, Zenon DEF OwnerInv, FinalizerGoesLast
<1>5. CASE ReconcileStarts
  <2>1. /\ istatus' = istatus /\ UNCHANGED <<obj, found, role>> /\ base' = obj
        /\ pc' \in {"keys", "delFind", "patchConditions"} /\ obj.finalizer
    BY <1>5, StartEffect, ZenonT(60) DEF around, OwnerInv, FinalizerGoesLast
  <2>2. /\ mem'.instanceID = obj.instanceID /\ mem'.deleting = obj.deleting /\ mem'.finalizer = obj.finalizer
        /\ pc' = "delFind" => obj.deleting \/ role = "servicelb"
    <3>1. CASE mem' = obj
      BY <1>5, <3>1, StartEffect, Zenon
    <3>2. CASE pc' = "patchConditions" /\ Rest(mem', obj, {"ready"})
      BY <3>2, Zenon DEF Rest, Fields
    <3>3. CASE pc' = "patchConditions" /\ Rest(mem', obj, {"endpoint", "ready", "provisioned"})
      BY <3>3, Zenon DEF Rest, Fields
    <3> QED BY <1>5, <3>1, <3>2, <3>3, StartEffect, Zenon
  <2>3. CreatesOnlyWhenNone' /\ (NoLive => NoLive')
    BY <2>1, Zenon DEF OwnerInv, CreatesOnlyWhenNone, AtMostOneLive, NoLive, Live, Creating, Emptied
  <2>4. RecordsLive'
    BY <2>1, <2>2, Zenon DEF OwnerInv, RecordsLive, Known, OnlyLive, Live, Creating
  <2>5. FinalizerGoesLast'
    BY <2>1, <2>2, <2>3, Zenon DEF OwnerInv, FinalizerGoesLast, Deleting
  <2> QED BY <2>3, <2>4, <2>5, Zenon DEF OwnerInv
<1>6. CASE PatchConditions \/ PatchMeta \/ PatchStatus
  <2>1. NoneBorn /\ istatus' = istatus /\ role' = role
    BY <1>6, PatchesEffect, Zenon DEF around
  <2>2. /\ obj'.deleting = obj.deleting
        /\ obj'.finalizer => obj'.exists
        /\ ~obj'.finalizer => NoLive /\ ~obj'.exists /\ (~obj'.deleting => obj'.instanceID = None)
        /\ ~obj'.finalizer => pc # "patchConditions"
    <3>1. CASE obj'.finalizer = obj.finalizer /\ obj'.exists = obj.exists
      <4>1. obj' # obj => obj.finalizer
        BY <1>6, PatchSees, Zenon
      <4>2. obj'.deleting = obj.deleting
        BY <1>6, PatchSees, Zenon
      <4>3. pc \in {"patchConditions", "patchMeta", "patchStatus"}
        BY <1>6, PatchesEffect, Zenon
      <4>4. ~obj.finalizer => /\ NoLive /\ ~obj.exists /\ pc # "patchConditions"
                              /\ ~obj.deleting => obj.instanceID = None
        BY <4>3, Zenon DEF OwnerInv, FinalizerGoesLast
      <4>5. obj.finalizer => obj.exists
        BY Zenon DEF OwnerInv, FinalizerGoesLast
      <4> QED BY <3>1, <4>1, <4>2, <4>4, <4>5, Zenon
    <3>2. CASE /\ pc = "patchMeta" /\ ~mem.finalizer /\ obj.deleting /\ obj.exists
               /\ ~obj'.finalizer /\ ~obj'.exists
      BY <1>6, <3>2, PatchSees, Zenon DEF OwnerInv, FinalizerGoesLast
    <3> QED BY <1>6, <3>1, <3>2, PatchSees, Zenon
  <2>3. CASE pc = "patchStatus"
    <3>1. Known(obj'.instanceID) /\ Ends
      BY <1>6, <2>3, PatchSees, PatchesEffect, ZenonT(60) DEF OwnerInv, RecordsLive
    <3> QED BY <2>1, <2>2, <3>1, EndKeepsOwner, ZenonT(60)
  <2>4. CASE pc \in {"patchConditions", "patchMeta"}
    <3>1. /\ obj'.instanceID = obj.instanceID /\ UNCHANGED <<mem, base, found>>
          /\ pc' = (IF pc = "patchMeta" THEN "patchStatus" ELSE "patchMeta")
      BY <1>6, <2>4, PatchSees, PatchesEffect, Zenon
    <3> QED BY <2>1, <2>2, <2>4, <3>1, ObjectKeepsOwner, Zenon DEF Patching
  <2> QED BY <1>6, <2>3, <2>4, PatchesEffect, Zenon
<1>7. CASE Environment
  <2>1. NoneBorn /\ UNCHANGED <<pc, mem, base, found, role>>
    BY <1>7, EnvironmentEffect, Zenon DEF Outside, scope
  <2>2. /\ obj'.instanceID = obj.instanceID /\ obj'.finalizer = obj.finalizer
        /\ obj.deleting => obj'.deleting
        /\ obj'.finalizer => obj'.exists
        /\ ~obj'.finalizer => obj'.deleting = obj.deleting /\ (obj'.exists => obj.exists)
    <3>1. CASE obj' = obj
      BY <3>1, Zenon DEF OwnerInv, FinalizerGoesLast
    <3>2. CASE obj.finalizer /\ Rest(obj', obj, {"deleting"}) /\ obj'.deleting
      BY <3>2, Zenon DEF Rest, Fields, OwnerInv, FinalizerGoesLast
    <3>3. CASE ~obj.finalizer /\ Rest(obj', obj, {"exists"}) /\ ~obj'.exists
      BY <3>3, Zenon DEF Rest, Fields
    <3>4. CASE Rest(obj', obj, {"enabled"}) \/ Rest(obj', obj, {"endpoint"})
      BY <3>4, Zenon DEF Rest, Fields, OwnerInv, FinalizerGoesLast
    <3> QED BY <1>7, <3>1, <3>2, <3>3, <3>4, EnvironmentEffect, ZenonT(60)
  <2> QED BY <2>1, <2>2, ObjectKeepsOwner, ZenonT(60) DEF OwnerInv, FinalizerGoesLast
<1>8. CASE Crash
  <2>1. istatus' = istatus /\ obj' = obj /\ Ends
    BY <1>8, Zenon DEF Crash, Ends
  <2> QED BY <2>1, EndKeepsOwner, Zenon DEF OwnerInv, FinalizerGoesLast, RecordsLive
<1> QED BY <1>3, <1>4, <1>5, <1>6, <1>7, <1>8, Zenon DEF Next, Controller, Surroundings, Environment

\* A new cluster has no instance.
LEMMA InitOwner == ASSUME Init PROVE OwnerInv
<1> NoLive /\ obj = NewCluster /\ mem = NewCluster /\ found.id = None /\ pc = "idle"
  BY Zenon DEF Init, CloudInit, NoLive, Live, LiveStatus, NoInstance
<1>2. RecordsLive
  BY NewClusterFields, Zenon DEF RecordsLive, Known, Creating, Unrecorded
<1>3. CreatesOnlyWhenNone
  BY Zenon DEF CreatesOnlyWhenNone, AtMostOneLive, NoLive, Creating, Emptied
<1>4. FinalizerGoesLast
  BY NewClusterFields, Zenon DEF FinalizerGoesLast, Deleting
<1> QED BY <1>2, <1>3, <1>4, InitTypes, Zenon DEF OwnerInv

\* Every step keeps the invariant.
LEMMA StepOwner == ASSUME OwnerInv, [Next]_vars PROVE OwnerInv'
<1>1. CASE CreateInstance
  BY <1>1, CreateKeepsOwner, Zenon
<1>2. CASE Normal /\ ~CreateInstance
  <2>1. pc # "create"
    BY <1>2, KeysEffect, FindEffect, ScriptEffect, RecordEffect, BackendsEffect, PublishEffect, Zenon DEF Normal, OwnerInv
  <2> QED BY <1>2, <2>1, NormalKeepsOwner, Zenon
<1>3. CASE Delete
  BY <1>3, DeleteKeepsOwner
<1>4. CASE ~(Normal \/ Delete)
  BY <1>4, AroundKeepsOwner, Zenon
<1> QED BY <1>1, <1>2, <1>3, <1>4, Zenon

\* What holds of instance and object in every reachable state: a reconcile begins
\* to create only when there is no instance, no ID is recorded but that of the one
\* there is, and the finalizer goes last.
THEOREM ClusterInvariant == Spec => []OwnerInv
<1>1. Init => OwnerInv
  BY InitOwner, Zenon
<1>2. OwnerInv /\ [Next]_vars => OwnerInv'
  BY StepOwner, Zenon
<1> QED BY <1>1, <1>2, PTL DEF Spec

\* However many calls fail or reply too late and however often the manager
\* crashes, a VerdaCluster never has two instances for the same load balancer.
THEOREM ClusterHasOne == Spec => []AtMostOneLive
<1>1. OwnerInv => AtMostOneLive
  BY Zenon DEF OwnerInv, CreatesOnlyWhenNone
<1> QED BY <1>1, ClusterInvariant, PTL

-----------------------------------------------------------------------------
(* What the calls of a reconcile have in common.                           *)

WithKeys == Creating \cup {"find", "record", "backends", "publish"}

\* No call but Instances.Create brings an instance to life, none but ensureKeys
\* touches the keys, and none takes the object out of the queue.
LEMMA CallFrame ==
    ASSUME TypeOK, (Normal /\ ~CreateInstance) \/ Delete
    PROVE  /\ Inside /\ Calls /\ NoneBorn /\ (queued => queued')
           /\ pc \notin Patching \cup {"idle"} /\ pc' \notin {"idle", "keys", "patchMeta", "patchStatus"}
           /\ ensureKeys \/ (KeepsKeys /\ (pc' \in WithKeys => pc \in WithKeys))
<1> UNCHANGED cloudVars => NoneBorn
  BY IdleKeeps, Zenon DEF CloudKeeps, TypeOK
<1> (queued' = TRUE => queued') /\ (queued' = queued => (queued => queued'))
  BY Zenon
<1> USE DEF Patching, WithKeys, Creating
<1>2. CASE ensureKeys
  BY <1>2, KeysEffect, Zenon DEF Goes, GivesUp
<1>3. CASE FindInstance
  BY <1>3, FindEffect, Zenon DEF Goes, GivesUp
<1>4. CASE CreateRemovesScripts \/ CreateAddsScript
  BY <1>4, ScriptEffect, Zenon DEF Goes, GivesUp, CloudKeeps
<1>5. CASE RecordInstance
  BY <1>5, RecordEffect, Zenon
<1>6. CASE UpdateBackends
  BY <1>6, BackendsEffect, Zenon
<1>7. CASE PublishSecret
  BY <1>7, PublishEffect, Zenon DEF GivesUp
<1>8. ASSUME NEW elapsed \in BOOLEAN, DeleteFindsInstance(elapsed)
      PROVE  /\ Inside /\ Calls /\ NoneBorn /\ KeepsKeys /\ (queued => queued') /\ pc = "delFind"
             /\ pc' \in {"delScript", "purge", "delInstance", "patchConditions"}
  BY <1>8, DeleteFindEffect, Zenon DEF Goes, GivesUp
<1>9. CASE DeleteRequestsInstance
  BY <1>9, DeleteRequestEffect, Zenon DEF GivesUp, CloudKeeps
<1>10. CASE DeletePurgesVolumes
  BY <1>10, PurgeEffect, Zenon DEF Goes, GivesUp, CloudKeeps
<1>11. CASE DeleteScript
  BY <1>11, DeleteScriptEffect, Zenon DEF GivesUp, CloudKeeps
<1>12. CASE DeleteOther
  BY <1>12, DeleteOtherEffect, Zenon DEF GivesUp
<1>13. CASE RemoveSecret
  BY <1>13, UnpublishEffect, Zenon
<1> QED BY <1>2, <1>3, <1>4, <1>5, <1>6, <1>7, <1>8, <1>9, <1>10, <1>11, <1>12, <1>13, Zenon DEF Normal, Delete

-----------------------------------------------------------------------------
(* Every step is a step of the owner.                                      *)

LiveOnes == {i \in InstanceIDs : Live(i)}
Used == {i \in InstanceIDs : istatus[i] # "none"}

\* A step in which nothing is born and the object keeps its phase is the end of
\* the instance, or no step of the owner at all.
LEMMA QuietStep ==
    ASSUME OwnerInv, NoneBorn, UNCHANGED Phase
    PROVE  [Owner!Next]_(Owner!vars)
<1> LiveOnes' \subseteq LiveOnes /\ Used' = Used
  BY Zenon DEF LiveOnes, Used, Live, NoneBorn
<1>2. LiveOnes' = LiveOnes \/ (LiveOnes # {} /\ LiveOnes' = {})
  BY Zenon DEF LiveOnes, OwnerInv, CreatesOnlyWhenNone, AtMostOneLive
<1>3. CASE LiveOnes' = LiveOnes
  BY <1>3, Zenon DEF Owner!vars, LiveOnes, Used
<1>4. CASE LiveOnes # {} /\ LiveOnes' = {}
  <2>1. Owner!End
    BY <1>4, Zenon DEF Owner!End, LiveOnes, Used
  <2> QED BY <2>1, Zenon DEF Owner!Next
<1> QED BY <1>2, <1>3, <1>4, Zenon

\* Instances.Create is the beginning of a new instance, unless it fails.
LEMMA CreateStep == ASSUME OwnerInv, CreateInstance PROVE [Owner!Next]_(Owner!vars)
<1>1. TypeOK /\ CloudTypeOK
  BY Zenon DEF OwnerInv, TypeOK
<1>2. NoLive /\ obj.exists /\ obj' = obj
  BY <1>1, CreateEffect, Zenon DEF OwnerInv, CreatesOnlyWhenNone, FinalizerGoesLast, Creating, Inside
<1>3. Phase # "gone" /\ Phase' = Phase
  BY <1>2, Zenon DEF Phase
<1>4. CASE UNCHANGED istatus
  <2>1. NoneBorn
    BY <1>4, Zenon DEF NoneBorn
  <2> QED BY <1>3, <2>1, QuietStep, Zenon
<1>5. ASSUME NEW i \in InstanceIDs, Born(i) PROVE Owner!Begin(i)
  <2>1. LiveOnes = {} /\ LiveOnes' = {i}
    BY <1>2, <1>5, Zenon DEF LiveOnes, NoLive, Live, Born, LiveStatus
  <2>2. i \notin Used /\ Used' = Used \cup {i}
    BY <1>5, Zenon DEF Used, Born
  <2> QED BY <1>3, <2>1, <2>2, Zenon DEF Owner!Begin, LiveOnes, Used
<1> QED BY <1>1, <1>4, <1>5, CreateEffect, Zenon DEF Owner!Next

\* The user's delete and the patch that removes the finalizer are the owner's
\* steps of that meaning.
LEMMA ObjectStep ==
    ASSUME OwnerInv, Environment \/ EnsureFinalizer \/ PatchConditions \/ PatchMeta \/ PatchStatus
    PROVE  [Owner!Next]_(Owner!vars)
<1> TypeOK /\ istatus' = istatus /\ obj.deleting \in BOOLEAN
  BY EnvironmentEffect, FinalizerEffect, PatchesEffect, Zenon DEF OwnerInv, Outside, cloudVars, TypeOK, Clusters
<1> LiveOnes' = LiveOnes /\ Used' = Used /\ (NoLive => LiveOnes = {})
  BY Zenon DEF LiveOnes, Used, NoLive, Live
<1>3. CASE UNCHANGED Phase
  BY <1>3, Zenon DEF Owner!vars, LiveOnes, Used
<1>4. CASE Environment
  <2>1. CASE obj.finalizer /\ Rest(obj', obj, {"deleting"}) /\ obj'.deleting
    <3>1. obj.exists /\ obj'.exists
      BY <2>1, Zenon DEF Rest, Fields, OwnerInv, FinalizerGoesLast
    <3>2. UNCHANGED Phase \/ (Phase = "present" /\ Phase' = "deleting")
      BY <2>1, <3>1, Zenon DEF Phase
    <3>3. CASE Phase = "present" /\ Phase' = "deleting"
      <4>1. Owner!Ask
        BY <3>3, Zenon DEF Owner!Ask, LiveOnes, Used
      <4> QED BY <4>1, Zenon DEF Owner!Next
    <3> QED BY <1>3, <3>2, <3>3, Zenon
  <2>2. CASE obj.exists /\ ~obj.deleting /\ ~obj.finalizer /\ ~obj'.exists
    <3>1. Phase = "present" /\ Phase' = "gone" /\ NoLive
      BY <2>2, Zenon DEF Phase, OwnerInv, FinalizerGoesLast
    <3>2. Owner!Ask
      BY <3>1, Zenon DEF Owner!Ask, LiveOnes, Used
    <3> QED BY <3>2 DEF Owner!Next
  <2>3. CASE obj' = obj \/ Rest(obj', obj, {"enabled"}) \/ Rest(obj', obj, {"endpoint"})
    BY <1>3, <2>3, Zenon DEF Phase, Rest, Fields
  <2> QED BY <1>4, <2>1, <2>2, <2>3, EnvironmentEffect, Zenon
<1>5. CASE EnsureFinalizer
  <2>1. obj' = obj \/ Rest(obj', obj, {"finalizer"})
    BY <1>5, FinalizerEffect, Zenon
  <2> QED BY <1>3, <2>1, Zenon DEF Phase, Rest, Fields
<1>6. CASE PatchConditions \/ PatchMeta \/ PatchStatus
  <2>1. CASE obj'.exists = obj.exists /\ obj'.deleting = obj.deleting
    BY <1>3, <2>1, Zenon DEF Phase
  <2>2. CASE pc = "patchMeta" /\ ~mem.finalizer /\ obj.deleting /\ obj.exists /\ ~obj'.exists
    <3>1. Phase = "deleting" /\ Phase' = "gone" /\ NoLive
      BY <2>2, Zenon DEF Phase, OwnerInv, FinalizerGoesLast
    <3>2. Owner!Release
      BY <3>1, Zenon DEF Owner!Release, LiveOnes, Used
    <3> QED BY <3>2, Zenon DEF Owner!Next
  <2> QED BY <1>6, <2>1, <2>2, PatchSees, Zenon
<1> QED BY <1>4, <1>5, <1>6, Zenon

\* Every step of the cluster is a step of the owner or none.
LEMMA NextStep == ASSUME OwnerInv, [Next]_vars PROVE [Owner!Next]_(Owner!vars)
<1> TypeOK /\ CloudTypeOK
  BY Zenon DEF OwnerInv, TypeOK
<1>2. UNCHANGED cloudVars => NoneBorn
  BY IdleKeeps, Zenon DEF CloudKeeps
<1>3. CASE CreateInstance
  BY <1>3, CreateStep, Zenon
<1>4. CASE Environment \/ EnsureFinalizer \/ PatchConditions \/ PatchMeta \/ PatchStatus
  BY <1>4, ObjectStep, Zenon
<1>5. CASE (Normal /\ ~CreateInstance) \/ Delete
  <2>1. Inside /\ NoneBorn
    BY <1>5, CallFrame, Zenon
  <2> QED BY <2>1, QuietStep, Zenon DEF Inside, Phase
<1>6. CASE ReconcileWaits \/ ReconcileStarts \/ KeySecretLost \/ Crash \/ CloudMoves \/ UNCHANGED vars
  <2>1. obj' = obj
    BY <1>6, Zenon DEF ReconcileWaits, ReconcileStarts, KeySecretLost, Crash, CloudMoves, vars
  <2>2. NoneBorn
    BY <1>2, <1>6, CloudStepKeeps, Zenon
       DEF ReconcileWaits, ReconcileStarts, KeySecretLost, Crash, CloudMoves, vars, CloudKeeps
  <2> QED BY <2>1, <2>2, QuietStep, Zenon DEF Phase
<1> QED BY <1>3, <1>4, <1>5, <1>6, Zenon DEF Next, Controller, Surroundings, Environment

\* The reconciler of a VerdaCluster implements InstanceOwner for each of its two
\* instances: however calls fail, whenever the manager crashes and however often
\* the service load balancer is switched off and on, what becomes of its instances
\* is what becomes of those of an owner of at most one.
THEOREM Implements == Spec => ImplementsOwner
<1>1. Init => Owner!Init
  BY DEF Init, CloudInit, NewCluster, Owner!Init, Phase, Live, LiveStatus
<1>2. OwnerInv /\ [Next]_vars => [Owner!Next]_(Owner!vars)
  BY NextStep, Zenon
<1> QED BY <1>1, <1>2, ClusterInvariant, PTL DEF Spec, ImplementsOwner, Owner!Spec

-----------------------------------------------------------------------------
(* The keys.                                                               *)

\* From ensureKeys on a reconcile works with the keys of the Secret.
KeysKnown == pc \in WithKeys => keys = keySecret /\ keySecret # 0

\* Every instance was created with them.
KeysUsed == \A i \in InstanceIDs : istatus[i] # "none" => ikeys[i] = keySecret /\ keySecret # 0

KeyInv == "keyloss" \notin Env => KeysKnown /\ KeysUsed

\* A step that creates neither an instance nor keys, and goes on to a call that
\* needs keys only with those the reconcile has.
LEMMA PlainKeepsKeys ==
    ASSUME KeyInv, NoneBorn, UNCHANGED <<keySecret, ikeys>>,
           pc' \in WithKeys => pc \in WithKeys /\ keys' = keys
    PROVE  KeyInv'
BY Zenon DEF KeyInv, KeysKnown, KeysUsed, NoneBorn

\* Every step keeps the keys.
LEMMA StepKeys == ASSUME OwnerInv, KeyInv, [Next]_vars PROVE KeyInv'
<1> TypeOK /\ CloudTypeOK
  BY Zenon DEF OwnerInv, TypeOK
<1> UNCHANGED cloudVars => NoneBorn /\ istatus' = istatus
  BY IdleKeeps, Zenon DEF CloudKeeps, cloudVars
<1>3. CASE ensureKeys
  <2>1. /\ istatus' = istatus /\ ikeys' = ikeys /\ (keySecret # 0 => keySecret' = keySecret)
        /\ \/ keys' = keySecret' /\ keySecret' # 0
           \/ pc' = "patchConditions"
    BY <1>3, KeysEffect, Zenon DEF GivesUp
  <2> QED BY <2>1, Zenon DEF KeyInv, KeysKnown, KeysUsed, WithKeys, Creating
<1>4. CASE CreateInstance
  <2>1. /\ pc = "create" /\ UNCHANGED <<keys, keySecret>> /\ pc' \in {"record", "patchConditions"}
        /\ ikeys' = [i \in InstanceIDs |-> IF istatus[i] = "none" /\ istatus'[i] # "none" THEN keys ELSE ikeys[i]]
    BY <1>4, CreateEffect, Zenon DEF Goes, GivesUp
  <2> QED BY <2>1, Zenon DEF KeyInv, KeysKnown, KeysUsed, WithKeys, Creating
<1>5. CASE ((Normal /\ ~CreateInstance) \/ Delete) /\ ~ensureKeys
  <2>1. NoneBorn /\ KeepsKeys /\ (pc' \in WithKeys => pc \in WithKeys)
    BY <1>5, CallFrame, Zenon
  <2> QED BY <2>1, PlainKeepsKeys, Zenon DEF KeepsKeys
<1>6. CASE ReconcileStarts \/ Crash
  <2>1. NoneBorn /\ UNCHANGED <<keySecret, ikeys>> /\ pc' \in {"keys", "delFind", "patchConditions", "idle"}
    BY <1>6, StartEffect, Zenon DEF Crash, outside
  <2> QED BY <2>1, PlainKeepsKeys, Zenon DEF WithKeys, Creating
<1>7. CASE PatchConditions \/ PatchMeta \/ PatchStatus
  <2>1. NoneBorn /\ UNCHANGED <<keySecret, ikeys>> /\ pc' \in {"patchMeta", "patchStatus", "idle"}
    BY <1>7, PatchesEffect, Zenon DEF outside, Ends
  <2> QED BY <2>1, PlainKeepsKeys, Zenon DEF WithKeys, Creating
<1>8. CASE ReconcileWaits \/ EnsureFinalizer \/ Environment \/ CloudMoves \/ UNCHANGED vars
  <2>1. UNCHANGED <<keySecret, ikeys, pc, keys>>
    BY <1>8, FinalizerEffect, EnvironmentEffect, Zenon
       DEF ReconcileWaits, CloudMoves, vars, Outside, outside, scope
  <2>2. NoneBorn
    BY <1>8, FinalizerEffect, EnvironmentEffect, CloudStepKeeps, Zenon
       DEF ReconcileWaits, CloudMoves, vars, Outside, CloudKeeps
  <2> QED BY <2>1, <2>2, PlainKeepsKeys, Zenon
<1>9. CASE KeySecretLost
  BY <1>9, Zenon DEF KeySecretLost, KeyInv
<1> QED BY <1>3, <1>4, <1>5, <1>6, <1>7, <1>8, <1>9, Zenon DEF Next, Controller, Surroundings, Environment, Normal

\* The keys of an instance are never lost: an inductive invariant.
THEOREM KeysInvariant == Spec => []KeyInv
<1>1. Init => KeyInv
  BY DEF Init, CloudInit, KeyInv, KeysKnown, KeysUsed, WithKeys, Creating
<1>2. OwnerInv /\ KeyInv /\ [Next]_vars => KeyInv'
  BY StepKeys, Zenon
<1> QED BY <1>1, <1>2, ClusterInvariant, PTL DEF Spec

\* The Secret always holds the keys of the load balancer there is, so that it can
\* be configured, whatever failed between ensureKeys and Instances.Create.
THEOREM KeysOpen == Spec => []KeysOpenInstance
<1>1. KeyInv => KeysOpenInstance
  BY Zenon DEF KeyInv, KeysUsed, KeysOpenInstance, Live, LiveStatus
<1> QED BY <1>1, KeysInvariant, PTL

=============================================================================
