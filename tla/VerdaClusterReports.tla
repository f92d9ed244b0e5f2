------------------------ MODULE VerdaClusterReports -------------------------
(***************************************************************************)
(* Proofs about VerdaCluster, concluded: what the object, the Secret of    *)
(* the workload cluster and the account say when no reconcile is due.      *)
(***************************************************************************)
EXTENDS VerdaClusterProofs

-----------------------------------------------------------------------------
(* The copies of the object.                                               *)

\* Which instance takes which path, and what a reconcile has written down before
\* it configures it.
PathInv ==
    /\ pc \in Making => role # "user"
    /\ pc = "publish" => role # "lb"
    /\ pc = "backends" => role = "lb" /\ mem.endpoint = found.id
    /\ pc \in {"delOther", "unpublish"} => role = "servicelb"
    /\ pc \in {"backends", "publish"} => mem.instanceID = found.id
    /\ pc = "record" /\ mem.instanceID # None => found.id = mem.instanceID

\* What the copy that was read has in common with the object, and what has become
\* of the changes when no other reconcile is due: the requests so far were
\* accepted and had nothing to change.
CopyInv ==
    /\ pc # "idle" => base.instanceID = obj.instanceID /\ base.scriptID = obj.scriptID
    /\ pc \notin {"idle", "patchStatus"} /\ role = "lb" => base.endpoint = obj.endpoint \/ UserEndpoint
    /\ pc \notin {"idle", "patchMeta", "patchStatus"} => base.ready = obj.ready
    /\ pc # "idle" /\ ~queued => obj = base
    /\ ~queued /\ pc \in {"patchMeta", "patchStatus"} => mem.ready = obj.ready
    /\ ~queued /\ pc = "patchStatus" => mem.finalizer = obj.finalizer /\ mem.endpoint = obj.endpoint

\* Every call stays on its path.
LEMMA CallsKeepPath == ASSUME OwnerInv, PathInv, Normal \/ Delete PROVE PathInv'
<1> TypeOK
  BY Zenon DEF OwnerInv
<1> USE DEF PathInv, Making, Creating
<1> role' = role
  BY CallFrame, CreateEffect, Zenon DEF Inside, around
<1>3. CASE ensureKeys
  <2>1. pc = "keys" /\ pc' \in {"find", "patchConditions"}
    BY <1>3, KeysEffect, Zenon DEF Goes, GivesUp
  <2> QED BY <2>1, Zenon
<1>4. CASE FindInstance
  <2>1. CASE GivesUp
    BY <2>1, Zenon DEF GivesUp
  <2>2. ASSUME NEW r \in findLoadBalancer, found' = r, IF r.id # None THEN Goes("record") ELSE Goes("script")
        PROVE  PathInv'
    <3>1. mem' = mem /\ pc' \in {"record", "script"} /\ (mem.instanceID # None => r.id = mem.instanceID)
      BY <2>2, FindAnswer, Zenon DEF Goes
    <3> QED BY <1>4, <2>2, <3>1, FindEffect, Zenon
  <2> QED BY <1>4, <2>1, <2>2, FindEffect, Zenon
<1>5. CASE CreateRemovesScripts \/ CreateAddsScript
  <2>1. pc \in {"script", "addScript"} /\ pc' \in {"addScript", "create", "patchConditions"}
    BY <1>5, ScriptEffect, Zenon DEF Goes, GivesUp
  <2> QED BY <2>1, Zenon
<1>6. CASE CreateInstance
  <2>1. pc = "create" /\ (pc' = "patchConditions" \/ (pc' = "record" /\ mem' = mem))
    BY <1>6, CreateEffect, Zenon DEF Goes, GivesUp
  <2>2. mem.instanceID = None
    BY <2>1, Zenon DEF OwnerInv, RecordsLive
  <2> QED BY <2>1, <2>2, Zenon
<1>7. CASE RecordInstance
  <2>1. /\ pc = "record" /\ mem'.instanceID = found.id /\ found' = found
        /\ \/ pc' = "patchConditions"
           \/ pc' = "backends" /\ role = "lb" /\ mem'.endpoint = found.id
           \/ pc' = "publish" /\ role # "lb"
    BY <1>7, RecordEffect, Zenon
  <2> QED BY <2>1, Zenon
<1>8. CASE UpdateBackends \/ PublishSecret
  <2>1. pc' = "patchConditions"
    BY <1>8, BackendsEffect, PublishEffect, Zenon DEF GivesUp
  <2> QED BY <2>1, Zenon
<1>9. CASE Delete
  <2>1. \/ pc' \in {"delScript", "purge", "delInstance", "patchConditions"}
        \/ pc' \in {"delOther", "unpublish"} /\ role = "servicelb"
    <3>1. ASSUME NEW elapsed \in BOOLEAN, DeleteFindsInstance(elapsed)
          PROVE  pc' \in {"delScript", "purge", "delInstance", "patchConditions"}
      BY <3>1, DeleteFindEffect, Zenon DEF Goes, GivesUp
    <3>2. CASE DeleteRequestsInstance \/ DeletePurgesVolumes \/ DeleteOther \/ RemoveSecret
      BY <3>2, DeleteRequestEffect, PurgeEffect, DeleteOtherEffect, UnpublishEffect, Zenon DEF Goes, GivesUp
    <3>3. CASE DeleteScript
      BY <3>3, DeleteScriptEffect, Zenon DEF GivesUp
    <3> QED BY <1>9, <3>1, <3>2, <3>3, Zenon DEF Delete
  <2> QED BY <2>1, Zenon
<1> QED BY <1>3, <1>4, <1>5, <1>6, <1>7, <1>8, <1>9, Zenon DEF Normal

\* A request that leaves nothing to do had nothing to change.
LEMMA PatchSettles ==
    ASSUME OwnerInv, CopyInv, PatchConditions \/ PatchMeta \/ PatchStatus, ~queued', obj.exists
    PROVE  /\ obj' = obj /\ obj = base /\ ~queued
           /\ pc = "patchConditions" => mem.ready = obj.ready
           /\ pc = "patchMeta" => mem.finalizer = obj.finalizer /\ mem.endpoint = obj.endpoint
           /\ pc = "patchStatus" => mem.instanceID = obj.instanceID /\ mem.provisioned = obj.provisioned
<1> TypeOK
  BY Zenon DEF OwnerInv
<1> obj' = obj /\ ~queued /\ pc \in Patching
  BY PatchesEffect, Zenon DEF Patching
<1> obj = base
  BY Zenon DEF CopyInv, Patching
<1>4. CASE PatchConditions
  <2>1. Merged("ready") /\ pc = "patchConditions"
    BY <1>4, ConditionsEffect, Zenon DEF Unpatched, PatchConditions, PatchRequest
  <2> QED BY <2>1, Zenon DEF Merged
<1>5. CASE PatchMeta
  <2>1. Merged("finalizer") /\ Merged("endpoint") /\ pc = "patchMeta"
    BY <1>5, MetaEffect, Zenon DEF Unpatched, PatchMeta, PatchRequest
  <2> QED BY <2>1, Zenon DEF Merged
<1>6. CASE PatchStatus
  <2>1. Merged("instanceID") /\ Merged("provisioned") /\ pc = "patchStatus"
    BY <1>6, StatusEffect, Zenon DEF Unpatched, PatchStatus, PatchRequest
  <2> QED BY <2>1, Zenon DEF Merged
<1> QED BY <1>4, <1>5, <1>6, Zenon

\* Every step keeps both.
LEMMA StepCopy == ASSUME OwnerInv, PathInv, CopyInv, [Next]_vars PROVE PathInv' /\ CopyInv'
<1> TypeOK
  BY Zenon DEF OwnerInv
<1>2. CASE Normal \/ Delete
  <2>1. /\ Inside /\ (queued => queued') /\ pc \notin Patching \cup {"idle"}
        /\ pc' \notin {"idle", "patchMeta", "patchStatus"}
    <3>1. CASE CreateInstance
      <4>1. pc = "create" /\ Inside /\ pc' \in {"record", "patchConditions"}
        BY <3>1, CreateEffect, Zenon DEF Goes, GivesUp
      <4>2. queued' = queued \/ queued' = TRUE
        BY <3>1, CreateEffect, Zenon DEF Goes, GivesUp
      <4> QED BY <4>1, <4>2 DEF Patching
    <3> QED BY <1>2, <3>1, CallFrame, Zenon
  <2>2. UNCHANGED <<obj, base, role>>
    BY <2>1, Zenon DEF Inside, around
  <2>3. CopyInv'
    BY <2>1, <2>2, Zenon DEF CopyInv, Patching, UserEndpoint
  <2> QED BY <1>2, <2>3, CallsKeepPath, Zenon
<1>3. CASE ReconcileStarts
  <2>1. /\ base' = obj /\ obj' = obj /\ role' = role
        /\ pc' \in {"delFind", "patchConditions"} \/ (pc' = "keys" /\ role # "user")
    BY <1>3, StartEffect, Zenon DEF around
  <2> QED BY <2>1, Zenon DEF PathInv, CopyInv, Making, Creating
<1>4. CASE PatchConditions \/ PatchMeta
  <2>1. /\ UNCHANGED <<mem, base, role>> /\ (queued => queued') /\ (obj' # obj => queued')
        /\ pc \in {"patchConditions", "patchMeta"} /\ pc' = (IF pc = "patchMeta" THEN "patchStatus" ELSE "patchMeta")
    BY <1>4, PatchesEffect, Zenon DEF PatchConditions, PatchMeta, PatchRequest, around
  <2>2. obj.exists
    BY <2>1, Zenon DEF OwnerInv, FinalizerGoesLast
  <2>3. /\ obj'.instanceID = obj.instanceID /\ obj'.scriptID = obj.scriptID
        /\ pc = "patchConditions" => obj'.endpoint = obj.endpoint
    <3>1. CASE PatchConditions
      BY <3>1, ConditionsEffect, Zenon DEF Unpatched, Rest, Fields
    <3>2. CASE PatchMeta
      BY <2>1, <3>2, MetaEffect, Zenon DEF Unpatched, Rest, Fields, PatchMeta, PatchRequest
    <3> QED BY <1>4, <3>1, <3>2, Zenon
  <2>4. ~queued' => /\ obj' = obj /\ obj = base /\ ~queued
                    /\ pc = "patchConditions" => mem.ready = obj.ready
                    /\ pc = "patchMeta" => mem.finalizer = obj.finalizer /\ mem.endpoint = obj.endpoint
    BY <1>4, <2>2, PatchSettles, Zenon
  <2>5. PathInv'
    BY <2>1, Zenon DEF PathInv, Making, Creating
  <2>6. CopyInv'
    BY <2>1, <2>3, <2>4, Zenon DEF CopyInv, UserEndpoint
  <2> QED BY <2>5, <2>6, Zenon
<1>5. CASE PatchStatus \/ Crash
  <2>1. pc' = "idle"
    BY <1>5, Zenon DEF PatchStatus, PatchRequest, Crash
  <2> QED BY <2>1, Zenon DEF PathInv, CopyInv, Making, Creating
<1>6. CASE Environment
  <2>1. UNCHANGED <<pc, mem, base, found, role>> /\ (queued => queued') /\ (obj' # obj => queued')
    BY <1>6, EnvironmentEffect, Zenon DEF Outside, scope
  <2>2. /\ obj'.instanceID = obj.instanceID /\ obj'.scriptID = obj.scriptID /\ obj'.ready = obj.ready
        /\ obj'.endpoint = obj.endpoint \/ obj'.endpoint \in Hosts
    BY <1>6, EnvironmentEffect, Zenon DEF Rest, Fields
  <2>3. CopyInv'
    BY <2>1, <2>2, Zenon DEF CopyInv, UserEndpoint
  <2> QED BY <2>1, <2>3, Zenon DEF PathInv
<1>7. CASE ReconcileWaits \/ EnsureFinalizer
  <2>1. pc' = "idle"
    BY <1>7, FinalizerEffect, Zenon DEF ReconcileWaits, CanStart, scope
  <2> QED BY <2>1 DEF PathInv, CopyInv, Making, Creating
<1>8. CASE KeySecretLost \/ CloudMoves \/ UNCHANGED vars
  <2>1. UNCHANGED <<obj, queued, pc, mem, base, found, role>>
    BY <1>8, Zenon DEF KeySecretLost, CloudMoves, vars, scope, around
  <2> QED BY <2>1 DEF PathInv, CopyInv, UserEndpoint
<1> QED BY <1>2, <1>3, <1>4, <1>5, <1>6, <1>7, <1>8, Zenon DEF Next, Controller, Surroundings, Environment

\* A reconcile never loses track of what it has read: an inductive invariant.
THEOREM CopyInvariant == Spec => [](PathInv /\ CopyInv)
<1>1. Init => PathInv /\ CopyInv
  BY Zenon DEF Init, PathInv, CopyInv, Making, Creating
<1>2. OwnerInv /\ (PathInv /\ CopyInv) /\ [Next]_vars => (PathInv /\ CopyInv)'
  BY StepCopy, Zenon
<1> QED BY <1>1, <1>2, ClusterInvariant, PTL DEF Spec

-----------------------------------------------------------------------------
(* What is reported when no reconcile is due.                              *)

\* The workload cluster was told this instance and its keys.
Told(id) == secret.id = id /\ ("keyloss" \notin Env => secret.keys = ikeys[id])

\* A service load balancer that is, or is about to be, reported as ready.
ToldInv ==
    role = "servicelb" /\ ~queued /\ held = "no" /\ obj.enabled /\ ~obj.deleting =>
       /\ pc = "idle" /\ obj.ready /\ obj.instanceID # None => Told(obj.instanceID)
       /\ pc \in Patching /\ mem.ready /\ mem.instanceID # None => Told(mem.instanceID)

\* A cluster that is, or is about to be, reported as provisioned.
EndpointInv ==
    /\ role = "servicelb" => ~obj.provisioned /\ ~mem.provisioned
    /\ ~queued /\ held = "no" =>
        /\ pc = "idle" /\ obj.exists /\ obj.ready /\ obj.provisioned => obj.endpoint # None
        /\ pc \in Patching /\ mem.ready /\ mem.provisioned => mem.endpoint # None \/ ~mem.finalizer

\* A reconcile that asks for no other one has found the instance not ready, has
\* deleted what there was to delete, or has published the Secret.
LEMMA Arrives ==
    ASSUME TypeOK, Normal \/ Delete, ~queued', pc' = "patchConditions"
    PROVE  \/ ~mem'.ready
           \/ pc \in {"delScript", "delOther"} /\ ~mem'.finalizer /\ (pc = "delScript" => role # "servicelb")
           \/ /\ pc = "publish" /\ Rest(mem', mem, {"ready"}) /\ UNCHANGED <<found, ikeys>>
              /\ secret' = [id |-> found.id, keys |-> keys]
<1> ~GivesUp
  BY Zenon DEF GivesUp
<1>2. CASE ensureKeys \/ FindInstance \/ CreateRemovesScripts \/ CreateAddsScript \/ CreateInstance
  BY <1>2, KeysEffect, FindEffect, ScriptEffect, CreateEffect, Zenon DEF Goes
<1>3. CASE RecordInstance
  BY <1>3, RecordEffect, Zenon
<1>4. CASE UpdateBackends
  BY <1>4, BackendsEffect, Zenon
<1>5. CASE PublishSecret
  BY <1>5, PublishEffect, Zenon DEF KeepsKeys
<1>6. ASSUME NEW elapsed \in BOOLEAN, DeleteFindsInstance(elapsed) PROVE FALSE
  BY <1>6, DeleteFindEffect, Zenon DEF Goes
<1>7. CASE DeleteRequestsInstance \/ DeletePurgesVolumes
  BY <1>7, DeleteRequestEffect, PurgeEffect, Zenon DEF Goes
<1>8. CASE DeleteScript
  BY <1>8, DeleteScriptEffect, Zenon
<1>9. CASE DeleteOther
  BY <1>9, DeleteOtherEffect, Zenon
<1>10. CASE RemoveSecret
  BY <1>10, UnpublishEffect, Zenon
<1> QED BY <1>2, <1>3, <1>4, <1>5, <1>6, <1>7, <1>8, <1>9, <1>10, Zenon DEF Normal, Delete

\* Which calls write which fields of the copy.
LEMMA CallFields ==
    ASSUME TypeOK, Normal \/ Delete
    PROVE  /\ mem'.deleting = mem.deleting
           /\ mem'.provisioned = mem.provisioned \/ pc = "backends"
           /\ mem'.endpoint = mem.endpoint \/ pc = "record"
           /\ mem'.instanceID = mem.instanceID \/ pc \in {"record", "unpublish"}
           /\ (mem'.ready => mem.ready) \/ pc \in {"record", "backends", "publish"}
<1> (GivesUp \/ \E next : Goes(next)) => /\ mem'.provisioned = mem.provisioned /\ mem'.endpoint = mem.endpoint
                                         /\ mem'.instanceID = mem.instanceID /\ (mem'.ready => mem.ready)
                                         /\ mem'.deleting = mem.deleting
  BY Zenon DEF GivesUp, Goes, Rest, Fields
<1>2. CASE ensureKeys \/ FindInstance \/ CreateRemovesScripts \/ CreateAddsScript \/ CreateInstance
  <2>1. GivesUp \/ \E next : Goes(next)
    BY <1>2, KeysEffect, FindEffect, ScriptEffect, CreateEffect, Zenon
  <2> QED BY <2>1, Zenon
<1>3. CASE RecordInstance
  BY <1>3, RecordEffect, Zenon DEF Rest, Fields
<1>4. CASE UpdateBackends
  BY <1>4, BackendsEffect, Zenon DEF Rest, Fields
<1>5. CASE PublishSecret
  BY <1>5, PublishEffect, Zenon DEF Rest, Fields
<1>6. ASSUME NEW elapsed \in BOOLEAN, DeleteFindsInstance(elapsed)
      PROVE  GivesUp \/ (\E next : Goes(next)) \/ Rest(mem', mem, {"delReq"})
  BY <1>6, DeleteFindEffect, Zenon
<1>7. Rest(mem', mem, {"delReq"}) => /\ mem'.provisioned = mem.provisioned /\ mem'.endpoint = mem.endpoint
                                     /\ mem'.instanceID = mem.instanceID /\ mem'.ready = mem.ready
                                     /\ mem'.deleting = mem.deleting
  BY Zenon DEF Rest, Fields
<1>8. CASE DeleteRequestsInstance \/ DeletePurgesVolumes
  BY <1>8, DeleteRequestEffect, PurgeEffect, Zenon
<1>9. CASE DeleteScript
  BY <1>9, DeleteScriptEffect, Zenon DEF Rest, Fields
<1>10. CASE DeleteOther
  BY <1>10, DeleteOtherEffect, Zenon DEF Rest, Fields
<1>11. CASE RemoveSecret
  BY <1>11, UnpublishEffect, Zenon DEF Rest, Fields
<1> QED BY <1>2, <1>3, <1>4, <1>5, <1>6, <1>7, <1>8, <1>9, <1>10, <1>11, Zenon DEF Normal, Delete

\* The calls of a reconcile report an instance as ready only when they have told
\* the workload cluster about it.
LEMMA CallsTell == ASSUME OwnerInv, KeyInv, PathInv, ToldInv, Normal \/ Delete PROVE ToldInv'
<1>1. TypeOK
  BY Zenon DEF OwnerInv
<1>2. /\ UNCHANGED <<obj, held, role>> /\ pc' \notin {"idle", "patchMeta", "patchStatus"}
  BY <1>1, CallFrame, CreateEffect, Zenon DEF Inside, around, Goes, GivesUp
<1>3. SUFFICES ASSUME role = "servicelb", ~queued', ~obj.deleting, pc' = "patchConditions", mem'.ready
               PROVE  Told(mem.instanceID)'
  BY <1>2, Zenon DEF ToldInv, Patching
<1> /\ pc = "publish" /\ Rest(mem', mem, {"ready"}) /\ UNCHANGED <<found, ikeys>>
    /\ secret' = [id |-> found.id, keys |-> keys]
  BY <1>1, <1>3, Arrives, Zenon DEF OwnerInv, FinalizerGoesLast
<1>5. mem'.instanceID = found.id /\ found.id \in InstanceIDs /\ istatus[found.id] # "none"
  BY Zenon DEF Rest, Fields, PathInv, OwnerInv, RecordsLive, Known, TypeOK
<1>6. "keyloss" \notin Env => keys = ikeys[found.id]
  BY <1>5, Zenon DEF KeyInv, KeysKnown, KeysUsed, WithKeys
<1> QED BY <1>5, <1>6, Zenon DEF Told

\* Every step keeps what is told.
LEMMA StepTold ==
    ASSUME OwnerInv, KeyInv, PathInv, CopyInv, ToldInv, [Next]_vars PROVE ToldInv'
<1> TypeOK
  BY Zenon DEF OwnerInv
<1>2. CASE Normal \/ Delete
  BY <1>2, CallsTell, Zenon
<1>3. CASE ReconcileStarts
  <2>1. role' = role /\ obj' = obj /\ pc' # "idle" /\ (pc' \in Patching => queued' \/ ~mem'.ready \/ role = "user")
    BY <1>3, StartEffect, Zenon DEF around, Patching
  <2> QED BY <2>1, Zenon DEF ToldInv
<1>4. CASE PatchConditions \/ PatchMeta
  <2>1. /\ UNCHANGED <<mem, role, held, secret, ikeys>> /\ pc \in Patching /\ pc' \in Patching
        /\ (queued => queued') /\ (obj' # obj => queued')
    BY <1>4, PatchesEffect, Zenon DEF PatchConditions, PatchMeta, PatchRequest, around, outside, Patching
  <2>2. pc' # "idle"
    BY <2>1, Zenon DEF Patching
  <2> QED BY <2>1, <2>2, Zenon DEF ToldInv, Told
<1>5. CASE PatchStatus
  <2>1. /\ UNCHANGED <<role, held, secret, ikeys>> /\ pc = "patchStatus" /\ pc' = "idle"
        /\ (queued => queued') /\ (obj' # obj => queued')
    BY <1>5, PatchesEffect, Zenon DEF PatchStatus, PatchRequest, around, outside
  <2>2. SUFFICES ASSUME role = "servicelb", ~queued', held = "no", obj.enabled, ~obj.deleting, obj.ready,
                        obj.instanceID # None
                 PROVE  Told(obj.instanceID)
    BY <2>1, Zenon DEF ToldInv, Told, Patching
  <2>3. obj.exists
    BY <2>2, Zenon DEF OwnerInv, FinalizerGoesLast
  <2>4. mem.instanceID = obj.instanceID /\ ~queued
    BY <1>5, <2>1, <2>2, <2>3, PatchSettles, Zenon
  <2>5. mem.ready = obj.ready
    BY <2>1, <2>4, Zenon DEF CopyInv
  <2> QED BY <2>1, <2>2, <2>4, <2>5, Zenon DEF ToldInv, Patching
<1>6. CASE Environment
  <2>1. UNCHANGED <<pc, mem, role, secret, ikeys>> /\ (queued => queued') /\ (obj' # obj \/ held' # held => queued')
    BY <1>6, EnvironmentEffect, Zenon DEF Outside, scope, outside
  <2> QED BY <2>1, Zenon DEF ToldInv, Told
<1>7. CASE ReconcileWaits
  <2>1. UNCHANGED <<obj, pc, mem, role, held, secret, ikeys>> /\ pc = "idle"
        /\ (~obj.exists \/ held # "no")
    BY <1>7, Zenon DEF ReconcileWaits, CanStart, Waits, scope, around, outside
  <2>2. ~obj.exists /\ ~obj.deleting => obj.instanceID = None
    BY Zenon DEF OwnerInv, FinalizerGoesLast
  <2> QED BY <2>1, <2>2, Zenon DEF ToldInv, Patching
<1>8. CASE EnsureFinalizer \/ Crash
  <2>1. queued'
    BY <1>8, FinalizerEffect DEF Crash
  <2> QED BY <2>1, Zenon DEF ToldInv
<1>9. CASE KeySecretLost \/ CloudMoves \/ UNCHANGED vars
  <2>1. UNCHANGED <<obj, queued, pc, mem, role, held, secret, ikeys>>
    BY <1>9, Zenon DEF KeySecretLost, CloudMoves, vars, scope, around, outside
  <2> QED BY <2>1, Zenon DEF ToldInv, Told
<1> QED BY <1>2, <1>3, <1>4, <1>5, <1>6, <1>7, <1>8, <1>9, Zenon DEF Next, Controller, Surroundings, Environment

\* Every step keeps the endpoint of a cluster that is provisioned.
LEMMA StepEndpoint ==
    ASSUME OwnerInv, PathInv, CopyInv, EndpointInv, [Next]_vars PROVE EndpointInv'
<1> TypeOK
  BY Zenon DEF OwnerInv
<1>2. CASE Normal \/ Delete
  <2>1. UNCHANGED <<obj, held, role>> /\ pc' \notin {"idle", "patchMeta", "patchStatus"}
    BY <1>2, CallFrame, CreateEffect, Zenon DEF Inside, around, Goes, GivesUp
  <2>2. role = "servicelb" => mem'.provisioned = mem.provisioned
    BY <1>2, CallFields, Zenon DEF PathInv
  <2>3. ASSUME ~queued', pc' = "patchConditions", mem'.ready, mem'.provisioned PROVE ~mem'.finalizer
    <3>1. CASE pc = "publish"
      BY <1>2, <2>2, <2>3, <3>1, RolesAssumption, Zenon DEF PathInv, Making, EndpointInv, TypeOK
    <3> QED BY <1>2, <2>3, <3>1, Arrives, Zenon
  <2> QED BY <2>1, <2>2, <2>3, Zenon DEF EndpointInv, Patching
<1>3. CASE ReconcileStarts
  <2>1. /\ UNCHANGED <<role, obj>> /\ pc' # "idle" /\ (role # "user" => mem'.provisioned = obj.provisioned)
        /\ pc' \in Patching => queued' \/ ~mem'.ready \/ mem'.endpoint # None
    BY <1>3, StartEffect, Zenon DEF around, Patching, Rest, Fields
  <2> QED BY <2>1, Zenon DEF EndpointInv
<1>4. CASE PatchConditions \/ PatchMeta \/ PatchStatus
  <2>1. UNCHANGED <<role, held>> /\ (queued => queued') /\ (obj' # obj => queued') /\ pc \in Patching
    BY <1>4, PatchesEffect, Zenon DEF around, Patching
  <2>2. role = "servicelb" => ~obj'.provisioned
    <3>1. CASE PatchConditions
      BY <3>1, ConditionsEffect, Zenon DEF Unpatched, Rest, Fields, EndpointInv
    <3>2. CASE PatchMeta
      BY <3>2, MetaEffect, Zenon DEF Unpatched, Rest, Fields, EndpointInv
    <3>3. CASE PatchStatus
      BY <3>3, StatusEffect, Zenon DEF Unpatched, Merged, EndpointInv
    <3> QED BY <1>4, <3>1, <3>2, <3>3, Zenon
  <2>3. CASE pc' # "idle" /\ mem' = mem
    BY <2>1, <2>2, <2>3, Zenon DEF EndpointInv
  <2>4. CASE pc = "patchStatus" /\ Ends
    <3>1. mem'.provisioned = FALSE /\ pc' = "idle"
      BY <2>4, NewClusterFields, Zenon DEF Ends
    <3>2. ASSUME ~queued', held = "no", obj.exists, obj.ready, obj.provisioned PROVE obj' = obj /\ obj.endpoint # None
      <4>1. mem.provisioned = obj.provisioned /\ ~queued /\ obj' = obj
        BY <1>4, <2>4, <3>2, PatchSettles, Zenon
      <4>2. mem.ready = obj.ready /\ mem.endpoint = obj.endpoint /\ mem.finalizer = obj.finalizer
        BY <2>4, <4>1, Zenon DEF CopyInv
      <4>3. obj.finalizer
        BY <2>4, <3>2, Zenon DEF OwnerInv, FinalizerGoesLast
      <4> QED BY <2>1, <2>4, <3>2, <4>1, <4>2, <4>3, Zenon DEF EndpointInv, Patching
    <3> QED BY <2>1, <2>2, <3>1, <3>2, Zenon DEF EndpointInv, Patching
  <2> QED BY <1>4, <2>3, <2>4, PatchesEffect, Zenon
<1>5. CASE Environment
  <2>1. UNCHANGED <<pc, mem, role>> /\ (queued => queued') /\ (obj' # obj \/ held' # held => queued')
    BY <1>5, EnvironmentEffect, Zenon DEF Outside, scope
  <2>2. obj'.provisioned = obj.provisioned
    BY <1>5, EnvironmentEffect, Zenon DEF Rest, Fields
  <2> QED BY <2>1, <2>2, Zenon DEF EndpointInv
<1>6. CASE ReconcileWaits
  <2>1. UNCHANGED <<obj, pc, mem, role, held>> /\ pc = "idle" /\ (~obj.exists \/ held # "no")
    BY <1>6, Zenon DEF ReconcileWaits, CanStart, Waits, scope, around
  <2> QED BY <2>1, Zenon DEF EndpointInv, Patching
<1>7. CASE EnsureFinalizer \/ Crash
  <2>1. queued' /\ role' = role /\ (mem' = mem \/ mem'.provisioned = FALSE)
    BY <1>7, FinalizerEffect, NewClusterFields DEF Crash, around, scope
  <2>2. obj'.provisioned = obj.provisioned
    BY <1>7, FinalizerEffect, Zenon DEF Crash, Rest, Fields
  <2> QED BY <2>1, <2>2, Zenon DEF EndpointInv
<1>8. CASE KeySecretLost \/ CloudMoves \/ UNCHANGED vars
  <2>1. UNCHANGED <<obj, queued, pc, mem, role, held>>
    BY <1>8, Zenon DEF KeySecretLost, CloudMoves, vars, scope, around
  <2> QED BY <2>1, Zenon DEF EndpointInv
<1> QED BY <1>2, <1>3, <1>4, <1>5, <1>6, <1>7, <1>8, Zenon DEF Next, Controller, Surroundings, Environment

\* Whenever the service load balancer is reported as ready and no reconcile is
\* due, the Secret of the workload cluster holds its address and its keys.
THEOREM SecretFollows == Spec => []SecretNamesLoadBalancer
<1>1. Init => ToldInv
  BY Zenon DEF Init, ToldInv
<1>2. OwnerInv /\ KeyInv /\ (PathInv /\ CopyInv) /\ ToldInv /\ [Next]_vars => ToldInv'
  BY StepTold, Zenon
<1>3. ToldInv => SecretNamesLoadBalancer
  BY Zenon DEF ToldInv, Told, SecretNamesLoadBalancer
<1> QED BY <1>1, <1>2, <1>3, ClusterInvariant, KeysInvariant, CopyInvariant, PTL DEF Spec

\* A cluster that is reported as ready and provisioned has an endpoint, whichever
\* request of a patch was lost or refused before.
THEOREM EndpointSet == Spec => []ProvisionedHasEndpoint
<1>1. Init => EndpointInv
  BY NewClusterFields, Zenon DEF Init, EndpointInv
<1>2. OwnerInv /\ (PathInv /\ CopyInv) /\ EndpointInv /\ [Next]_vars => EndpointInv'
  BY StepEndpoint, Zenon
<1>3. EndpointInv => ProvisionedHasEndpoint
  BY Zenon DEF EndpointInv, ProvisionedHasEndpoint
<1> QED BY <1>1, <1>2, <1>3, ClusterInvariant, CopyInvariant, PTL DEF Spec

-----------------------------------------------------------------------------
(* As long as no call fails and the manager does not crash.                *)

\* What the load balancer of the control plane has written where: the endpoint
\* goes into the object one request before the instance does.
CalmLB ==
    /\ mem.ready => mem.endpoint = mem.instanceID
    /\ mem.endpoint \in {None, mem.instanceID}
    /\ pc # "idle" => mem.endpoint \in {base.endpoint, mem.instanceID}
    /\ pc # "idle" /\ obj.instanceID # None => mem.instanceID = obj.instanceID
    /\ obj.exists => obj.endpoint \in {None, IF pc = "patchStatus" THEN mem.instanceID ELSE obj.instanceID}
    /\ obj.exists /\ obj.ready => IF pc = "patchMeta" THEN mem.ready
                                  ELSE IF pc = "patchStatus" THEN mem.ready /\ obj.endpoint = mem.endpoint
                                  ELSE obj.endpoint = obj.instanceID

CalmEndpoint == Undisturbed /\ role = "lb" /\ ~UserEndpoint => CalmLB

\* What is undisturbed after a step was so before it, and nothing failed in it.
LEMMA CalmStep == ASSUME TypeOK, [Next]_vars, Undisturbed' PROVE Undisturbed /\ ~Fault /\ ~Crash
<1>1. ~Fault
  BY BoundsAssumption DEF TypeOK, Undisturbed, Fault
<1> ~Crash
  BY BoundsAssumption DEF TypeOK, Undisturbed, Crash
<1>3. CASE Calls /\ UNCHANGED crashes
  BY <1>1, <1>3, Zenon DEF Calls, NoFault, Undisturbed
<1>4. CASE UNCHANGED <<faults, crashes>>
  BY <1>1, <1>4, Zenon DEF Undisturbed
<1>5. CASE Normal \/ Delete
  <2>1. Inside /\ Calls
    BY <1>5, CallFrame, CreateEffect, Zenon
  <2> QED BY <1>3, <2>1, Zenon DEF Inside
<1>6. CASE EnsureFinalizer \/ ReconcileStarts \/ PatchConditions \/ PatchMeta \/ PatchStatus
  BY <1>3, <1>6, FinalizerEffect, StartEffect, PatchesEffect, Zenon
<1>7. CASE Environment
  BY <1>4, <1>7, EnvironmentEffect, Zenon DEF Outside
<1>8. CASE ReconcileWaits \/ KeySecretLost \/ CloudMoves \/ UNCHANGED vars
  BY <1>4, <1>8, Zenon DEF ReconcileWaits, KeySecretLost, CloudMoves, vars
<1> QED BY <1>5, <1>6, <1>7, <1>8, Zenon DEF Next, Controller, Surroundings, Environment

\* A patch without a fault, of an object that exists, is accepted.
LEMMA CalmPatch ==
    ASSUME OwnerInv, CopyInv, ~Fault, obj.exists
    PROVE  /\ PatchConditions => obj'.ready = mem.ready /\ Rest(obj', obj, {"ready", "exists"})
           /\ PatchMeta /\ ~EndpointChanges =>
                 /\ Merged("endpoint") /\ Merged("finalizer")
                 /\ Rest(obj', obj, {"endpoint", "delReq", "finalizer", "exists"})
           /\ PatchStatus =>
                 /\ obj'.instanceID = mem.instanceID /\ obj'.scriptID = mem.scriptID
                 /\ Rest(obj', obj, {"instanceID", "scriptID", "backends", "provisioned", "exists"})
<1> TypeOK
  BY Zenon DEF OwnerInv
<1>2. ASSUME PatchConditions PROVE obj'.ready = mem.ready /\ Rest(obj', obj, {"ready", "exists"})
  <2>1. base.ready = obj.ready
    BY <1>2, Zenon DEF CopyInv, PatchConditions, PatchRequest
  <2>2. Merged("ready") /\ Rest(obj', obj, {"ready", "exists"})
    BY <1>2, ConditionsEffect, Zenon DEF Unpatched
  <2> QED BY <2>1, <2>2, Zenon DEF Merged
<1>3. ASSUME PatchMeta, ~EndpointChanges
      PROVE  Merged("endpoint") /\ Merged("finalizer") /\ Rest(obj', obj, {"endpoint", "delReq", "finalizer", "exists"})
  BY <1>3, MetaEffect, Zenon DEF Unpatched
<1>4. ASSUME PatchStatus
      PROVE  /\ obj'.instanceID = mem.instanceID /\ obj'.scriptID = mem.scriptID
             /\ Rest(obj', obj, {"instanceID", "scriptID", "backends", "provisioned", "exists"})
  <2>1. base.instanceID = obj.instanceID /\ base.scriptID = obj.scriptID
    BY <1>4, Zenon DEF CopyInv, PatchStatus, PatchRequest
  <2>2. /\ Merged("instanceID") /\ Merged("scriptID")
        /\ Rest(obj', obj, {"instanceID", "scriptID", "backends", "provisioned", "exists"})
    BY <1>4, StatusEffect, Zenon DEF Unpatched
  <2> QED BY <2>1, <2>2, Zenon DEF Merged
<1> QED BY <1>2, <1>3, <1>4, Zenon

\* An endpoint the user has set stays: the webhook refuses every other one.
LEMMA UserEndpointStays == ASSUME TypeOK, UserEndpoint, [Next]_vars PROVE UserEndpoint'
<1>1. obj.endpoint # None
  BY HostsAssumption DEF UserEndpoint
<1> SUFFICES obj'.endpoint = obj.endpoint
  BY Zenon DEF UserEndpoint
<1>2. CASE PatchMeta
  <2>1. CASE UNCHANGED obj
    BY <2>1, Zenon
  <2>2. CASE Merged("endpoint") /\ ~EndpointChanges /\ obj.exists
    BY <1>1, <2>2, Zenon DEF Merged, EndpointChanges
  <2>3. UNCHANGED obj \/ obj.exists
    BY <1>2, PatchesEffect, Zenon
  <2> QED BY <1>2, <2>1, <2>2, <2>3, MetaEffect, Zenon DEF Unpatched
<1>3. CASE PatchConditions
  BY <1>3, ConditionsEffect, Zenon DEF Unpatched, Rest, Fields
<1>4. CASE PatchStatus
  BY <1>4, StatusEffect, Zenon DEF Unpatched, Rest, Fields
<1>5. CASE Environment \/ EnsureFinalizer
  BY <1>1, <1>5, EnvironmentEffect, FinalizerEffect, Zenon DEF Rest, Fields
<1>6. CASE Normal \/ Delete
  BY <1>6, CallFrame, CreateEffect, Zenon DEF Inside
<1>7. CASE ReconcileStarts \/ ReconcileWaits \/ KeySecretLost \/ Crash \/ CloudMoves \/ UNCHANGED vars
  BY <1>7, Zenon DEF ReconcileStarts, ReconcileWaits, KeySecretLost, Crash, CloudMoves, vars
<1> QED BY <1>2, <1>3, <1>4, <1>5, <1>6, <1>7, Zenon DEF Next, Controller, Surroundings, Environment

\* Every step keeps the endpoint that of the load balancer.
LEMMA StepCalmEndpoint ==
    ASSUME OwnerInv, PathInv, CopyInv, CalmEndpoint, [Next]_vars PROVE CalmEndpoint'
<1> TypeOK
  BY DEF OwnerInv
<1>2. role' = role
  BY CallFrame, CreateEffect, FinalizerEffect, StartEffect, PatchesEffect, EnvironmentEffect, Zenon
     DEF Next, Controller, Surroundings, Environment, Inside, Outside, around, ReconcileWaits, KeySecretLost, Crash,
         CloudMoves, vars
<1>3. SUFFICES ASSUME Undisturbed', role = "lb", ~UserEndpoint' PROVE CalmLB'
  BY <1>2, Zenon DEF CalmEndpoint
<1> ~UserEndpoint
  BY <1>3, UserEndpointStays, Zenon
<1> ~Fault /\ ~Crash /\ CalmLB
  BY <1>3, CalmStep, Zenon DEF CalmEndpoint
<1> pc \notin {"idle", "patchStatus"} => obj.exists
  BY Zenon DEF OwnerInv, FinalizerGoesLast
<1>6. CASE Normal \/ Delete
  <2>1. /\ UNCHANGED <<obj, base>> /\ pc \notin {"idle", "patchMeta", "patchStatus"}
        /\ pc' \notin {"idle", "patchMeta", "patchStatus"}
    BY <1>6, CallFrame, CreateEffect, Zenon DEF Inside, Goes, GivesUp, Patching
  <2>2. SUFFICES /\ mem'.ready => mem'.endpoint = mem'.instanceID
                 /\ mem'.endpoint \in {None, mem'.instanceID}
                 /\ mem'.endpoint \in {base.endpoint, mem'.instanceID}
                 /\ obj.instanceID # None => mem'.instanceID = obj.instanceID
    BY <2>1, Zenon DEF CalmLB
  <2>3. CASE pc = "record"
    <3>1. RecordInstance
      BY <1>6, <2>3, KeysEffect, FindEffect, ScriptEffect, CreateEffect, BackendsEffect, PublishEffect,
         DeleteFindEffect, DeleteRequestEffect, PurgeEffect, DeleteScriptEffect, DeleteOtherEffect, UnpublishEffect, Zenon
         DEF Normal, Delete
    <3>2. /\ mem'.instanceID = found.id
          /\ \/ ~mem'.ready /\ mem'.endpoint = mem.endpoint
             \/ mem'.endpoint = found.id
      BY <1>3, <3>1, RecordEffect, Zenon
    <3>3. base.endpoint = obj.endpoint /\ obj.exists /\ (mem.instanceID # None => found.id = mem.instanceID)
      BY <1>3, <2>3, Zenon DEF CopyInv, PathInv
    <3> QED BY <2>3, <3>2, <3>3, Zenon DEF CalmLB
  <2>4. CASE pc = "backends"
    <3>1. mem.endpoint = found.id /\ mem.instanceID = found.id
      BY <2>4, Zenon DEF PathInv
    <3>2. mem'.endpoint = mem.endpoint /\ mem'.instanceID = mem.instanceID
      BY <1>6, <2>4, CallFields, Zenon
    <3> QED BY <2>4, <3>1, <3>2, Zenon DEF CalmLB
  <2>5. CASE pc \notin {"record", "backends"}
    <3>1. pc \notin {"publish", "unpublish"}
      BY <1>3, Zenon DEF PathInv
    <3>2. mem'.endpoint = mem.endpoint /\ mem'.instanceID = mem.instanceID /\ (mem'.ready => mem.ready)
      BY <1>6, <2>5, <3>1, CallFields, Zenon
    <3> QED BY <2>1, <3>2, Zenon DEF CalmLB
  <2> QED BY <2>3, <2>4, <2>5, Zenon
<1>7. CASE ReconcileStarts
  <2>1. /\ pc = "idle" /\ mem' = obj /\ base' = obj /\ obj' = obj /\ obj.exists
        /\ pc' \notin {"idle", "patchMeta", "patchStatus"}
    BY <1>3, <1>7, StartEffect, Zenon
  <2> QED BY <2>1, Zenon DEF CalmLB
<1>8. CASE PatchConditions
  <2>1. pc = "patchConditions" /\ pc' = "patchMeta" /\ UNCHANGED <<mem, base>>
    BY <1>8, Zenon DEF PatchConditions, PatchRequest
  <2>2. obj.exists /\ obj'.ready = mem.ready /\ obj'.endpoint = obj.endpoint /\ obj'.instanceID = obj.instanceID
    BY <1>8, <2>1, CalmPatch, Zenon DEF Rest, Fields
  <2> QED BY <2>1, <2>2, Zenon DEF CalmLB
<1>9. CASE PatchMeta
  <2>1. pc = "patchMeta" /\ pc' = "patchStatus" /\ UNCHANGED <<mem, base>> /\ obj.exists
    BY <1>9, Zenon DEF PatchMeta, PatchRequest
  <2>2. base.endpoint = obj.endpoint
    BY <1>3, <2>1, Zenon DEF CopyInv
  <2>3. ~EndpointChanges
    BY <2>1, <2>2, Zenon DEF CalmLB, EndpointChanges
  <2>4. obj'.ready = obj.ready /\ obj'.instanceID = obj.instanceID /\ obj'.endpoint = mem.endpoint
    BY <1>9, <2>1, <2>2, <2>3, CalmPatch, Zenon DEF Rest, Fields, Merged
  <2> QED BY <2>1, <2>4, Zenon DEF CalmLB
<1>10. CASE PatchStatus
  <2>1. pc = "patchStatus" /\ pc' = "idle" /\ mem' = NewCluster
    BY <1>10, Zenon DEF PatchStatus, PatchRequest
  <2>2. obj'.exists => obj.exists
    BY <1>10, <2>1, PatchSees, Zenon
  <2>3. obj.exists => obj'.ready = obj.ready /\ obj'.endpoint = obj.endpoint /\ obj'.instanceID = mem.instanceID
    BY <1>10, CalmPatch, Zenon DEF Rest, Fields
  <2> QED BY <2>1, <2>2, <2>3, NewClusterFields, Zenon DEF CalmLB
<1>11. CASE Environment \/ EnsureFinalizer
  <2>1. UNCHANGED <<pc, mem, base>>
    BY <1>11, EnvironmentEffect, FinalizerEffect, Zenon DEF Outside, scope
  <2>2. /\ obj'.endpoint = obj.endpoint /\ obj'.instanceID = obj.instanceID /\ obj'.ready = obj.ready
        /\ obj'.exists => obj.exists
    BY <1>3, <1>11, EnvironmentEffect, FinalizerEffect, Zenon DEF Rest, Fields, UserEndpoint
  <2> QED BY <2>1, <2>2, Zenon DEF CalmLB
<1>12. CASE ReconcileWaits \/ KeySecretLost \/ CloudMoves \/ UNCHANGED vars
  <2>1. UNCHANGED <<obj, pc, mem, base>>
    BY <1>12, Zenon DEF ReconcileWaits, KeySecretLost, CloudMoves, vars, scope
  <2> QED BY <2>1, Zenon DEF CalmLB
<1> QED BY <1>6, <1>7, <1>8, <1>9, <1>10, <1>11, <1>12, Zenon DEF Next, Controller, Surroundings, Environment

\* As long as no call fails, a control plane load balancer that is reported as
\* ready is the one the endpoint of the cluster names, unless the user has set
\* that endpoint.
THEOREM EndpointFollows == Spec => []EndpointNamesLoadBalancer
<1>1. Init => CalmEndpoint
  BY NewClusterFields, Zenon DEF Init, CalmEndpoint, CalmLB
<1>2. OwnerInv /\ (PathInv /\ CopyInv) /\ CalmEndpoint /\ [Next]_vars => CalmEndpoint'
  BY StepCalmEndpoint
<1>3. CalmEndpoint => EndpointNamesLoadBalancer
  BY Zenon DEF CalmEndpoint, CalmLB, EndpointNamesLoadBalancer
<1> QED BY <1>1, <1>2, <1>3, ClusterInvariant, CopyInvariant, PTL DEF Spec

-----------------------------------------------------------------------------
(* The endpoint, whatever fails, as long as the cloud evicts nothing.      *)

\* Nobody has asked to delete an instance.
Untouched ==
    \A i \in InstanceIDs :
        istatus[i] \in {"none", "provisioning", "running", "error", "no_capacity"} /\ ~ishut[i]

\* A control plane load balancer has one instance ever: until the object is being
\* deleted the first is alive and found, and afterwards no reconcile creates one.
KeptInv == "evict" \notin Env /\ role = "lb" =>
    /\ pc \in Making => ~mem.deleting
    /\ ~obj.deleting \/ (pc # "idle" /\ ~mem.deleting) => Untouched
    /\ \A i, j \in Used : i = j
    /\ \A i \in InstanceIDs : i = obj.endpoint \/ i = mem.endpoint => i \in Used

\* Only two calls of a reconcile change what is asked of an instance.
LEMMA CallsLeaveInstances ==
    ASSUME TypeOK, Normal \/ Delete, pc \notin {"create", "delInstance"} PROVE UNCHANGED <<istatus, ishut>>
<1>1. CASE UNCHANGED cloudVars
  BY <1>1, Zenon DEF cloudVars
<1>2. CASE \E S : DeleteScripts(S)
  BY <1>2, Zenon DEF DeleteScripts
<1>3. CASE ensureKeys \/ FindInstance \/ RecordInstance \/ UpdateBackends \/ PublishSecret \/ DeleteOther \/ RemoveSecret
  BY <1>1, <1>3, KeysEffect, FindEffect, RecordEffect, BackendsEffect, PublishEffect, DeleteOtherEffect,
     UnpublishEffect, Zenon
<1>4. ASSUME NEW elapsed \in BOOLEAN, DeleteFindsInstance(elapsed) PROVE UNCHANGED <<istatus, ishut>>
  BY <1>1, <1>4, DeleteFindEffect, Zenon
<1>5. CASE CreateRemovesScripts
  BY <1>1, <1>2, <1>5, Zenon DEF CreateRemovesScripts, RemoveOldScripts
<1>6. CASE CreateAddsScript
  BY <1>1, <1>6, Zenon DEF CreateAddsScript, AddScript, AddStartupScript
<1>7. CASE DeletePurgesVolumes
  BY <1>1, <1>7, Zenon DEF DeletePurgesVolumes, PurgeVolumes, PurgeInstanceVolumes
<1>8. CASE DeleteScript
  BY <1>2, <1>8, Zenon DEF DeleteScript
<1>9. CASE CreateInstance \/ DeleteRequestsInstance
  BY <1>9, Zenon DEF CreateInstance, DeleteRequestsInstance
<1> QED BY <1>3, <1>4, <1>5, <1>6, <1>7, <1>8, <1>9, Zenon DEF Normal, Delete

\* Without eviction the cloud leaves alone what nobody has asked to delete.
LEMMA CloudLeavesUntouched ==
    ASSUME CloudTypeOK, "evict" \notin Env, Untouched, CloudStep PROVE Untouched'
<1>1. ASSUME NEW i \in InstanceIDs, InstanceMoves(i) PROVE Untouched'
  <2>1. PICK m \in Moves : istatus[i] = m[1] /\ istatus' = [istatus EXCEPT ![i] = m[2]]
    BY <1>1, Zenon DEF InstanceMoves
  <2>2. m[1] \in {"none", "provisioning", "running", "error", "no_capacity"}
    BY <2>1, Zenon DEF Untouched
  <2>3. m[2] \in {"running", "error", "no_capacity"}
    BY <2>2 DEF Moves
  <2>4. ishut' = ishut
    BY <1>1, Zenon DEF InstanceMoves
  <2> QED BY <2>1, <2>3, <2>4, Zenon DEF Untouched, CloudTypeOK
<1>2. ASSUME NEW i \in InstanceIDs, InstanceShutsDown(i) PROVE FALSE
  BY <1>2, Zenon DEF InstanceShutsDown, Untouched
<1>3. ASSUME NEW i \in InstanceIDs, VolumeReleased(i) PROVE Untouched'
  BY <1>3, Zenon DEF VolumeReleased, Untouched
<1>4. ASSUME NEW v \in VolumeIDs, CloneFinishes(v) \/ VolumeDeleted(v) PROVE Untouched'
  BY <1>4, Zenon DEF CloneFinishes, VolumeDeleted, Untouched
<1> QED BY <1>1, <1>2, <1>3, <1>4, Zenon DEF CloudStep

\* Every step keeps the instance the only one.
LEMMA StepKept == ASSUME OwnerInv, PathInv, KeptInv, [Next]_vars PROVE KeptInv'
<1> TypeOK /\ CloudTypeOK /\ (mem.deleting => obj.deleting)
  BY Zenon DEF OwnerInv, TypeOK, FinalizerGoesLast
<1>1. role' = role
  BY CallFrame, CreateEffect, FinalizerEffect, StartEffect, PatchesEffect, EnvironmentEffect, Zenon
     DEF Next, Controller, Surroundings, Environment, Inside, Outside, around, ReconcileWaits, KeySecretLost, Crash,
         CloudMoves, vars
<1> SUFFICES ASSUME "evict" \notin Env, role = "lb" PROVE KeptInv'
  BY <1>1, Zenon DEF KeptInv
<1> /\ pc \in Making => ~mem.deleting
    /\ ~obj.deleting \/ (pc # "idle" /\ ~mem.deleting) => Untouched
    /\ \A i, j \in Used : i = j
    /\ \A i \in InstanceIDs : i = obj.endpoint \/ i = mem.endpoint => i \in Used
  BY Zenon DEF KeptInv
<1>2. NoneBorn => Used' = Used
  BY Zenon DEF NoneBorn, Used
<1>3. UNCHANGED <<istatus, ishut>> => Used' = Used /\ (Untouched => Untouched')
  BY Zenon DEF Used, Untouched
<1>4. UNCHANGED cloudVars => UNCHANGED <<istatus, ishut>>
  BY Zenon DEF cloudVars
<1>5. CASE Normal \/ Delete
  <2>1. /\ obj' = obj /\ mem'.deleting = mem.deleting /\ pc # "idle"
        /\ pc' \in Making => pc \in Making
    <3>1. mem'.deleting = mem.deleting
      BY <1>5, CallFields, Zenon
    <3>2. CASE CreateInstance
      BY <3>1, <3>2, CreateEffect, Zenon DEF Inside, Making, Creating
    <3>3. CASE ensureKeys
      BY <3>1, <3>3, KeysEffect, Zenon DEF Inside, Making
    <3>4. CASE ~CreateInstance /\ ~ensureKeys
      <4>1. Inside /\ pc # "idle" /\ (pc' \in WithKeys => pc \in WithKeys) /\ pc' # "keys"
        BY <1>5, <3>4, CallFrame, Zenon
      <4> QED BY <3>1, <4>1, Zenon DEF Inside, Making, WithKeys
    <3> QED BY <3>2, <3>3, <3>4, Zenon
  <2>2. Used \subseteq Used' => \A i \in InstanceIDs : i = obj'.endpoint \/ i = mem'.endpoint => i \in Used'
    <3>1. CASE mem'.endpoint = mem.endpoint
      BY <2>1, <3>1, Zenon
    <3>2. CASE RecordInstance
      <4>1. found.id \in Used \/ found.id \notin InstanceIDs
        BY NoneAssumption, Zenon DEF OwnerInv, RecordsLive, Known, Used
      <4>2. mem'.endpoint \in {mem.endpoint, found.id}
        BY <3>2, RecordEffect, Zenon
      <4> QED BY <2>1, <4>1, <4>2, Zenon
    <3>3. mem'.endpoint = mem.endpoint \/ RecordInstance
      BY <1>5, CallFields, KeysEffect, FindEffect, ScriptEffect, CreateEffect, BackendsEffect, PublishEffect,
         DeleteFindEffect, DeleteRequestEffect, PurgeEffect, DeleteScriptEffect, DeleteOtherEffect, UnpublishEffect, Zenon
         DEF Normal, Delete
    <3> QED BY <3>1, <3>2, <3>3, Zenon
  <2>3. CASE CreateInstance
    <3>1. pc = "create" /\ NoLive /\ Untouched
      BY <2>3, CreateEffect, Zenon DEF OwnerInv, CreatesOnlyWhenNone, Making, Creating
    <3>2. Used = {}
      BY <3>1, Zenon DEF NoLive, Live, LiveStatus, Untouched, Used
    <3>3. ishut' = ishut
      BY <2>3, Zenon DEF CreateInstance, Instantiate, InstancesCreate, DeleteScripts
    <3>4. CASE UNCHANGED istatus
      BY <1>3, <2>1, <2>2, <3>1, <3>3, <3>4, Zenon DEF KeptInv
    <3>5. ASSUME NEW i \in InstanceIDs, Born(i) PROVE KeptInv'
      <4>1. Used' \subseteq {i}
        BY <3>2, <3>5, Zenon DEF Born, Used
      <4>2. Untouched'
        BY <3>1, <3>3, <3>5, Zenon DEF Born, Untouched
      <4> QED BY <2>1, <2>2, <3>2, <4>1, <4>2, Zenon DEF KeptInv
    <3> QED BY <2>3, <3>4, <3>5, CreateEffect, Zenon
  <2>4. CASE DeleteRequestsInstance
    <3>1. mem.deleting /\ obj.deleting /\ Used' = Used /\ pc' = "patchConditions"
      BY <1>2, <2>4, DeleteRequestEffect, Zenon DEF OwnerInv, FinalizerGoesLast, Deleting, CloudKeeps, GivesUp
    <3> QED BY <2>1, <2>2, <3>1, Zenon DEF KeptInv, Making, Creating
  <2>5. CASE pc \notin {"create", "delInstance"}
    <3>1. Used' = Used /\ (Untouched => Untouched')
      BY <1>3, <1>5, <2>5, CallsLeaveInstances, Zenon
    <3> QED BY <2>1, <2>2, <3>1, Zenon DEF KeptInv
  <2>6. pc = "create" => CreateInstance
    BY <1>5, KeysEffect, FindEffect, ScriptEffect, RecordEffect, BackendsEffect, PublishEffect,
       DeleteFindEffect, DeleteRequestEffect, PurgeEffect, DeleteScriptEffect, DeleteOtherEffect, UnpublishEffect, Zenon
       DEF Normal, Delete
  <2>7. pc = "delInstance" => DeleteRequestsInstance
    BY <1>5, KeysEffect, FindEffect, ScriptEffect, CreateEffect, RecordEffect, BackendsEffect, PublishEffect,
       DeleteFindEffect, PurgeEffect, DeleteScriptEffect, DeleteOtherEffect, UnpublishEffect, Zenon
       DEF Normal, Delete
  <2> QED BY <2>3, <2>4, <2>5, <2>6, <2>7, Zenon
<1>6. CASE ReconcileStarts
  <2>1. /\ obj' = obj /\ mem' = obj /\ UNCHANGED cloudVars /\ pc = "idle"
        /\ (pc' = "keys" /\ ~obj.deleting) \/ pc' \in {"delFind", "patchConditions"}
    BY <1>6, StartEffect, Zenon
  <2> QED BY <1>3, <1>4, <2>1, Zenon DEF KeptInv, Making, Creating
<1>7. CASE PatchConditions \/ PatchMeta \/ PatchStatus
  <2>1. /\ UNCHANGED cloudVars /\ obj'.deleting = obj.deleting
        /\ (mem' = mem /\ pc # "idle" /\ pc' # "idle") \/ (mem' = NewCluster /\ pc' = "idle")
        /\ pc' \in {"patchMeta", "patchStatus", "idle"}
    BY <1>7, PatchesEffect, PatchSees, Zenon DEF Ends
  <2>2. obj'.endpoint \in {obj.endpoint, mem.endpoint}
    BY <1>7, ConditionsEffect, MetaEffect, StatusEffect, Zenon DEF Unpatched, Merged, Rest, Fields
  <2>3. NewCluster.endpoint \notin InstanceIDs
    BY NewClusterFields, NoneAssumption, Zenon
  <2>4. pc' \notin Making
    BY <2>1, Zenon DEF Making, Creating
  <2> QED BY <1>3, <1>4, <2>1, <2>2, <2>3, <2>4, Zenon DEF KeptInv
<1>8. CASE Environment \/ EnsureFinalizer
  <2>1. UNCHANGED <<pc, mem>> /\ UNCHANGED cloudVars
    BY <1>8, EnvironmentEffect, FinalizerEffect, Zenon DEF Outside, scope
  <2>2. obj.deleting => obj'.deleting
    BY <1>8, EnvironmentEffect, FinalizerEffect, Zenon DEF Rest, Fields
  <2>3. obj'.endpoint = obj.endpoint \/ obj'.endpoint \notin InstanceIDs
    BY <1>8, EnvironmentEffect, FinalizerEffect, HostsAssumption, Zenon DEF Rest, Fields
  <2> QED BY <1>3, <1>4, <2>1, <2>2, <2>3, Zenon DEF KeptInv
<1>9. CASE Crash
  <2>1. UNCHANGED cloudVars /\ obj' = obj /\ pc' = "idle" /\ mem' = NewCluster
    BY <1>9, Zenon DEF Crash
  <2>2. NewCluster.endpoint \notin InstanceIDs /\ pc' \notin Making
    BY <2>1, NewClusterFields, NoneAssumption, Zenon DEF Making, Creating
  <2> QED BY <1>3, <1>4, <2>1, <2>2, Zenon DEF KeptInv
<1>10. CASE ReconcileWaits \/ KeySecretLost \/ UNCHANGED vars
  <2>1. UNCHANGED <<obj, pc, mem>> /\ UNCHANGED cloudVars
    BY <1>10, Zenon DEF ReconcileWaits, KeySecretLost, vars, scope, cloudVars
  <2> QED BY <1>3, <1>4, <2>1, Zenon DEF KeptInv
<1>11. CASE CloudMoves
  <2>1. UNCHANGED <<obj, pc, mem>> /\ CloudStep
    BY <1>11, Zenon DEF CloudMoves, scope
  <2>2. Used' = Used /\ (Untouched => Untouched')
    BY <1>2, <2>1, CloudStepKeeps, CloudLeavesUntouched, Zenon DEF CloudKeeps
  <2> QED BY <2>1, <2>2, Zenon DEF KeptInv
<1> QED BY <1>5, <1>6, <1>7, <1>8, <1>9, <1>10, <1>11, Zenon DEF Next, Controller, Surroundings, Environment

\* Whatever calls fail and whenever the manager crashes between the request that
\* writes the endpoint and the one that writes the instance: as long as the cloud
\* evicts nothing, the instance that is recorded is the one the endpoint names.
THEOREM EndpointLasts == Spec => []EndpointKeepsInstance
<1>1. Init => KeptInv
  <2> SUFFICES ASSUME Init PROVE KeptInv
    BY Zenon
  <2>1. Untouched /\ Used = {}
    BY Zenon DEF Init, CloudInit, Untouched, Used
  <2>2. mem = NewCluster /\ obj = NewCluster /\ pc = "idle"
    BY Zenon DEF Init
  <2> QED BY <2>1, <2>2, NewClusterFields, NoneAssumption, Zenon DEF KeptInv, Making, Creating
<1>2. OwnerInv /\ (PathInv /\ CopyInv) /\ KeptInv /\ [Next]_vars => KeptInv'
  BY StepKept, Zenon
<1>3. OwnerInv /\ KeptInv => EndpointKeepsInstance
  <2> SUFFICES ASSUME OwnerInv, KeptInv PROVE EndpointKeepsInstance
    BY Zenon
  <2>1. obj.instanceID # None => obj.instanceID \in Used
    BY Zenon DEF OwnerInv, RecordsLive, Known, TypeOK, Clusters, Used
  <2> QED BY <2>1, Zenon DEF KeptInv, EndpointKeepsInstance
<1> QED BY <1>1, <1>2, <1>3, ClusterInvariant, CopyInvariant, PTL DEF Spec

-----------------------------------------------------------------------------
(* The scripts, as long as no call fails.                                  *)

\* A name that is kept is that of the only script.
Named(s) == s = None \/ Present \subseteq {s}

\* An instance i and a script s are recorded together, and are the only ones.
Linked(i, s) == (i = None => s = None) /\ Named(s) /\ (i # None => Named(iscript[i]))

\* There is no instance, and for the control plane there never was one.
Bare == NoLive /\ (role = "lb" => \A i \in InstanceIDs : istatus[i] = "none")

\* No script is there whose name neither the object nor the running reconcile has.
CalmNames ==
    /\ role = "user" => Present = {}
    /\ ~obj.finalizer \/ (pc # "idle" /\ ~mem.finalizer) \/ pc \in {"addScript", "delOther"} => Present = {}
    /\ pc = "create" => Present \subseteq {script}
    /\ pc = "record" => Named(iscript[found.id])
    /\ Linked(obj.instanceID, obj.scriptID) /\ Linked(mem.instanceID, mem.scriptID)
    /\ pc \notin {"idle", "record"} /\ mem.instanceID = None => Bare
    /\ pc = "idle" /\ obj.exists /\ obj.instanceID = None => Bare

CalmScripts == Undisturbed => CalmNames

\* No script and no instance comes into being.
Fewer == Present' \subseteq Present /\ iscript' = iscript /\ NoneBorn /\ role' = role

\* Then what is recorded stays what there is.
LEMMA FewerKeeps ==
    ASSUME Fewer
    PROVE  /\ Bare => Bare'
           /\ \A i, s : Linked(i, s) => Linked(i, s)'
           /\ Present = {} => Present' = {}
<1>1. Bare => Bare'
  BY Zenon DEF Fewer, Bare, NoneBorn, NoLive, Live
<1>2. \A i, s : Linked(i, s) => Linked(i, s)'
  BY Zenon DEF Fewer, Linked, Named
<1>3. Present = {} => Present' = {}
  BY Zenon DEF Fewer
<1> QED BY <1>1, <1>2, <1>3, Zenon

\* The fields of the copy that CalmNames is about.
SameNames == /\ mem'.instanceID = mem.instanceID /\ mem'.scriptID = mem.scriptID
             /\ mem'.finalizer = mem.finalizer

\* A call that neither records nor creates.
LEMMA PlainKeepsNames ==
    ASSUME CalmNames, Fewer, obj' = obj, SameNames, pc \notin {"idle", "record"},
           pc' \notin {"idle", "record", "addScript", "delOther", "create"}
    PROVE  CalmNames'
BY FewerKeeps, Zenon DEF CalmNames, SameNames, Fewer

\* The calls that create, and record what was created.
LEMMA NormalKeepsNames ==
    ASSUME OwnerInv, PathInv, CalmNames, Normal, ~Fault PROVE CalmNames'
<1> TypeOK /\ CloudTypeOK
  BY Zenon DEF OwnerInv, TypeOK
<1> Goes("find") \/ Goes("script") \/ Goes("addScript") \/ Goes("create") \/ Goes("record") \/ GivesUp => SameNames
  BY Zenon DEF Goes, GivesUp, Rest, Fields, SameNames
<1> UNCHANGED cloudVars /\ Inside => Fewer /\ obj' = obj
  BY IdleKeeps, Zenon DEF CloudKeeps, Fewer, cloudVars, Inside, around, Present
<1>4. pc \in Making => role # "user" /\ obj.finalizer /\ mem.finalizer
  BY Zenon DEF PathInv, OwnerInv, FinalizerGoesLast, Making, Creating, Patching
<1>5. CASE ensureKeys
  <2>1. Fewer /\ obj' = obj /\ pc = "keys" /\ (Goes("find") \/ GivesUp)
    BY <1>5, KeysEffect, Zenon
  <2> QED BY <2>1, PlainKeepsNames, Zenon DEF Goes, GivesUp
<1>6. CASE FindInstance
  <2>1. Fewer /\ obj' = obj /\ pc = "find"
    BY <1>6, FindEffect, Zenon
  <2>2. CASE GivesUp \/ Goes("script")
    BY <2>1, <2>2, PlainKeepsNames, Zenon DEF Goes, GivesUp
  <2>3. ASSUME NEW r \in findLoadBalancer, found' = r, r.id # None, Goes("record") PROVE CalmNames'
    <3>1. Named(iscript[r.id])
      <4>1. CASE mem.instanceID # None
        BY <2>3, <4>1, FindAnswer, Zenon DEF CalmNames, Linked
      <4>2. CASE mem.instanceID = None
        <5>1. Bare /\ istatus[r.id] # "none" /\ (role = "lb" \/ Live(r.id)) /\ r.id \in InstanceIDs
          BY <2>1, <2>3, <4>2, FindAnswer, Zenon DEF CalmNames
        <5> QED BY <5>1, Zenon DEF Bare, NoLive
      <4> QED BY <4>1, <4>2, Zenon
    <3>2. Named(iscript[found.id])'
      BY <2>1, <2>3, <3>1, Zenon DEF Named, Fewer
    <3> QED BY <2>1, <2>3, <3>2, FewerKeeps, Zenon DEF CalmNames, SameNames, Goes, Fewer
  <2> QED BY <1>6, <2>2, <2>3, FindEffect, Zenon
<1>7. CASE CreateRemovesScripts \/ CreateAddsScript
  <2>1. UNCHANGED <<istatus, iscript, found>> /\ obj' = obj /\ role' = role /\ NoneBorn
    BY <1>7, ScriptEffect, Zenon DEF CloudKeeps, Inside, around
  <2>2. CASE pc = "script" /\ Goes("addScript") /\ DeleteScripts(Present)
    <3>1. Present' = {} /\ Fewer
      BY <2>1, <2>2, Zenon DEF DeleteScripts, Present, Fewer, CloudTypeOK
    <3> QED BY <2>1, <2>2, <3>1, FewerKeeps, Zenon DEF CalmNames, SameNames, Goes
  <2>3. ASSUME pc = "addScript", Goes("create"), NEW s \in ScriptIDs, AddStartupScript(s), script' = s
        PROVE  CalmNames'
    <3>1. Present = {}
      BY <2>3, Zenon DEF CalmNames
    <3>2. Present' \subseteq {script'}
      BY <2>3, <3>1, Zenon DEF Present, AddStartupScript, CloudTypeOK
    <3>3. mem.instanceID = None /\ obj.instanceID = None
      BY <2>3, Zenon DEF OwnerInv, RecordsLive, Creating, Unrecorded
    <3>4. mem.scriptID = None /\ obj.scriptID = None /\ Bare
      BY <2>3, <3>3, Zenon DEF CalmNames, Linked
    <3>5. Bare'
      BY <2>1, <3>4, Zenon DEF Bare, NoLive, Live
    <3> QED BY <1>4, <2>1, <2>3, <3>2, <3>3, <3>4, <3>5, Zenon
            DEF CalmNames, Linked, Named, SameNames, Goes, Making, Creating
  <2>4. CASE pc \in {"script", "addScript"} /\ GivesUp /\ UNCHANGED scripts
    <3>1. Fewer
      BY <2>1, <2>4, Zenon DEF Fewer, Present
    <3> QED BY <2>1, <2>4, <3>1, PlainKeepsNames, Zenon DEF GivesUp
  <2>5. faults' = faults
    BY <1>7, ScriptEffect, Zenon DEF Calls, NoFault
  <2> QED BY <1>7, <2>2, <2>3, <2>4, <2>5, ScriptEffect, Zenon
<1>8. CASE CreateInstance
  <2>1. pc = "create" /\ obj' = obj /\ role' = role
    BY <1>8, CreateEffect, Zenon DEF Inside, around
  <2>2. mem.instanceID = None /\ obj.instanceID = None /\ mem.scriptID = None /\ obj.scriptID = None
    BY <2>1, Zenon DEF OwnerInv, RecordsLive, Creating, Unrecorded, CalmNames, Linked
  <2>3. ASSUME NEW i \in InstanceIDs, Born(i), found' = [id |-> i, status |-> "provisioning"],
               Goes("record"), UNCHANGED scripts
        PROVE  CalmNames'
    <3>1. Named(iscript[found.id])'
      BY <2>1, <2>3, Zenon DEF Born, CalmNames, Named, Present
    <3> QED BY <1>4, <2>1, <2>2, <2>3, <3>1, Zenon
            DEF CalmNames, Linked, Named, SameNames, Goes, Making, Creating
  <2>4. CASE UNCHANGED <<istatus, iscript, found>> /\ GivesUp /\ DeleteScripts({script})
    <3>1. Fewer
      BY <2>1, <2>4, Zenon DEF Fewer, Present, DeleteScripts, NoneBorn, CloudTypeOK
    <3> QED BY <2>1, <2>4, <3>1, PlainKeepsNames, Zenon DEF GivesUp
  <2> QED BY <1>8, <2>3, <2>4, CreateEffect, Zenon
<1>9. CASE RecordInstance
  <2>1. /\ Fewer /\ obj' = obj /\ pc = "record" /\ pc' \in {"patchConditions", "backends", "publish"}
        /\ mem'.instanceID = found.id /\ mem'.scriptID \in {mem.scriptID, iscript[found.id]}
    BY <1>9, RecordEffect, Zenon
  <2>2. mem'.finalizer = mem.finalizer
    BY <1>9, RecordEffect, Zenon DEF Rest, Fields
  <2>3. found.id # None
    BY <2>1, Zenon DEF TypeOK
  <2>4. Linked(found.id, mem.scriptID) /\ Linked(found.id, iscript[found.id])
    BY <2>1, <2>3, Zenon DEF CalmNames, Linked
  <2>5. Linked(mem.instanceID, mem.scriptID)'
    BY <2>1, <2>4, FewerKeeps, Zenon
  <2> QED BY <2>1, <2>2, <2>3, <2>5, FewerKeeps, Zenon DEF CalmNames, Fewer
<1>10. CASE UpdateBackends
  <2>1. Fewer /\ obj' = obj /\ pc = "backends" /\ pc' = "patchConditions"
    BY <1>10, BackendsEffect, Zenon
  <2>2. SameNames
    BY <1>10, BackendsEffect, Zenon DEF Rest, Fields, SameNames
  <2> QED BY <2>1, <2>2, PlainKeepsNames, Zenon
<1>11. CASE PublishSecret
  <2>1. Fewer /\ obj' = obj /\ pc = "publish" /\ pc' = "patchConditions"
    BY <1>11, PublishEffect, Zenon DEF GivesUp
  <2>2. SameNames
    BY <1>11, PublishEffect, Zenon DEF Rest, Fields, SameNames
  <2> QED BY <2>1, <2>2, PlainKeepsNames, Zenon
<1> QED BY <1>5, <1>6, <1>7, <1>8, <1>9, <1>10, <1>11, Zenon DEF Normal

\* The calls that delete: the finalizer is dropped after the last script.
LEMMA DeleteKeepsNames ==
    ASSUME OwnerInv, PathInv, CalmNames, Delete, ~Fault PROVE CalmNames'
<1> TypeOK /\ CloudTypeOK
  BY DEF OwnerInv, TypeOK
<1>2. Goes("delScript") \/ Goes("purge") \/ GivesUp \/ Rest(mem', mem, {"delReq"}) => SameNames
  BY Zenon DEF Goes, GivesUp, Rest, Fields, SameNames
<1> UNCHANGED cloudVars /\ Inside => Fewer /\ obj' = obj
  BY IdleKeeps, Zenon DEF CloudKeeps, Fewer, cloudVars, Inside, around, Present
<1>4. ASSUME NEW elapsed \in BOOLEAN, DeleteFindsInstance(elapsed) PROVE CalmNames'
  <2>1. Fewer /\ obj' = obj /\ pc = "delFind" /\ pc' \in {"delScript", "purge", "delInstance", "patchConditions"}
    BY <1>4, DeleteFindEffect, Zenon DEF Goes, GivesUp
  <2>2. SameNames
    BY <1>2, <1>4, DeleteFindEffect, Zenon
  <2> QED BY <2>1, <2>2, PlainKeepsNames, Zenon
<1>5. CASE DeleteRequestsInstance \/ DeletePurgesVolumes
  <2>1. /\ UNCHANGED <<iscript, scripts>> /\ NoneBorn /\ Inside /\ pc \in {"delInstance", "purge"}
        /\ GivesUp \/ Goes("delScript")
    BY <1>5, DeleteRequestEffect, PurgeEffect, Zenon DEF CloudKeeps
  <2>2. Fewer /\ obj' = obj
    BY <2>1, Zenon DEF Fewer, Present, Inside, around
  <2> QED BY <1>2, <2>1, <2>2, PlainKeepsNames, Zenon DEF Goes, GivesUp
<1>6. CASE DeleteScript
  <2>1. /\ pc = "delScript" /\ obj' = obj /\ role' = role /\ UNCHANGED <<istatus, iscript>> /\ NoneBorn
        /\ pc' \in {"delOther", "unpublish", "patchConditions"}
        /\ mem'.scriptID = None /\ DeleteScripts(ScriptsToDelete)
    BY <1>6, DeleteScriptEffect, Zenon DEF CloudKeeps, Inside, around
  <2>2. mem'.instanceID = mem.instanceID
    BY <1>6, DeleteScriptEffect, Zenon DEF Rest, Fields
  <2>3. Present' = {s \in Present : s \notin ScriptsToDelete}
    BY <2>1, Zenon DEF DeleteScripts, Present, CloudTypeOK
  <2>4. Present \subseteq ScriptsToDelete
    BY Zenon DEF ScriptsToDelete, CalmNames, Linked, Named
  <2>5. Present' = {} /\ Fewer
    BY <2>1, <2>3, <2>4, Zenon DEF Fewer
  <2> QED BY <2>1, <2>2, <2>5, FewerKeeps, Zenon DEF CalmNames, Linked, Named
<1>7. CASE DeleteOther
  <2>1. Fewer /\ obj' = obj /\ pc = "delOther" /\ pc' = "patchConditions"
    BY <1>7, DeleteOtherEffect, Zenon DEF GivesUp
  <2>2. mem'.instanceID = mem.instanceID /\ mem'.scriptID = mem.scriptID
    BY <1>7, DeleteOtherEffect, Zenon DEF GivesUp, Rest, Fields
  <2>3. Present' = {}
    BY <2>1, FewerKeeps, Zenon DEF CalmNames
  <2> QED BY <2>1, <2>2, <2>3, FewerKeeps, Zenon DEF CalmNames
<1>8. CASE RemoveSecret
  <2>1. /\ Fewer /\ obj' = obj /\ pc = "unpublish" /\ pc' = "patchConditions"
        /\ mem'.instanceID = None /\ mem'.scriptID = None
    BY <1>8, UnpublishEffect, Zenon
  <2>2. mem'.finalizer = mem.finalizer
    BY <1>8, UnpublishEffect, Zenon DEF Rest, Fields
  <2>3. Bare
    BY <2>1, Zenon DEF Bare, PathInv, OwnerInv, CreatesOnlyWhenNone, Emptied
  <2>4. Linked(None, None)
    BY Zenon DEF Linked, Named
  <2> QED BY <2>1, <2>2, <2>3, <2>4, FewerKeeps, Zenon DEF CalmNames, Fewer
<1> QED BY <1>4, <1>5, <1>6, <1>7, <1>8, Zenon DEF Delete

\* The steps around the calls.
LEMMA AroundKeepsNames ==
    ASSUME OwnerInv, CopyInv, CalmNames, [Next]_vars, ~(Normal \/ Delete), ~Fault, ~Crash PROVE CalmNames'
<1> TypeOK /\ CloudTypeOK
  BY Zenon DEF OwnerInv, TypeOK
<1> UNCHANGED <<cloudVars, role>> => Fewer
  BY IdleKeeps, Zenon DEF CloudKeeps, Fewer, cloudVars, Present
<1>3. CASE ReconcileStarts
  <2>1. /\ Fewer /\ obj' = obj /\ pc = "idle" /\ obj.exists /\ pc' \in {"keys", "delFind", "patchConditions"}
    BY <1>3, StartEffect, Zenon DEF around
  <2>2. mem'.instanceID = obj.instanceID /\ mem'.scriptID = obj.scriptID /\ mem'.finalizer = obj.finalizer
    BY <1>3, StartEffect, Zenon DEF Rest, Fields
  <2> QED BY <2>1, <2>2, FewerKeeps, Zenon DEF CalmNames, Fewer
<1>4. CASE PatchConditions \/ PatchMeta
  <2>1. Fewer /\ mem' = mem /\ pc \in Patching \ {"patchStatus"} /\ pc' \in Patching
    BY <1>4, PatchesEffect, Zenon DEF around, PatchConditions, PatchMeta, PatchRequest, Patching
  <2>2. /\ obj'.instanceID = obj.instanceID /\ obj'.scriptID = obj.scriptID
        /\ obj'.finalizer = obj.finalizer \/ ~mem.finalizer
    <3>1. CASE PatchConditions
      BY <3>1, ConditionsEffect, Zenon DEF Unpatched, Rest, Fields
    <3>2. CASE PatchMeta
      <4>1. obj'.instanceID = obj.instanceID /\ obj'.scriptID = obj.scriptID
        BY <3>2, MetaEffect, Zenon DEF Unpatched, Rest, Fields
      <4> QED BY <3>2, <4>1, PatchSees, Zenon
    <3> QED BY <1>4, <3>1, <3>2, Zenon
  <2> QED BY <2>1, <2>2, FewerKeeps, Zenon DEF CalmNames, Patching, Fewer
<1>5. CASE PatchStatus
  <2>1. Fewer /\ mem' = NewCluster /\ pc = "patchStatus" /\ pc' = "idle"
    BY <1>5, PatchesEffect, Zenon DEF around, PatchStatus, PatchRequest
  <2>2. obj'.finalizer = obj.finalizer /\ obj'.exists = obj.exists
    BY <1>5, <2>1, PatchSees, Zenon
  <2>3. CASE obj.exists
    <3>1. obj'.instanceID = mem.instanceID /\ obj'.scriptID = mem.scriptID
      BY <1>5, <2>3, CalmPatch, Zenon
    <3>2. Linked(None, None)
      BY Zenon DEF Linked, Named
    <3> QED BY <2>1, <2>2, <3>1, <3>2, FewerKeeps, NewClusterFields, Zenon DEF CalmNames, Fewer
  <2>4. CASE ~obj.exists
    <3>1. obj' = obj
      BY <1>5, <2>4, PatchesEffect, Zenon
    <3>2. Linked(None, None)
      BY DEF Linked, Named
    <3> QED BY <2>1, <2>4, <3>1, <3>2, FewerKeeps, NewClusterFields, Zenon DEF CalmNames, Fewer
  <2> QED BY <2>3, <2>4, Zenon
<1>6. CASE Environment \/ EnsureFinalizer
  <2>1. Fewer /\ UNCHANGED <<pc, mem, found, script>>
    BY <1>6, EnvironmentEffect, FinalizerEffect, Zenon DEF Outside, scope, around
  <2>2. /\ obj'.instanceID = obj.instanceID /\ obj'.scriptID = obj.scriptID
        /\ (obj'.finalizer = obj.finalizer \/ obj'.finalizer) /\ (obj'.exists => obj.exists)
    BY <1>6, EnvironmentEffect, FinalizerEffect, Zenon DEF Rest, Fields
  <2>3. Named(iscript[found.id]) => Named(iscript[found.id])'
    BY <2>1, Zenon DEF Named, Fewer
  <2> QED BY <2>1, <2>2, <2>3, FewerKeeps, Zenon DEF CalmNames, Fewer
<1>7. CASE ReconcileWaits \/ KeySecretLost \/ CloudMoves \/ UNCHANGED vars
  <2>1. UNCHANGED <<obj, pc, mem, found, script, role>>
    BY <1>7, Zenon DEF ReconcileWaits, KeySecretLost, CloudMoves, vars, scope, around
  <2>2. Fewer
    BY <1>7, <2>1, CloudStepKeeps, Zenon
       DEF ReconcileWaits, KeySecretLost, CloudMoves, vars, Fewer, CloudKeeps, Present
  <2>3. Named(iscript[found.id]) => Named(iscript[found.id])'
    BY <2>1, <2>2, Zenon DEF Named, Fewer
  <2> QED BY <2>1, <2>2, <2>3, FewerKeeps, Zenon DEF CalmNames, Fewer
<1> QED BY <1>3, <1>4, <1>5, <1>6, <1>7, Zenon DEF Next, Controller, Surroundings, Environment

\* As long as no call fails, a cluster that is gone has left neither an instance
\* nor a startup script.
THEOREM ClusterLeaves == Spec => []ClusterLeavesNothing
<1>1. Init => CalmScripts
  BY NewClusterFields DEF Init, CloudInit, CalmScripts, CalmNames, Linked, Named, Bare, NoLive, Live, LiveStatus, Present
<1>2. OwnerInv /\ (PathInv /\ CopyInv) /\ CalmScripts /\ [Next]_vars => CalmScripts'
  <2> SUFFICES ASSUME OwnerInv, PathInv, CopyInv, CalmScripts, [Next]_vars, Undisturbed' PROVE CalmNames'
    BY Zenon DEF CalmScripts
  <2>1. CalmNames /\ ~Fault /\ ~Crash
    BY CalmStep, Zenon DEF OwnerInv, CalmScripts
  <2> QED BY <2>1, NormalKeepsNames, DeleteKeepsNames, AroundKeepsNames, Zenon
<1>3. OwnerInv /\ CalmScripts => ClusterLeavesNothing
  BY Zenon DEF OwnerInv, FinalizerGoesLast, CalmScripts, CalmNames, ClusterLeavesNothing
<1> QED BY <1>1, <1>2, <1>3, ClusterInvariant, CopyInvariant, PTL DEF Spec


=============================================================================
