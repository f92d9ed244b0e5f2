------------------------- MODULE VerdaMachineProofs --------------------------
(***************************************************************************)
(* Proofs about VerdaMachine, for any number of instances, scripts and     *)
(* volumes and any number of faults and crashes: the calls of the client,  *)
(* the types, the instance and the object, InstanceOwner, and what an      *)
(* undisturbed controller writes down and leaves in the account.           *)
(*                                                                         *)
(* The argument rests on one fact about the cloud: of all calls and all    *)
(* moves only Instances.Create makes an instance live (NoneBorn).  The     *)
(* last part needs as well that what is written down names all there is to *)
(* delete (CalmInv).                                                       *)
(***************************************************************************)
EXTENDS VerdaMachine, TLAPS

NoneBorn == \A i \in InstanceIDs : /\ istatus'[i] \in LiveStatus => istatus[i] \in LiveStatus
                                   /\ istatus[i] = "none" <=> istatus'[i] = "none"

CloudKeeps == CloudTypeOK' /\ NoneBorn

-----------------------------------------------------------------------------
(* The calls of the client and the moves of the cloud.                     *)

\* A step that leaves the cloud alone makes nothing live.
LEMMA IdleKeeps == ASSUME CloudTypeOK, UNCHANGED cloudVars PROVE CloudKeeps
BY Zenon DEF CloudTypeOK, cloudVars, CloudKeeps, NoneBorn

\* Deleting startup scripts (DeleteStartupScriptByName) makes nothing live.
LEMMA DeleteScriptsKeeps == ASSUME CloudTypeOK, NEW S, DeleteScripts(S) PROVE CloudKeeps
BY Zenon DEF CloudTypeOK, DeleteScripts, CloudKeeps, NoneBorn

\* Adding a startup script makes nothing live.
LEMMA AddScriptKeeps == ASSUME CloudTypeOK, NEW s \in ScriptIDs, AddStartupScript(s) PROVE CloudKeeps
BY Zenon DEF CloudTypeOK, AddStartupScript, CloudKeeps, NoneBorn

\* Cloning a volume makes nothing live.
LEMMA CloneKeeps ==
    ASSUME CloudTypeOK, NEW v \in VolumeIDs, NEW t \in BOOLEAN, CloneVolume(v, t) PROVE CloudKeeps
BY Zenon DEF CloudTypeOK, CloneVolume, VolumeStatus, CloudKeeps, NoneBorn

\* Tagging a volume makes nothing live.
LEMMA TagKeeps == ASSUME CloudTypeOK, NEW v, TagVolume(v) PROVE CloudKeeps
BY Zenon DEF CloudTypeOK, TagVolume, CloudKeeps, NoneBorn

\* Deleting a volume makes nothing live.
LEMMA DeleteVolumeKeeps == ASSUME CloudTypeOK, NEW v, DeleteVolume(v) PROVE CloudKeeps
BY Zenon DEF CloudTypeOK, DeleteVolume, VolumeStatus, CloudKeeps, NoneBorn

\* Purging the volumes of an instance makes nothing live.
LEMMA PurgeKeeps == ASSUME CloudTypeOK, NEW i, PurgeInstanceVolumes(i) PROVE CloudKeeps
BY Zenon DEF CloudTypeOK, PurgeInstanceVolumes, VolumeStatus, CloudKeeps, NoneBorn

\* DeleteInstance, in each of its four cases, makes nothing live.
LEMMA DeleteInstanceKeeps == ASSUME CloudTypeOK, NEW i \in InstanceIDs \cup {None}, DeleteInstance(i) PROVE CloudKeeps
<1>1. CASE istatus[i] \in {"none", "purged", "deleting"} /\ UNCHANGED cloudVars
  BY <1>1, IdleKeeps, Zenon
<1>2. CASE istatus[i] \in GoneStatus /\ PurgeInstanceVolumes(i)
  BY <1>2, PurgeKeeps, Zenon
<1>3. CASE /\ istatus[i] = "offline"
           /\ istatus' = [istatus EXCEPT ![i] = "deleting"]
           /\ UNCHANGED <<ishut, iscript, ivol, scripts, vstatus, vmanaged>>
  BY <1>3, Zenon DEF CloudTypeOK, InstanceStatus, LiveStatus, CloudKeeps, NoneBorn
<1>4. CASE /\ istatus[i] \in LiveStatus \ {"offline", "deleting"}
           /\ ishut' = [ishut EXCEPT ![i] = TRUE]
           /\ UNCHANGED <<istatus, iscript, ivol, scripts, vstatus, vmanaged>>
  BY <1>4, Zenon DEF CloudTypeOK, CloudKeeps, NoneBorn
<1> QED BY <1>1, <1>2, <1>3, <1>4, Zenon DEF DeleteInstance

\* Instances.Create brings the instance it returns to life, and no other.
LEMMA CreateBears ==
    ASSUME CloudTypeOK, NEW i \in InstanceIDs, NEW s \in ScriptIDs \cup {None},
           NEW v \in VolumeIDs \cup {None}, NEW S, InstancesCreate(i, s, v, S)
    PROVE  /\ CloudTypeOK'
           /\ \A j \in InstanceIDs : istatus'[j] \in LiveStatus => j = i \/ istatus[j] \in LiveStatus
           /\ istatus[i] = "none" /\ Live(i)'
           /\ \A j \in InstanceIDs \ {i} : istatus'[j] = istatus[j]
BY Zenon DEF CloudTypeOK, Live, InstancesCreate, InstanceStatus, LiveStatus, VolumeStatus

\* No move of the cloud brings an instance back to life.
LEMMA CloudStepKeeps == ASSUME CloudTypeOK, CloudStep PROVE CloudKeeps
<1>1. ASSUME NEW i \in InstanceIDs, InstanceMoves(i) PROVE CloudKeeps
  <2>1. PICK m \in Moves : istatus[i] = m[1] /\ istatus' = [istatus EXCEPT ![i] = m[2]]
    BY <1>1, Zenon DEF InstanceMoves
  <2>2. m[2] \in InstanceStatus /\ (m[2] \in LiveStatus => m[1] \in LiveStatus) /\ m[1] # "none" /\ m[2] # "none"
    BY DEF Moves, InstanceStatus, LiveStatus, GoneStatus
  <2> QED BY <1>1, <2>1, <2>2, Zenon DEF InstanceMoves, CloudTypeOK, CloudKeeps, NoneBorn
<1>2. ASSUME NEW i \in InstanceIDs, InstanceShutsDown(i) PROVE CloudKeeps
  BY <1>2, Zenon DEF InstanceShutsDown, CloudTypeOK, CloudKeeps, NoneBorn, InstanceStatus, LiveStatus
<1>3. ASSUME NEW i \in InstanceIDs, VolumeReleased(i) PROVE CloudKeeps
  BY <1>3, Zenon DEF VolumeReleased, CloudTypeOK, CloudKeeps, NoneBorn, VolumeStatus
<1>4. ASSUME NEW v \in VolumeIDs, CloneFinishes(v) \/ VolumeDeleted(v) PROVE CloudKeeps
  BY <1>4, Zenon DEF CloneFinishes, VolumeDeleted, CloudTypeOK, CloudKeeps, NoneBorn, VolumeStatus
<1> QED BY <1>1, <1>2, <1>3, <1>4, Zenon DEF CloudStep

-----------------------------------------------------------------------------
(* Types.                                                                  *)

ScopeTypeOK == pc \in PCs /\ mem \in Machines /\ queued \in BOOLEAN

\* Each way a call may end leaves pc, the copy and the queue well typed.
LEMMA ReturnType ==
    ASSUME TypeOK, NEW m \in Machines, NEW again \in BOOLEAN, Return(m, again) PROVE ScopeTypeOK'
BY Zenon DEF TypeOK, Return, ScopeTypeOK, PCs, Patching

\* Going on to the next call keeps the types.
LEMMA ContinueType ==
    ASSUME TypeOK, NEW m \in Machines, NEW next \in PCs, Continue(next, m) PROVE ScopeTypeOK'
BY Zenon DEF TypeOK, Continue, ScopeTypeOK

\* Returning an error keeps the types and spends a fault.
LEMMA ErrorType == ASSUME TypeOK, NEW m \in Machines, ReturnError(m) PROVE ScopeTypeOK' /\ faults' \in Nat
<1>1. ScopeTypeOK' BY ReturnType, Zenon DEF ReturnError
<1>2. faults' \in Nat BY DEF ReturnError, Fault, TypeOK
<1> QED BY <1>1, <1>2, Zenon

\* The number of faults left stays a natural number.
LEMMA FaultType == ASSUME TypeOK, Fault \/ NoFault PROVE faults' \in Nat
BY DEF Fault, NoFault, TypeOK

\* instanceGone tells the states in which an instance is not alive.
LEMMA GoneIsNotLive == \A st \in ReportedStatus : instanceGone(st) <=> st \notin LiveStatus
BY Zenon DEF ReportedStatus, instanceGone, LiveStatus, GoneStatus

\* What findInstance returns is an ID with a state that the cloud reports, and
\* an ID of an instance comes with the state it is in.
LEMMA FindInstanceType ==
    ASSUME TypeOK, NEW r \in findInstance(mem)
    PROVE  /\ r \in [id: InstanceIDs \cup {None}, status: ReportedStatus]
           /\ r.id = None => r = NoInstance
           /\ r.id = None => mem.instanceID = None
           /\ mem.instanceID # None => r.id = mem.instanceID
           /\ mem.instanceID = None /\ r.id # None => istatus[r.id] \in LiveStatus
           /\ r.id = None /\ acct = "own" => \A i \in InstanceIDs : istatus[i] \notin LiveStatus
           /\ r.id # None /\ acct = "own" => (r.status \in LiveStatus <=> istatus[r.id] \in LiveStatus)
<1> /\ mem.instanceID \in InstanceIDs \cup {None} /\ None \notin InstanceIDs
    /\ istatus \in [InstanceIDs -> InstanceStatus]
  BY NoneAssumption, Zenon DEF TypeOK, Machines, CloudTypeOK
<1>2. "notfound" \notin LiveStatus
  BY Zenon DEF LiveStatus
<1>3. CASE mem.instanceID # None
  <2>1. r = [id |-> mem.instanceID, status |-> IF acct = "own" THEN GetInstance(mem.instanceID) ELSE "notfound"]
    BY <1>3, Zenon DEF findInstance
  <2>2. GetInstance(mem.instanceID) \in ReportedStatus
    BY <1>3, Zenon DEF GetInstance, ReportedStatus, InstanceStatus
  <2>3. GetInstance(mem.instanceID) \in LiveStatus <=> istatus[mem.instanceID] \in LiveStatus
    BY <1>3, Zenon DEF GetInstance, LiveStatus
  <2> QED BY <1>2, <1>3, <2>1, <2>2, <2>3, Zenon DEF ReportedStatus
<1>4. CASE mem.instanceID = None /\ (acct = "other" \/ FindInstanceByTag = {})
  <2>1. r = NoInstance
    BY <1>4, Zenon DEF findInstance
  <2>2. ASSUME FindInstanceByTag = {}, NEW i \in InstanceIDs PROVE istatus[i] \notin LiveStatus
    BY <2>2, Zenon DEF FindInstanceByTag, Listed, LiveStatus
  <2> QED BY <1>4, <2>1, <2>2, Zenon DEF NoInstance, ReportedStatus
<1>5. CASE mem.instanceID = None /\ acct # "other" /\ FindInstanceByTag # {}
  <2>1. PICK i \in FindInstanceByTag :
             r = IF instanceGone(istatus[i]) THEN NoInstance ELSE [id |-> i, status |-> istatus[i]]
    BY <1>5, Zenon DEF findInstance
  <2>2. i \in InstanceIDs /\ (instanceGone(istatus[i]) <=> ~Live(i))
    BY GoneIsNotLive, Zenon DEF FindInstanceByTag, Listed, Live, ReportedStatus, GoneStatus
  <2>3. CASE Live(i)
    BY <1>5, <2>1, <2>2, <2>3, Zenon DEF Live, ReportedStatus
  <2>4. CASE ~Live(i)
    <3>1. ASSUME NEW j \in InstanceIDs, istatus[j] \in LiveStatus PROVE FALSE
      <4>1. j \in Listed /\ istatus[j] # "discontinued"
        BY <3>1, Zenon DEF Listed, LiveStatus
      <4>2. i \in Listed /\ istatus[i] # "discontinued"
        BY <4>1, Zenon DEF FindInstanceByTag
      <4> QED BY <2>4, <4>2, Zenon DEF Listed, Live
    <3> QED BY <1>5, <2>1, <2>2, <2>4, <3>1, Zenon DEF NoInstance, ReportedStatus
  <2> QED BY <2>3, <2>4, Zenon
<1> QED BY <1>3, <1>4, <1>5, Zenon

\* The parts of TypeOK that a call made inside a reconcile may touch.
LEMMA InsideType ==
    ASSUME TypeOK, Inside, CloudTypeOK', ScopeTypeOK', faults' \in Nat,
           found' \in [id: InstanceIDs \cup {None}, status: ReportedStatus],
           volume' \in [id: VolumeIDs \cup {None}, status: VolumeStatus, managed: BOOLEAN],
           script' \in ScriptIDs \cup {None}, pc' \in Holding => found'.id # None
    PROVE  TypeOK'
BY Zenon DEF TypeOK, Inside, ScopeTypeOK

\* Setting one field to a value of its type leaves a VerdaMachine.
LEMMA SetType ==
    /\ \A m \in Machines, x \in BOOLEAN : [m EXCEPT !.ready = x] \in Machines
    /\ \A m \in Machines, x \in BOOLEAN : [m EXCEPT !.osReady = x] \in Machines
    /\ \A m \in Machines, x \in BOOLEAN : [m EXCEPT !.finalizer = x] \in Machines
    /\ \A m \in Machines, x \in BOOLEAN : [m EXCEPT !.exists = x] \in Machines
    /\ \A m \in Machines, x \in BOOLEAN : [m EXCEPT !.provisioned = x] \in Machines
    /\ \A m \in Machines, x \in BOOLEAN : [m EXCEPT !.deleting = x] \in Machines
    /\ \A m \in Machines, x \in ProviderIDs : [m EXCEPT !.providerID = x] \in Machines
    /\ \A m \in Machines, x \in LiveStatus \cup {"none"} : [m EXCEPT !.delReq = x] \in Machines
    /\ \A m \in Machines, x \in InstanceIDs \cup {None} : [m EXCEPT !.instanceID = x] \in Machines
    /\ \A m \in Machines, x \in ScriptIDs \cup {None} : [m EXCEPT !.scriptID = x] \in Machines
    /\ \A m \in Machines, x \in VolumeIDs \cup {None} : [m EXCEPT !.osVolumeID = x] \in Machines
<1>1. \A m \in Machines, x \in BOOLEAN : [m EXCEPT !.ready = x] \in Machines
  BY Zenon DEF Machines
<1>2. \A m \in Machines, x \in BOOLEAN : [m EXCEPT !.osReady = x] \in Machines
  BY Zenon DEF Machines
<1>3. \A m \in Machines, x \in BOOLEAN : [m EXCEPT !.finalizer = x] \in Machines
  BY Zenon DEF Machines
<1>4. \A m \in Machines, x \in BOOLEAN : [m EXCEPT !.exists = x] \in Machines
  BY Zenon DEF Machines
<1>5. \A m \in Machines, x \in BOOLEAN : [m EXCEPT !.provisioned = x] \in Machines
  BY Zenon DEF Machines
<1>6. \A m \in Machines, x \in BOOLEAN : [m EXCEPT !.deleting = x] \in Machines
  BY Zenon DEF Machines
<1>7. \A m \in Machines, x \in ProviderIDs : [m EXCEPT !.providerID = x] \in Machines
  BY Zenon DEF Machines
<1>8. \A m \in Machines, x \in LiveStatus \cup {"none"} : [m EXCEPT !.delReq = x] \in Machines
  BY Zenon DEF Machines
<1>9. \A m \in Machines, x \in InstanceIDs \cup {None} : [m EXCEPT !.instanceID = x] \in Machines
  BY Zenon DEF Machines
<1>10. \A m \in Machines, x \in ScriptIDs \cup {None} : [m EXCEPT !.scriptID = x] \in Machines
  BY Zenon DEF Machines
<1>11. \A m \in Machines, x \in VolumeIDs \cup {None} : [m EXCEPT !.osVolumeID = x] \in Machines
  BY Zenon DEF Machines
<1> QED BY <1>1, <1>2, <1>3, <1>4, <1>5, <1>6, <1>7, <1>8, <1>9, <1>10, <1>11, Zenon

\* Clearing the InstanceReady condition leaves a VerdaMachine.
LEMMA NotReadyType == ASSUME NEW m \in Machines PROVE NotReady(m) \in Machines
BY Zenon DEF NotReady, Machines

\* Reconcile up to the first cloud call keeps the types.
LEMMA StartType == ASSUME TypeOK, ReconcileWaits \/ EnsureFinalizer \/ ReconcileStarts PROVE TypeOK'
<1> CloudTypeOK'
  BY IdleKeeps, Zenon DEF TypeOK, ReconcileWaits, EnsureFinalizer, ReconcileStarts, CloudKeeps
<1>2. CASE ReconcileWaits
  BY <1>2, Zenon DEF TypeOK, ReconcileWaits, scope
<1>3. CASE EnsureFinalizer
  <2>1. faults' \in Nat
    BY <1>3, FaultType, Zenon DEF EnsureFinalizer
  <2>2. obj \in Machines /\ obj.exists \in BOOLEAN
    BY Zenon DEF TypeOK, Machines
  <2>3. [obj EXCEPT !.finalizer = obj.exists] \in Machines
    BY <2>2, SetType, Zenon
  <2>4. obj' \in Machines /\ queued' \in BOOLEAN
    BY <1>3, <2>2, <2>3, Zenon DEF EnsureFinalizer, TypeOK
  <2> QED BY <1>3, <2>1, <2>4, Zenon DEF TypeOK, EnsureFinalizer, scope
<1>4. CASE ReconcileStarts
  <2>1. faults' \in Nat
    BY <1>4, FaultType, Zenon DEF ReconcileStarts
  <2>2. NotReady(cache) \in Machines
    BY NotReadyType, Zenon DEF TypeOK
  <2>3. pc' \in PCs /\ mem' \in Machines /\ queued' \in BOOLEAN
    BY <1>4, <2>2, Zenon DEF ReconcileStarts, TypeOK, PCs, Patching
  <2>7. pc' \notin Holding
    BY <1>4, Zenon DEF ReconcileStarts, Holding
  <2>4. found' \in [id: InstanceIDs \cup {None}, status: ReportedStatus]
    BY <1>4, Zenon DEF ReconcileStarts, NoInstance, ReportedStatus
  <2>5. volume' \in [id: VolumeIDs \cup {None}, status: VolumeStatus, managed: BOOLEAN]
    BY <1>4, Zenon DEF ReconcileStarts, NoVolume, VolumeStatus
  <2>6. acct' \in {"own", "other"} /\ base' \in Machines /\ script' \in ScriptIDs \cup {None}
    BY <1>4, Zenon DEF ReconcileStarts, ClientAccount, TypeOK
  <2> QED BY <1>4, <2>1, <2>3, <2>4, <2>5, <2>6, <2>7, Zenon DEF TypeOK, ReconcileStarts
<1> QED BY <1>2, <1>3, <1>4, Zenon

\* The calls a reconcile makes besides Instances.Create.
OtherCalls == \/ FindInstance \/ LookUpVolume \/ CloneOSVolume \/ TagOSVolume \/ CreateChecksHostname
              \/ CreateAddsScript \/ RecordInstance \/ DeleteNoCapacity \/ ResyncInstance
              \/ \E elapsed \in BOOLEAN : DeleteFindsInstance(elapsed)
              \/ DeleteRequestsInstance \/ DeletePurgesVolumes \/ DeleteScript \/ DeleteOSVolume

\* Of the calls of a reconcile only Instances.Create makes an instance live.
LEMMA CallsKeep == ASSUME TypeOK, OtherCalls PROVE CloudKeeps
<1> CloudTypeOK /\ found.id \in InstanceIDs \cup {None}
  BY Zenon DEF TypeOK
<1>2. CASE FindInstance \/ LookUpVolume \/ ResyncInstance
  BY <1>2, IdleKeeps, Zenon DEF FindInstance, LookUpVolume, ResyncInstance
<1>3. CASE CloneOSVolume
  <2>1. (\E v \in VolumeIDs, t \in BOOLEAN : CloneVolume(v, t)) \/ UNCHANGED cloudVars
    BY <1>3, Zenon DEF CloneOSVolume
  <2> QED BY <2>1, IdleKeeps, CloneKeeps, Zenon
<1>4. CASE TagOSVolume
  <2>1. TagVolume(volume.id) \/ UNCHANGED cloudVars
    BY <1>4, Zenon DEF TagOSVolume
  <2> QED BY <2>1, IdleKeeps, TagKeeps, Zenon
<1>5. CASE CreateChecksHostname
  <2>1. (\E S : DeleteScripts(S)) \/ UNCHANGED cloudVars
    BY <1>5, Zenon DEF CreateChecksHostname, RemoveOldScripts
  <2> QED BY <2>1, IdleKeeps, DeleteScriptsKeeps, Zenon
<1>6. CASE CreateAddsScript
  <2>1. (\E s \in ScriptIDs : AddStartupScript(s)) \/ UNCHANGED cloudVars
    BY <1>6, Zenon DEF CreateAddsScript, AddScript
  <2> QED BY <2>1, IdleKeeps, AddScriptKeeps, Zenon
<1>7. CASE RecordInstance
  <2>1. TagVolume(mem.osVolumeID) \/ UNCHANGED cloudVars
    BY <1>7, Zenon DEF RecordInstance
  <2> QED BY <2>1, IdleKeeps, TagKeeps, Zenon
<1>8. CASE DeleteNoCapacity \/ DeleteRequestsInstance
  <2>1. DeleteInstance(found.id) \/ UNCHANGED cloudVars
    BY <1>8, Zenon DEF DeleteNoCapacity, DeleteRequestsInstance, RequestDelete
  <2> QED BY <2>1, IdleKeeps, DeleteInstanceKeeps, Zenon
<1>9. CASE \E elapsed \in BOOLEAN : DeleteFindsInstance(elapsed)
  BY <1>9, IdleKeeps, Zenon DEF DeleteFindsInstance
<1>10. CASE DeletePurgesVolumes
  <2>1. PurgeInstanceVolumes(found.id) \/ UNCHANGED cloudVars
    BY <1>10, Zenon DEF DeletePurgesVolumes, PurgeVolumes
  <2> QED BY <2>1, IdleKeeps, PurgeKeeps, Zenon
<1>11. CASE DeleteScript
  <2>1. \E S : DeleteScripts(S)
    BY <1>11, Zenon DEF DeleteScript
  <2> QED BY <2>1, DeleteScriptsKeeps, Zenon
<1>12. CASE DeleteOSVolume
  <2>1. DeleteVolume(mem.osVolumeID) \/ UNCHANGED cloudVars
    BY <1>12, Zenon DEF DeleteOSVolume
  <2> QED BY <2>1, IdleKeeps, DeleteVolumeKeeps
<1> QED
  BY <1>2, <1>3, <1>4, <1>5, <1>6, <1>7, <1>8, <1>9, <1>10, <1>11, <1>12, Zenon DEF OtherCalls

\* Looking up the instance and its volume keeps the types.
LEMMA LookUpType == ASSUME TypeOK, FindInstance \/ LookUpVolume PROVE TypeOK'
<1> CloudTypeOK'
  BY CallsKeep, Zenon DEF OtherCalls, CloudKeeps
<1> mem \in Machines
  BY Zenon DEF TypeOK
<1>3. CASE FindInstance
  <2>1. CASE /\ NoFault
             /\ \E r \in findInstance(mem) :
                /\ found' = r
                /\ Continue(IF r.id # None THEN "record" ELSE IF UseClone THEN "volume" ELSE "script", mem)
    <3>1. PICK r \in findInstance(mem) :
                /\ found' = r
                /\ Continue(IF r.id # None THEN "record" ELSE IF UseClone THEN "volume" ELSE "script", mem)
      BY <2>1, Zenon
    <3>2. (IF r.id # None THEN "record" ELSE IF UseClone THEN "volume" ELSE "script") \in PCs
      BY Zenon DEF PCs, Creating, Holding
    <3>3. ScopeTypeOK'
      BY <3>1, <3>2, ContinueType, Zenon
    <3>4. pc' \in Holding => found'.id # None
      BY <3>1, UseCloneAssumption, Zenon DEF Continue, Holding
    <3> QED BY <1>3, <2>1, <3>1, <3>3, <3>4, FindInstanceType, FaultType, InsideType, Zenon DEF FindInstance, TypeOK
  <2>2. CASE ReturnError(mem) /\ UNCHANGED found
    <3>1. pc' \notin Holding
      BY <2>2, Zenon DEF ReturnError, Return, Holding
    <3> QED BY <1>3, <2>2, <3>1, ErrorType, InsideType, Zenon DEF FindInstance, TypeOK
  <2> QED BY <1>3, <2>1, <2>2, Zenon DEF FindInstance
<1>4. CASE LookUpVolume
  <2>h. pc' \notin Holding
    BY <1>4, Zenon DEF LookUpVolume, Continue, ReturnError, Return, Holding
  <2> DEFINE byID == {[id |-> mem.osVolumeID, status |-> st, managed |-> vmanaged[mem.osVolumeID]] :
                       st \in GetVolume(mem.osVolumeID) \ {"notfound"}}
             byName == {[id |-> v, status |-> vstatus[v], managed |-> vmanaged[v]] : v \in FindVolumeByName}
  <2>1. CASE NoFault /\ \E r \in IF mem.osVolumeID # None THEN byID ELSE byName :
                    volume' = r /\ Continue("tag", [mem EXCEPT !.osVolumeID = r.id])
    <3>1. PICK r \in IF mem.osVolumeID # None THEN byID ELSE byName :
                    volume' = r /\ Continue("tag", [mem EXCEPT !.osVolumeID = r.id])
      BY <2>1, Zenon
    <3>2. r \in [id: VolumeIDs \cup {None}, status: VolumeStatus, managed: BOOLEAN]
      <4>1. CASE mem.osVolumeID # None
        <5>1. mem.osVolumeID \in VolumeIDs
          BY <4>1, Zenon DEF TypeOK, Machines
        <5>2. GetVolume(mem.osVolumeID) \ {"notfound"} \subseteq VolumeStatus
          BY <5>1, Zenon DEF GetVolume, VolumeStatus, TypeOK, CloudTypeOK
        <5>3. PICK st \in VolumeStatus : r = [id |-> mem.osVolumeID, status |-> st, managed |-> vmanaged[mem.osVolumeID]]
          BY <4>1, <5>2, Zenon
        <5>4. vmanaged[mem.osVolumeID] \in BOOLEAN
          BY <5>1, Zenon DEF TypeOK, CloudTypeOK
        <5> QED BY <5>1, <5>3, <5>4, Zenon
      <4>2. CASE mem.osVolumeID = None
        <5>1. PICK v \in VolumeIDs : r = [id |-> v, status |-> vstatus[v], managed |-> vmanaged[v]]
          BY <4>2, Zenon DEF FindVolumeByName
        <5>2. vstatus[v] \in VolumeStatus /\ vmanaged[v] \in BOOLEAN
          BY Zenon DEF TypeOK, CloudTypeOK
        <5> QED BY <5>1, <5>2, Zenon
      <4> QED BY <4>1, <4>2, Zenon
    <3>3. [mem EXCEPT !.osVolumeID = r.id] \in Machines
      <4>1. r.id \in VolumeIDs \cup {None} /\ mem \in Machines
        BY <3>2, Zenon DEF TypeOK
      <4> QED BY <4>1, SetType, Zenon
    <3>4. ScopeTypeOK'
      BY <3>1, <3>3, ContinueType, Zenon DEF PCs, Creating
    <3> QED BY <1>4, <2>1, <2>h, <3>1, <3>2, <3>4, FaultType, InsideType, Zenon DEF LookUpVolume, TypeOK
  <2>2. CASE NoFault /\ Continue("clone", mem) /\ UNCHANGED volume
    <3>1. ScopeTypeOK'
      BY <2>2, ContinueType, Zenon DEF PCs, Creating
    <3> QED BY <1>4, <2>2, <2>h, <3>1, FaultType, InsideType, Zenon DEF LookUpVolume, TypeOK
  <2>3. CASE ReturnError(mem) /\ UNCHANGED volume
    BY <1>4, <2>3, <2>h, ErrorType, InsideType, Zenon DEF LookUpVolume, TypeOK
  <2> QED BY <1>4, <2>1, <2>2, <2>3, Zenon DEF LookUpVolume
<1> QED BY <1>3, <1>4, Zenon

\* The other fields a reconcile sets on its copy leave a VerdaMachine.
LEMMA UpdateType ==
    ASSUME NEW m \in Machines
    PROVE  /\ \A v \in VolumeIDs : [m EXCEPT !.osVolumeID = v] \in Machines
           /\ \A b \in BOOLEAN : [m EXCEPT !.osReady = b] \in Machines
           /\ \A b \in BOOLEAN : [m EXCEPT !.ready = b] \in Machines
           /\ \A st \in LiveStatus : [m EXCEPT !.delReq = st] \in Machines
           /\ [m EXCEPT !.scriptID = None] \in Machines
           /\ [m EXCEPT !.instanceID = None, !.providerID = "none"] \in Machines
           /\ [m EXCEPT !.ready = TRUE, !.provisioned = TRUE] \in Machines
           /\ Cleaned(m) \in Machines
<1>1. \A v \in VolumeIDs : [m EXCEPT !.osVolumeID = v] \in Machines
  BY SetType, Zenon
<1>2. \A b \in BOOLEAN : [m EXCEPT !.osReady = b] \in Machines /\ [m EXCEPT !.ready = b] \in Machines
  BY SetType, Zenon
<1>3. \A st \in LiveStatus : [m EXCEPT !.delReq = st] \in Machines
  BY SetType, Zenon
<1>4. [m EXCEPT !.scriptID = None] \in Machines
  BY SetType, Zenon
<1>5. "none" \in ProviderIDs
  BY Zenon DEF ProviderIDs
<1>6. [m EXCEPT !.instanceID = None, !.providerID = "none"] \in Machines
  BY <1>5, SetType, Zenon
<1>7. [m EXCEPT !.ready = TRUE, !.provisioned = TRUE] \in Machines
  BY SetType, Zenon
<1>8. Cleaned(m) \in Machines
  BY SetType, Zenon DEF Cleaned
<1> QED BY <1>1, <1>2, <1>3, <1>4, <1>6, <1>7, <1>8, Zenon

\* Making and tagging the clone keeps the types.
LEMMA CloneType == ASSUME TypeOK, CloneOSVolume \/ TagOSVolume PROVE TypeOK'
<1>1. CloudTypeOK'
  BY CallsKeep, Zenon DEF OtherCalls, CloudKeeps
<1>2. mem \in Machines
  BY Zenon DEF TypeOK
<1>3. faults' \in Nat
  BY FaultType, Zenon DEF CloneOSVolume, TagOSVolume, TagMayFail, ReturnError
<1>4. CASE CloneOSVolume
  <2>1. \/ \E v \in VolumeIDs : /\ volume' = [id |-> v, status |-> "cloning", managed |-> FALSE]
                                /\ Continue("tag", [mem EXCEPT !.osVolumeID = v])
        \/ UNCHANGED volume /\ Return([mem EXCEPT !.osReady = FALSE], TRUE)
    BY <1>4, Zenon DEF CloneOSVolume, ReturnError
  <2>2. ScopeTypeOK'
    BY <1>2, <2>1, UpdateType, ContinueType, ReturnType, Zenon DEF PCs, Creating
  <2>3. \/ \E v \in VolumeIDs : volume' = [id |-> v, status |-> "cloning", managed |-> FALSE]
        \/ UNCHANGED volume
    BY <1>4, Zenon DEF CloneOSVolume
  <2>4. volume' \in [id: VolumeIDs \cup {None}, status: VolumeStatus, managed: BOOLEAN]
    <3>1. "cloning" \in VolumeStatus
      BY Zenon DEF VolumeStatus
    <3>2. \A v \in VolumeIDs : [id |-> v, status |-> "cloning", managed |-> FALSE]
             \in [id: VolumeIDs \cup {None}, status: VolumeStatus, managed: BOOLEAN]
      BY <3>1, Zenon
    <3> QED BY <2>3, <3>2, Zenon DEF TypeOK
  <2>5. pc' \notin Holding
    BY <2>1, Zenon DEF Continue, Return, Holding
  <2> QED BY <1>1, <1>3, <1>4, <2>2, <2>4, <2>5, InsideType, Zenon DEF CloneOSVolume, TypeOK
<1>5. CASE TagOSVolume
  <2>1. PICK ok \in BOOLEAN :
          LET m == [mem EXCEPT !.osReady = ok /\ volume.status \in {"detached", "attached"}]
          IN  IF volume.status = "detached" THEN Continue("script", m) ELSE Return(NotReady(m), TRUE)
    BY <1>5, Zenon DEF TagOSVolume
  <2>2. [mem EXCEPT !.osReady = ok /\ volume.status \in {"detached", "attached"}] \in Machines
    BY <1>2, UpdateType, Zenon
  <2>3. ScopeTypeOK'
    BY <2>1, <2>2, NotReadyType, ContinueType, ReturnType, Zenon DEF PCs, Creating
  <2>4. pc' \notin Holding
    BY <2>1, Zenon DEF Continue, Return, Holding
  <2> QED BY <1>1, <1>3, <1>5, <2>3, <2>4, InsideType, Zenon DEF TagOSVolume, TypeOK
<1> QED BY <1>4, <1>5, Zenon

\* Preparing the script and creating the instance keeps the types.
LEMMA CreateType ==
    ASSUME TypeOK, CreateChecksHostname \/ CreateAddsScript \/ CreateInstance PROVE TypeOK'
<1> mem \in Machines /\ NotReady(mem) \in Machines
  BY NotReadyType, Zenon DEF TypeOK
<1> faults' \in Nat
  BY FaultType, Zenon DEF CreateChecksHostname, RemoveOldScripts, CreateAddsScript, AddScript, CreateInstance, Instantiate, ReturnError
<1>3. CASE CreateChecksHostname
  <2>1. Return(NotReady(mem), TRUE) \/ Continue("addScript", mem)
    BY <1>3, Zenon DEF CreateChecksHostname, RemoveOldScripts, ReturnError
  <2>2. ScopeTypeOK'
    BY <2>1, ContinueType, ReturnType, Zenon DEF PCs, Creating
  <2>3. pc' \notin Holding
    BY <2>1, Zenon DEF Continue, Return, Holding
  <2> QED BY <1>3, <2>2, <2>3, CallsKeep, InsideType, Zenon DEF OtherCalls, CloudKeeps, CreateChecksHostname, RemoveOldScripts, TypeOK
<1>4. CASE CreateAddsScript
  <2>1. /\ Return(NotReady(mem), TRUE) \/ Continue("create", mem)
        /\ script' \in ScriptIDs \cup {None}
    BY <1>4, Zenon DEF CreateAddsScript, AddScript, ReturnError, TypeOK
  <2>2. ScopeTypeOK'
    BY <2>1, ContinueType, ReturnType, Zenon DEF PCs, Creating
  <2>3. pc' \notin Holding
    BY <2>1, Zenon DEF Continue, Return, Holding
  <2> QED BY <1>4, <2>1, <2>2, <2>3, CallsKeep, InsideType, Zenon DEF OtherCalls, CloudKeeps, CreateAddsScript, AddScript, TypeOK
<1>5. CASE CreateInstance
  <2>1. Return(NotReady(mem), TRUE) \/ Continue("record", mem)
    BY <1>5, Zenon DEF CreateInstance, Instantiate, ReturnError
  <2>2. ScopeTypeOK'
    BY <2>1, ContinueType, ReturnType, Zenon DEF PCs, Holding
  <2>4. \/ UNCHANGED found /\ pc' = "patchConditions"
        \/ \E i \in InstanceIDs : found' = [id |-> i, status |-> "provisioning"]
    BY <1>5, Zenon DEF CreateInstance, Instantiate, ReturnError, Return
  <2>5. /\ found' \in [id: InstanceIDs \cup {None}, status: ReportedStatus]
        /\ pc' \in Holding => found'.id # None
    BY <2>4, NoneAssumption, SMTT(30) DEF TypeOK, ReportedStatus, LiveStatus, Holding
  <2>3. CloudTypeOK'
    <3>1. BootVolumes \subseteq VolumeIDs \cup {None} /\ script \in ScriptIDs \cup {None} /\ CloudTypeOK
      BY Zenon DEF BootVolumes, TypeOK, Machines
    <3>2. \/ \E i \in InstanceIDs, v \in BootVolumes, S \in SUBSET {script} : InstancesCreate(i, script, v, S)
          \/ \E S : DeleteScripts(S)
      BY <1>5, Zenon DEF CreateInstance, Instantiate
    <3> QED BY <3>1, <3>2, CreateBears, DeleteScriptsKeeps, Zenon DEF CloudKeeps
  <2> QED BY <1>5, <2>2, <2>3, <2>5, InsideType, Zenon DEF CreateInstance, Instantiate, TypeOK
<1> QED BY <1>3, <1>4, <1>5, Zenon

\* Recording the instance leaves a VerdaMachine.
LEMMA RecordedType == ASSUME TypeOK, found.id # None PROVE Recorded(mem) \in Machines
<1>1. mem \in Machines /\ found.id \in InstanceIDs
  BY Zenon DEF TypeOK
<1>2. (IF found.status # "notfound" /\ iscript[found.id] # None THEN iscript[found.id] ELSE mem.scriptID)
        \in ScriptIDs \cup {None}
  BY <1>1, Zenon DEF TypeOK, CloudTypeOK, Machines
<1>3. (IF found.status = "notfound" THEN "bare" ELSE "node") \in ProviderIDs
  BY Zenon DEF ProviderIDs
<1> DEFINE p == IF found.status = "notfound" THEN "bare" ELSE "node"
           s == IF found.status # "notfound" /\ iscript[found.id] # None THEN iscript[found.id] ELSE mem.scriptID
<1>4. Recorded(mem) = [mem EXCEPT !.instanceID = found.id, !.providerID = p, !.scriptID = s]
  BY Zenon DEF Recorded
<1> HIDE DEF p, s
<1>5. p \in ProviderIDs /\ s \in ScriptIDs \cup {None}
  BY <1>2, <1>3, Zenon DEF p, s
<1>6. [mem EXCEPT !.instanceID = found.id, !.providerID = p, !.scriptID = s] \in Machines
  BY <1>1, <1>5, SetType, Zenon
<1> QED BY <1>4, <1>6, Zenon

\* Recording the instance, giving it up and resyncing it keep the types.
LEMMA RecordType == ASSUME TypeOK, RecordInstance \/ DeleteNoCapacity \/ ResyncInstance PROVE TypeOK'
<1> CloudTypeOK'
  BY CallsKeep, Zenon DEF OtherCalls, CloudKeeps
<1> mem \in Machines /\ NotReady(mem) \in Machines
  BY NotReadyType, Zenon DEF TypeOK
<1> faults' \in Nat
  BY FaultType, Zenon DEF RecordInstance, DeleteNoCapacity, ResyncInstance, TagMayFail, ReturnError
<1>4. CASE RecordInstance
  <2>1. found.id # None
    BY <1>4, Zenon DEF RecordInstance, TypeOK, Holding
  <2>2. Recorded(mem) \in Machines /\ [Recorded(mem) EXCEPT !.osReady = TRUE] \in Machines
    BY <2>1, RecordedType, UpdateType, Zenon
  <2>3. PICK m \in Machines : Decide(m)
    BY <1>4, <2>2, Zenon DEF RecordInstance
  <2>4. NotReady(m) \in Machines /\ [m EXCEPT !.ready = TRUE, !.provisioned = TRUE] \in Machines
    BY NotReadyType, UpdateType, Zenon
  <2>5. \/ Return([m EXCEPT !.ready = TRUE, !.provisioned = TRUE], FALSE)
        \/ Continue("noCapacity", m)
        \/ Return(NotReady(m), found.status = "deleted")
        \/ Return(NotReady(m), TRUE)
    BY <2>3, Zenon DEF Decide
  <2>6. ScopeTypeOK'
    BY <2>4, <2>5, ReturnType, ContinueType, Zenon DEF PCs, Holding
  <2> QED BY <1>4, <2>1, <2>6, InsideType, Zenon DEF RecordInstance, TypeOK
<1>5. CASE DeleteNoCapacity
  <2>1. \/ Return([NotReady(mem) EXCEPT !.instanceID = None, !.providerID = "none"], TRUE)
        \/ Return(mem, TRUE)
    BY <1>5, Zenon DEF DeleteNoCapacity, ReturnError
  <2>2. [NotReady(mem) EXCEPT !.instanceID = None, !.providerID = "none"] \in Machines
    BY UpdateType, Zenon
  <2>3. ScopeTypeOK' /\ pc' \notin Holding
    BY <2>1, <2>2, ReturnType, Zenon DEF Return, Holding
  <2> QED BY <1>5, <2>3, InsideType, Zenon DEF DeleteNoCapacity, TypeOK
<1>6. CASE ResyncInstance
  <2>1. (\E b \in BOOLEAN : Return([mem EXCEPT !.ready = b], TRUE)) \/ Return(mem, TRUE)
    BY <1>6, Zenon DEF ResyncInstance, ReturnError
  <2>2. ScopeTypeOK' /\ pc' \notin Holding
    BY <2>1, UpdateType, ReturnType, Zenon DEF Return, Holding
  <2> QED BY <1>6, <2>2, InsideType, Zenon DEF ResyncInstance, TypeOK
<1> QED BY <1>4, <1>5, <1>6, Zenon

\* reconcileDelete keeps the types.
LEMMA DeleteType == ASSUME TypeOK, Delete PROVE TypeOK'
<1> CloudTypeOK'
  BY CallsKeep, Zenon DEF OtherCalls, CloudKeeps, Delete
<1> mem \in Machines
  BY Zenon DEF TypeOK
<1> faults' \in Nat
  BY FaultType, Zenon DEF Delete, DeleteFindsInstance, DeleteRequestsInstance, RequestDelete, DeletePurgesVolumes, PurgeVolumes,
                   DeleteScript, DeleteOSVolume, ReturnError
<1>4. ASSUME NEW elapsed \in BOOLEAN, DeleteFindsInstance(elapsed) PROVE TypeOK'
  <2>1. CASE \E r \in findInstance(mem) :
                /\ found' = r
                /\ IF instanceGone(r.status)
                   THEN Continue(IF r.status = "notfound" THEN "delScript" ELSE "purge", mem)
                   ELSE IF r.status # "deleting" /\ DeleteRequestDue(r.status, elapsed)
                        THEN Continue("delInstance", [mem EXCEPT !.delReq = r.status])
                        ELSE Return(mem, TRUE)
    <3>1. PICK r \in findInstance(mem) :
                /\ found' = r
                /\ IF instanceGone(r.status)
                   THEN Continue(IF r.status = "notfound" THEN "delScript" ELSE "purge", mem)
                   ELSE IF r.status # "deleting" /\ DeleteRequestDue(r.status, elapsed)
                        THEN Continue("delInstance", [mem EXCEPT !.delReq = r.status])
                        ELSE Return(mem, TRUE)
      BY <2>1, Zenon
    <3>2. found' \in [id: InstanceIDs \cup {None}, status: ReportedStatus]
      BY <3>1, FindInstanceType, Zenon
    <3>7. ~instanceGone(r.status) => r.status \in LiveStatus
      BY <3>1, FindInstanceType, GoneIsNotLive, Zenon
    <3>3. ~instanceGone(r.status) => r.id # None
      BY <3>1, <3>7, FindInstanceType DEF NoInstance, LiveStatus
    <3>4. ~instanceGone(r.status) => [mem EXCEPT !.delReq = r.status] \in Machines
      BY <3>7, UpdateType, Zenon
    <3>5. ScopeTypeOK'
      BY <3>1, <3>4, ContinueType, ReturnType, Zenon DEF PCs, Holding, Cleaning
    <3>6. pc' \in Holding => found'.id # None
      BY <3>1, <3>3, Zenon DEF Continue, Return, Holding
    <3> QED BY <1>4, <3>2, <3>5, <3>6, InsideType, Zenon DEF DeleteFindsInstance, TypeOK
  <2>2. CASE ReturnError(mem) /\ UNCHANGED found
    <3>1. ScopeTypeOK' /\ pc' \notin Holding
      BY <2>2, ErrorType, Zenon DEF ReturnError, Return, Holding
    <3> QED BY <1>4, <2>2, <3>1, InsideType, Zenon DEF DeleteFindsInstance, TypeOK
  <2> QED BY <1>4, <2>1, <2>2, Zenon DEF DeleteFindsInstance
<1>5. CASE DeleteRequestsInstance
  <2>1. Return(mem, TRUE)
    BY <1>5, Zenon DEF DeleteRequestsInstance, RequestDelete, ReturnError
  <2>2. ScopeTypeOK' /\ pc' \notin Holding
    BY <2>1, ReturnType, Zenon DEF Return, Holding
  <2> QED BY <1>5, <2>2, InsideType, Zenon DEF DeleteRequestsInstance, RequestDelete, TypeOK
<1>6. CASE DeletePurgesVolumes
  <2>1. Return(mem, TRUE) \/ Continue("delScript", mem)
    BY <1>6, Zenon DEF DeletePurgesVolumes, PurgeVolumes, ReturnError
  <2>2. ScopeTypeOK' /\ pc' \notin Holding
    BY <2>1, ReturnType, ContinueType, Zenon DEF Return, Continue, Holding, PCs, Cleaning
  <2> QED BY <1>6, <2>2, InsideType, Zenon DEF DeletePurgesVolumes, PurgeVolumes, TypeOK
<1>7. CASE DeleteScript
  <2>1. Return(mem, TRUE) \/ Continue("delVolume", [mem EXCEPT !.scriptID = None])
    BY <1>7, ZenonT(60) DEF DeleteScript, ReturnError
  <2>2. ScopeTypeOK' /\ pc' \notin Holding
    BY <2>1, UpdateType, ReturnType, ContinueType, Zenon DEF Return, Continue, Holding, PCs, Cleaning
  <2> QED BY <1>7, <2>2, InsideType, Zenon DEF DeleteScript, TypeOK
<1>8. CASE DeleteOSVolume
  <2>1. Return(mem, TRUE) \/ Return(Cleaned(mem), FALSE)
    BY <1>8, ZenonT(60) DEF DeleteOSVolume, ReturnError
  <2>2. ScopeTypeOK' /\ pc' \notin Holding
    BY <2>1, UpdateType, ReturnType, Zenon DEF Return, Holding
  <2> QED BY <1>8, <2>2, InsideType, Zenon DEF DeleteOSVolume, TypeOK
<1> QED BY <1>4, <1>5, <1>6, <1>7, <1>8, Zenon DEF Delete

\* Setting the fields of each patch request leaves a VerdaMachine.
LEMMA PutType ==
    ASSUME NEW o \in Machines
    PROVE  /\ \A a, b \in BOOLEAN : [o EXCEPT !.ready = a, !.osReady = b] \in Machines
           /\ \A p \in ProviderIDs, d \in LiveStatus \cup {"none"}, a \in BOOLEAN, b \in BOOLEAN :
                [o EXCEPT !.providerID = p, !.delReq = d, !.finalizer = a, !.exists = b] \in Machines
           /\ \A i \in InstanceIDs \cup {None}, s \in ScriptIDs \cup {None}, v \in VolumeIDs \cup {None},
                a \in BOOLEAN :
                [o EXCEPT !.instanceID = i, !.scriptID = s, !.osVolumeID = v, !.provisioned = a] \in Machines
<1>1. \A a, b \in BOOLEAN : [o EXCEPT !.ready = a, !.osReady = b] \in Machines
  BY SetType, Zenon
<1>2. \A p \in ProviderIDs, d \in LiveStatus \cup {"none"}, a \in BOOLEAN, b \in BOOLEAN :
         [o EXCEPT !.providerID = p, !.delReq = d, !.finalizer = a, !.exists = b] \in Machines
  BY SetType, Zenon
<1>3. \A i \in InstanceIDs \cup {None}, s \in ScriptIDs \cup {None}, v \in VolumeIDs \cup {None}, a \in BOOLEAN :
         [o EXCEPT !.instanceID = i, !.scriptID = s, !.osVolumeID = v, !.provisioned = a] \in Machines
  BY SetType, Zenon
<1> QED BY <1>1, <1>2, <1>3, Zenon

\* The fields a patch request sends leave a VerdaMachine.
LEMMA PatchedType ==
    ASSUME mem \in Machines, base \in Machines, obj \in Machines, NEW e \in BOOLEAN
    PROVE  /\ [obj EXCEPT !.ready = Merge(mem.ready, base.ready, obj.ready),
                          !.osReady = Merge(mem.osReady, base.osReady, obj.osReady)] \in Machines
           /\ [obj EXCEPT !.providerID = Merge(mem.providerID, base.providerID, obj.providerID),
                          !.delReq = Merge(mem.delReq, base.delReq, obj.delReq),
                          !.finalizer = Merge(mem.finalizer, base.finalizer, obj.finalizer),
                          !.exists = e] \in Machines
           /\ [obj EXCEPT !.instanceID = Merge(mem.instanceID, base.instanceID, obj.instanceID),
                          !.scriptID = Merge(mem.scriptID, base.scriptID, obj.scriptID),
                          !.osVolumeID = Merge(mem.osVolumeID, base.osVolumeID, obj.osVolumeID),
                          !.provisioned = Merge(mem.provisioned, base.provisioned, obj.provisioned)] \in Machines
<1> /\ Merge(mem.ready, base.ready, obj.ready) \in BOOLEAN
    /\ Merge(mem.osReady, base.osReady, obj.osReady) \in BOOLEAN
    /\ Merge(mem.finalizer, base.finalizer, obj.finalizer) \in BOOLEAN
    /\ Merge(mem.provisioned, base.provisioned, obj.provisioned) \in BOOLEAN
  BY Zenon DEF Machines, Merge
<1>2. /\ Merge(mem.providerID, base.providerID, obj.providerID) \in ProviderIDs
      /\ Merge(mem.delReq, base.delReq, obj.delReq) \in LiveStatus \cup {"none"}
      /\ Merge(mem.instanceID, base.instanceID, obj.instanceID) \in InstanceIDs \cup {None}
      /\ Merge(mem.scriptID, base.scriptID, obj.scriptID) \in ScriptIDs \cup {None}
      /\ Merge(mem.osVolumeID, base.osVolumeID, obj.osVolumeID) \in VolumeIDs \cup {None}
  BY Zenon DEF Machines, Merge
<1>3. [obj EXCEPT !.ready = Merge(mem.ready, base.ready, obj.ready),
                  !.osReady = Merge(mem.osReady, base.osReady, obj.osReady)] \in Machines
  BY PutType, Zenon
<1>4. [obj EXCEPT !.providerID = Merge(mem.providerID, base.providerID, obj.providerID),
                  !.delReq = Merge(mem.delReq, base.delReq, obj.delReq),
                  !.finalizer = Merge(mem.finalizer, base.finalizer, obj.finalizer),
                  !.exists = e] \in Machines
  <2> DEFINE p == Merge(mem.providerID, base.providerID, obj.providerID)
             d == Merge(mem.delReq, base.delReq, obj.delReq)
             f == Merge(mem.finalizer, base.finalizer, obj.finalizer)
  <2>1. p \in ProviderIDs /\ d \in LiveStatus \cup {"none"} /\ f \in BOOLEAN
    BY <1>2, Zenon
  <2> HIDE DEF p, d, f
  <2>2. [obj EXCEPT !.providerID = p, !.delReq = d, !.finalizer = f, !.exists = e] \in Machines
    BY <2>1, PutType, Zenon
  <2> QED BY <2>2, Zenon DEF p, d, f
<1>5. [obj EXCEPT !.instanceID = Merge(mem.instanceID, base.instanceID, obj.instanceID),
                  !.scriptID = Merge(mem.scriptID, base.scriptID, obj.scriptID),
                  !.osVolumeID = Merge(mem.osVolumeID, base.osVolumeID, obj.osVolumeID),
                  !.provisioned = Merge(mem.provisioned, base.provisioned, obj.provisioned)] \in Machines
  <2> DEFINE i == Merge(mem.instanceID, base.instanceID, obj.instanceID)
             s == Merge(mem.scriptID, base.scriptID, obj.scriptID)
             v == Merge(mem.osVolumeID, base.osVolumeID, obj.osVolumeID)
             a == Merge(mem.provisioned, base.provisioned, obj.provisioned)
  <2>1. i \in InstanceIDs \cup {None} /\ s \in ScriptIDs \cup {None} /\ v \in VolumeIDs \cup {None} /\ a \in BOOLEAN
    BY <1>2, Zenon
  <2> HIDE DEF i, s, v, a
  <2>2. [obj EXCEPT !.instanceID = i, !.scriptID = s, !.osVolumeID = v, !.provisioned = a] \in Machines
    BY <2>1, PutType, ZenonT(60)
  <2> QED BY <2>2, Zenon DEF i, s, v, a
<1> QED BY <1>3, <1>4, <1>5, Zenon

\* The empty values that a reconcile leaves behind are well typed.
LEMMA ResetType ==
    /\ NewMachine \in Machines
    /\ NoInstance \in [id: InstanceIDs \cup {None}, status: ReportedStatus]
    /\ NoVolume \in [id: VolumeIDs \cup {None}, status: VolumeStatus, managed: BOOLEAN]
<1>1. NewMachine \in Machines
  BY Zenon DEF NewMachine, Machines, ProviderIDs
<1>2. NoInstance \in [id: InstanceIDs \cup {None}, status: ReportedStatus]
  BY Zenon DEF NoInstance, ReportedStatus
<1>3. NoVolume \in [id: VolumeIDs \cup {None}, status: VolumeStatus, managed: BOOLEAN]
  BY Zenon DEF NoVolume, VolumeStatus
<1> QED BY <1>1, <1>2, <1>3, Zenon

\* The three requests of patchVerdaMachine keep the types.
LEMMA PatchType == ASSUME TypeOK, PatchConditions \/ PatchMeta \/ PatchStatus PROVE TypeOK'
<1> CloudTypeOK'
  BY IdleKeeps, Zenon DEF TypeOK, PatchConditions, PatchMeta, PatchStatus, PatchRequest, PatchFrame, CloudKeeps
<1> obj \in Machines /\ mem \in Machines /\ base \in Machines /\ queued \in BOOLEAN
  BY Zenon DEF TypeOK
<1> faults' \in Nat
  BY FaultType, Zenon DEF PatchConditions, PatchMeta, PatchStatus, PatchRequest, NoFault
<1>4. ASSUME NEW o \in Machines, NEW here, NEW next \in Patching, PatchRequest(here, next, o) PROVE TypeOK'
  <2>1. obj' \in Machines /\ queued' \in BOOLEAN
    BY <1>4, Zenon DEF PatchRequest
  <2>2. pc' \in PCs /\ pc' \notin Holding
    BY <1>4, Zenon DEF PatchRequest, PCs, Holding, Patching
  <2> QED BY <1>4, <2>1, <2>2, Zenon DEF TypeOK, PatchRequest, PatchFrame
<1>5. CASE PatchConditions
  BY <1>4, <1>5, PatchedType, Zenon DEF PatchConditions, Patching
<1>6. CASE PatchMeta
  <2>1. CASE pc' = "patchStatus" /\ queued' = TRUE /\ PatchFrame /\ UNCHANGED <<obj, mem, base, faults>>
    BY <2>1, Zenon DEF TypeOK, PatchFrame, PCs, Patching, Holding
  <2>2. CASE PatchRequest("patchMeta", "patchStatus",
                  [obj EXCEPT !.providerID = Merge(mem.providerID, base.providerID, obj.providerID),
                              !.delReq = Merge(mem.delReq, base.delReq, obj.delReq),
                              !.finalizer = Merge(mem.finalizer, base.finalizer, obj.finalizer),
                              !.exists = Merge(mem.finalizer, base.finalizer, obj.finalizer) \/ ~obj.deleting])
    BY <1>4, <2>2, PatchedType, Zenon DEF Patching
  <2> QED BY <1>6, <2>1, <2>2, Zenon DEF PatchMeta
<1>7. CASE PatchStatus
  <2>1. obj' \in Machines /\ queued' \in BOOLEAN
    <3>1. CASE UNCHANGED obj /\ queued' = TRUE
      BY <3>1, Zenon
    <3>2. CASE /\ UNCHANGED queued
               /\ obj' = IF obj.exists
                    THEN [obj EXCEPT !.instanceID = Merge(mem.instanceID, base.instanceID, obj.instanceID),
                                     !.scriptID = Merge(mem.scriptID, base.scriptID, obj.scriptID),
                                     !.osVolumeID = Merge(mem.osVolumeID, base.osVolumeID, obj.osVolumeID),
                                     !.provisioned = Merge(mem.provisioned, base.provisioned, obj.provisioned)]
                    ELSE obj
      BY <3>2, PatchedType, Zenon
    <3> QED BY <1>7, <3>1, <3>2, Zenon DEF PatchStatus
  <2>2. pc' \in PCs /\ pc' \notin Holding
    BY <1>7, Zenon DEF PatchStatus, PCs, Holding
  <2> QED BY <1>7, <2>1, <2>2, ResetType, Zenon DEF TypeOK, PatchStatus
<1> QED BY <1>5, <1>6, <1>7, Zenon

\* The surroundings keep the types.
LEMMA SurroundingsType == ASSUME TypeOK, Surroundings PROVE TypeOK'
<1>1. CASE CacheSync \/ GateOpens \/ OwnerVanishes \/ PauseToggles \/ ForeignToggles
  <2>1. CloudTypeOK'
    BY <1>1, IdleKeeps, Zenon DEF TypeOK, CloudKeeps, CacheSync, GateOpens, OwnerVanishes, PauseToggles,
                           ForeignToggles, Outside
  <2>2. UNCHANGED <<obj, scope, faults, crashes>>
    BY <1>1, Zenon DEF CacheSync, GateOpens, OwnerVanishes, PauseToggles, ForeignToggles, Outside
  <2>3. queued' \in BOOLEAN /\ paused' \in BOOLEAN /\ foreign' \in BOOLEAN
    BY <1>1, Zenon DEF TypeOK, CacheSync, GateOpens, OwnerVanishes, PauseToggles, ForeignToggles, Outside
  <2>4. cache' \in Machines /\ gate' \in Gates
    BY <1>1, Zenon DEF TypeOK, CacheSync, GateOpens, OwnerVanishes, PauseToggles, ForeignToggles, Outside, Gates
  <2> QED BY <2>1, <2>2, <2>3, <2>4, Zenon DEF TypeOK, scope
<1>2. CASE UserDeletes
  <2>1. CloudTypeOK'
    BY <1>2, IdleKeeps, Zenon DEF TypeOK, CloudKeeps, UserDeletes, Outside
  <2>2. obj' \in Machines
    <3>1. [obj EXCEPT !.deleting = TRUE] \in Machines /\ [obj EXCEPT !.exists = FALSE] \in Machines
      <4>1. obj \in Machines
        BY Zenon DEF TypeOK
      <4> QED BY <4>1, SetType, Zenon
    <3> QED BY <1>2, <3>1, Zenon DEF UserDeletes
  <2> QED BY <1>2, <2>1, <2>2, Zenon DEF TypeOK, UserDeletes, Outside, scope
<1>3. CASE Crash
  <2>1. CloudTypeOK'
    BY <1>3, IdleKeeps, Zenon DEF TypeOK, CloudKeeps, Crash
  <2>2. crashes' \in Nat
    BY <1>3 DEF Crash, TypeOK
  <2>3. pc' \in PCs /\ pc' \notin Holding
    BY <1>3, Zenon DEF Crash, PCs, Holding
  <2> QED BY <1>3, <2>1, <2>2, <2>3, ResetType, Zenon DEF TypeOK, Crash
<1>4. CASE CloudMoves
  <2>1. CloudTypeOK'
    BY <1>4, CloudStepKeeps, Zenon DEF CloudMoves, TypeOK, CloudKeeps
  <2> QED BY <1>4, <2>1, Zenon DEF TypeOK, CloudMoves, k8sVars, scope
<1> QED BY <1>1, <1>2, <1>3, <1>4, Zenon DEF Surroundings

\* Every step, of the controller and of its surroundings, keeps the types.
LEMMA NextType == ASSUME TypeOK, [Next]_vars PROVE TypeOK'
<1>1. CASE UNCHANGED vars
  BY <1>1, Zenon DEF vars, cloudVars, k8sVars, scope, TypeOK, CloudTypeOK
<1>2. CASE Create
  BY <1>2, LookUpType, CloneType, CreateType, RecordType, Zenon DEF Create
<1>3. CASE Controller /\ ~Create
  BY <1>3, StartType, DeleteType, PatchType, Zenon DEF Controller
<1> QED BY <1>1, <1>2, <1>3, SurroundingsType, Zenon DEF Next

\* The first state is well typed.
LEMMA InitType == ASSUME Init PROVE TypeOK
<1>1. CloudTypeOK
  BY Zenon DEF Init, CloudInit, CloudTypeOK, InstanceStatus, VolumeStatus
<1>2. "idle" \in PCs /\ "idle" \notin Holding /\ "owner" \in Gates
  BY Zenon DEF PCs, Holding, Gates
<1> QED BY <1>1, <1>2, ResetType, BoundsAssumption, Zenon DEF Init, TypeOK

\* Every variable always holds a value of its type.
THEOREM TypeCorrect == Spec => []TypeOK
BY InitType, NextType, PTL DEF Spec

-----------------------------------------------------------------------------
(* At most one live instance, whatever the surroundings do.                *)

\* The controller begins to create only after a look-up that found nothing.
EntersCreating == pc' \in Creating => pc \in Creating \/ (pc = "find" /\ FindInstance /\ found'.id = None)

\* No call of a reconcile other than findInstance leads to the create path, and
\* none of them leads back to the look-up.
LEMMA CallsEnter == ASSUME TypeOK, OtherCalls \/ CreateInstance PROVE EntersCreating /\ pc' # "find" /\ UNCHANGED acct
<1> USE DEF EntersCreating, Creating, Inside
<1>1. CASE FindInstance
  <2>1. \/ pc' = "patchConditions"
        \/ \E r \in findInstance(mem) :
              /\ found' = r
              /\ pc' = IF r.id # None THEN "record" ELSE IF UseClone THEN "volume" ELSE "script"
    BY <1>1, Zenon DEF FindInstance, Continue, ReturnError, Return
  <2>2. pc = "find" /\ UNCHANGED acct
    BY <1>1, Zenon DEF FindInstance
  <2>3. pc' # "find" /\ (pc' \in Creating => found'.id = None)
    BY <2>1, Zenon
  <2> QED BY <1>1, <2>2, <2>3, Zenon
<1>2. CASE LookUpVolume \/ CloneOSVolume \/ TagOSVolume \/ CreateChecksHostname \/ CreateAddsScript
  BY <1>2, Zenon DEF LookUpVolume, CloneOSVolume, TagOSVolume, CreateChecksHostname, RemoveOldScripts, CreateAddsScript, AddScript,
              Continue, ReturnError, Return
<1>3. CASE CreateInstance \/ DeleteNoCapacity \/ ResyncInstance
  BY <1>3, Zenon DEF CreateInstance, Instantiate, DeleteNoCapacity, ResyncInstance, Continue, ReturnError, Return
<1>4. CASE RecordInstance
  <2>1. PICK m : Decide(m)
    BY <1>4, Zenon DEF RecordInstance
  <2>2. pc' \in {"patchConditions", "noCapacity"}
    BY <2>1, Zenon DEF Decide, Return, Continue
  <2> QED BY <1>4, <2>2, Zenon DEF RecordInstance
<1>5. CASE \E elapsed \in BOOLEAN : DeleteFindsInstance(elapsed)
  BY <1>5, Zenon DEF DeleteFindsInstance, Continue, ReturnError, Return
<1>6. CASE DeleteRequestsInstance \/ DeletePurgesVolumes \/ DeleteScript \/ DeleteOSVolume
  BY <1>6, Zenon DEF DeleteRequestsInstance, RequestDelete, DeletePurgesVolumes, PurgeVolumes, DeleteScript, DeleteOSVolume,
              Continue, ReturnError, Return
<1> QED BY <1>1, <1>2, <1>3, <1>4, <1>5, <1>6, Zenon DEF OtherCalls

\* Outside of the calls of a reconcile nothing leads to the create path, and
\* the look-up starts in the machine's own account.
LEMMA OthersEnter ==
    ASSUME TypeOK, CreatesOnlyWhenNone,
           \/ ReconcileWaits \/ EnsureFinalizer \/ ReconcileStarts
           \/ PatchConditions \/ PatchMeta \/ PatchStatus \/ Surroundings
    PROVE  CloudKeeps /\ EntersCreating /\ (pc' = "find" => acct' = "own")
<1> USE DEF EntersCreating, Creating, CreatesOnlyWhenNone
<1> CloudTypeOK
  BY Zenon DEF TypeOK
<1>1. CASE ReconcileWaits \/ EnsureFinalizer
  BY <1>1, IdleKeeps, Zenon DEF ReconcileWaits, EnsureFinalizer, scope
<1>2. CASE ReconcileStarts
  BY <1>2, IdleKeeps, Zenon DEF ReconcileStarts, ClientAccount
<1>3. CASE PatchConditions \/ PatchMeta \/ PatchStatus
  BY <1>3, IdleKeeps, Zenon DEF PatchConditions, PatchMeta, PatchStatus, PatchRequest, PatchFrame
<1>4. CASE CacheSync \/ UserDeletes \/ GateOpens \/ OwnerVanishes \/ PauseToggles \/ ForeignToggles
  BY <1>4, IdleKeeps, Zenon DEF CacheSync, UserDeletes, GateOpens, OwnerVanishes, PauseToggles,
                               ForeignToggles, Outside, scope
<1>5. CASE Crash
  BY <1>5, IdleKeeps, Zenon DEF Crash
<1>6. CASE CloudMoves
  BY <1>6, CloudStepKeeps, Zenon DEF CloudMoves, scope
<1> QED BY <1>1, <1>2, <1>3, <1>4, <1>5, <1>6, Zenon DEF Surroundings

\* A step in which nothing is born keeps both parts of the invariant.
LEMMA NoneBornKeepsOne ==
    ASSUME TypeOK, CreatesOnlyWhenNone, AtMostOneLive, NoneBorn, EntersCreating,
           pc' = "find" => acct' = "own"
    PROVE  CreatesOnlyWhenNone' /\ AtMostOneLive'
<1>1. pc' \in Creating => NoLive
  <2>1. CASE pc = "find" /\ FindInstance /\ found'.id = None
    <3>1. CASE ReturnError(mem)
      BY <3>1, Zenon DEF ReturnError, Return, Creating
    <3>2. CASE \E r \in findInstance(mem) : found' = r
      BY <2>1, <3>2, FindInstanceType, Zenon DEF CreatesOnlyWhenNone, NoLive, Live
    <3> QED BY <2>1, <3>1, <3>2, Zenon DEF FindInstance
  <2> QED BY <2>1, Zenon DEF EntersCreating, CreatesOnlyWhenNone
<1>2. CreatesOnlyWhenNone'
  BY <1>1, Zenon DEF CreatesOnlyWhenNone, NoLive, Live, NoneBorn
<1>3. AtMostOneLive'
  BY Zenon DEF AtMostOneLive, Live, NoneBorn
<1> QED BY <1>2, <1>3, Zenon

\* Every step keeps the invariant; only CreateInstance needs a look at it.
LEMMA NextOne ==
    ASSUME TypeOK, CreatesOnlyWhenNone, AtMostOneLive, [Next]_vars
    PROVE  CreatesOnlyWhenNone' /\ AtMostOneLive'
<1>1. CASE CreateInstance
  <2>1. NoLive /\ CloudTypeOK
    BY <1>1, Zenon DEF CreatesOnlyWhenNone, CreateInstance, Instantiate, Creating, TypeOK
  <2>2. pc' \notin Creating /\ pc' # "find"
    BY <1>1, Zenon DEF CreateInstance, Instantiate, Continue, ReturnError, Return, Creating
  <2>3. BootVolumes \subseteq VolumeIDs \cup {None} /\ script \in ScriptIDs \cup {None}
    BY Zenon DEF BootVolumes, TypeOK, Machines
  <2>4. CASE \E S : DeleteScripts(S)
    BY <2>1, <2>2, <2>4, DeleteScriptsKeeps, Zenon DEF CloudKeeps, NoneBorn, AtMostOneLive, CreatesOnlyWhenNone, Live, NoLive
  <2>5. CASE \E i \in InstanceIDs, v \in BootVolumes, S \in SUBSET {script} : InstancesCreate(i, script, v, S)
    <3>1. PICK i \in InstanceIDs, v \in BootVolumes, S \in SUBSET {script} : InstancesCreate(i, script, v, S)
      BY <2>5, Zenon
    <3>2. \A j \in InstanceIDs : istatus'[j] \in LiveStatus => j = i \/ istatus[j] \in LiveStatus
      BY <2>1, <2>3, <3>1, CreateBears, Zenon
    <3> QED BY <2>1, <2>2, <3>2, Zenon DEF AtMostOneLive, CreatesOnlyWhenNone, Live, NoLive
  <2> QED BY <1>1, <2>4, <2>5, Zenon DEF CreateInstance, Instantiate
<1>2. CASE OtherCalls
  BY <1>2, CallsKeep, CallsEnter, NoneBornKeepsOne, Zenon DEF CloudKeeps
<1>3. CASE \/ ReconcileWaits \/ EnsureFinalizer \/ ReconcileStarts
           \/ PatchConditions \/ PatchMeta \/ PatchStatus \/ Surroundings
  BY <1>3, OthersEnter, NoneBornKeepsOne, Zenon DEF CloudKeeps
<1>4. CASE UNCHANGED vars
  BY <1>4, Zenon DEF vars, cloudVars, scope, CreatesOnlyWhenNone, AtMostOneLive, Live, NoLive
<1> QED BY <1>1, <1>2, <1>3, <1>4, Zenon DEF Next, Controller, Create, Delete, OtherCalls

\* At any time at most one instance of the machine is live, for any number of
\* faults and crashes, with stale copies, lost replies and a lost owner.
THEOREM OneInstance == Spec => []AtMostOneLive
<1>1. Init => TypeOK /\ CreatesOnlyWhenNone /\ AtMostOneLive
  <2> SUFFICES ASSUME Init PROVE CreatesOnlyWhenNone /\ AtMostOneLive
    BY InitType, Zenon
  <2> QED BY Zenon DEF Init, CloudInit, CreatesOnlyWhenNone, AtMostOneLive, Creating, Live, LiveStatus
<1>2. TypeOK /\ CreatesOnlyWhenNone /\ AtMostOneLive /\ [Next]_vars
        => TypeOK' /\ CreatesOnlyWhenNone' /\ AtMostOneLive'
  BY NextType, NextOne, Zenon
<1> QED BY <1>1, <1>2, PTL DEF Spec

-----------------------------------------------------------------------------
(* The finalizer guards the instance, and a provisioned machine is never   *)
(* given another one, when copies are current ("stale" \notin Env) and     *)
(* the client is always for the machine's account ("identity" \notin Env). *)

\* The fields of the copy that the invariant speaks of.
SameFields(n, m) == n.instanceID = m.instanceID /\ n.deleting = m.deleting /\ n.finalizer = m.finalizer

\* Most updates of the copy leave those fields alone.
LEMMA UpdateFields ==
    ASSUME NEW m \in Machines
    PROVE  /\ SameFields(m, m) /\ SameFields(NotReady(m), m)
           /\ \A v : SameFields([m EXCEPT !.osVolumeID = v], m)
           /\ \A b : SameFields([m EXCEPT !.osReady = b], m)
           /\ \A b : SameFields([m EXCEPT !.ready = b], m)
           /\ \A st : SameFields([m EXCEPT !.delReq = st], m)
           /\ SameFields([m EXCEPT !.scriptID = None], m)
           /\ SameFields([m EXCEPT !.ready = TRUE, !.provisioned = TRUE], m)
<1> QED BY Zenon DEF NotReady, Machines, SameFields

\* The same for the updates that touch those fields.
LEMMA SpecialFields ==
    ASSUME NEW m \in Machines
    PROVE  /\ LET n == [m EXCEPT !.instanceID = None, !.providerID = "none"]
              IN  n.instanceID = None /\ n.deleting = m.deleting /\ n.finalizer = m.finalizer
           /\ Recorded(m).instanceID = found.id /\ Recorded(m).deleting = m.deleting
           /\ Recorded(m).finalizer = m.finalizer
           /\ Cleaned(m).instanceID = m.instanceID /\ Cleaned(m).deleting = m.deleting
           /\ Cleaned(m).finalizer = FALSE
<1> QED BY Zenon DEF Recorded, Cleaned, Machines

\* A call that brings nothing to life, leaves the object alone and moves on in
\* the order of the code keeps the invariant.
LEMMA QuietKeeps ==
    ASSUME SafetyInv, TypeOK', CreatesOnlyWhenNone', AtMostOneLive', NoneBorn, UNCHANGED <<obj, base, acct>>,
           pc \notin {"idle"} \cup Patching, pc' # "idle", pc' \in Patching => pc' = "patchConditions",
           pc' \in Looking => pc \in Looking /\ mem'.instanceID = mem.instanceID,
           pc' \in Creating => mem.instanceID = None /\ pc \in {"find"} \cup Creating,
           pc' # "find",
           pc' \in Holding => OnlyLive(found'.id),
           pc' \in Cleaning => NoLive,
           pc' \in Cleaning \cup {"delFind", "delInstance"} => mem.deleting,
           mem'.instanceID # None => OnlyLive(mem'.instanceID),
           mem'.deleting = mem.deleting,
           mem'.finalizer \/ (NoLive /\ mem.deleting /\ pc' \in Patching)
    PROVE  SafetyInv'
<1>1. NamesOnlyLive'
  BY Zenon DEF SafetyInv, NamesOnlyLive, OnlyLive, Live, NoneBorn
<1>2. CopyIsCurrent'
  BY Zenon DEF SafetyInv, CopyIsCurrent, Looking, Creating
<1>3. FinalizerGoesLast'
  <2>1. NoLive => NoLive'
    BY Zenon DEF NoLive, Live, NoneBorn
  <2> QED BY <2>1, Zenon DEF SafetyInv, FinalizerGoesLast, Patching
<1> QED BY <1>1, <1>2, <1>3, Zenon DEF SafetyInv

\* What findInstance says of the one instance that can be live.
LEMMA FindInstanceSafe ==
    ASSUME SafetyInv, pc \in Looking, NEW r \in findInstance(mem)
    PROVE  /\ r.id # None => OnlyLive(r.id)
           /\ r.id = None => NoLive /\ mem.instanceID = None
           /\ r.status \notin LiveStatus => NoLive
<1> TypeOK /\ acct = "own"
  BY Zenon DEF SafetyInv, CopyIsCurrent
<1>2. mem.instanceID # None => OnlyLive(mem.instanceID)
  BY Zenon DEF SafetyInv, NamesOnlyLive
<1>3. r.id = None => NoLive /\ mem.instanceID = None
  BY FindInstanceType, Zenon DEF NoLive, Live
<1>4. ASSUME r.id # None PROVE OnlyLive(r.id)
  <2>1. CASE mem.instanceID # None
    BY <1>2, <2>1, FindInstanceType, Zenon
  <2>2. CASE mem.instanceID = None
    <3>1. r.id \in InstanceIDs /\ Live(r.id)
      BY <1>4, <2>2, FindInstanceType, Zenon DEF Live
    <3> QED BY <3>1, Zenon DEF OnlyLive, SafetyInv, AtMostOneLive
  <2> QED BY <2>1, <2>2, Zenon
<1>5. r.status \notin LiveStatus => NoLive
  BY <1>3, <1>4, FindInstanceType, Zenon DEF OnlyLive, NoLive, Live
<1> QED BY <1>3, <1>4, <1>5, Zenon

\* The calls of reconcileNormal other than Instances.Create keep the invariant.
LEMMA NormalSafe ==
    ASSUME SafetyInv, TypeOK', CreatesOnlyWhenNone', AtMostOneLive', NoneBorn,
           \/ FindInstance \/ LookUpVolume \/ CloneOSVolume \/ TagOSVolume \/ CreateChecksHostname
           \/ CreateAddsScript \/ RecordInstance \/ DeleteNoCapacity \/ ResyncInstance
    PROVE  SafetyInv'
<1> mem \in Machines /\ (mem.instanceID # None => OnlyLive(mem.instanceID))
  BY Zenon DEF SafetyInv, TypeOK, NamesOnlyLive
<1> pc \notin {"idle"} \cup Patching => mem.finalizer
  BY Zenon DEF SafetyInv, FinalizerGoesLast
<1>3. CASE FindInstance
  <2>1. pc = "find" /\ UNCHANGED <<obj, base, acct>> /\ mem' = mem
    BY <1>3, Zenon DEF FindInstance, Inside, Continue, ReturnError, Return
  <2>2. \/ pc' = "patchConditions"
        \/ \E r \in findInstance(mem) :
             found' = r /\ pc' = IF r.id # None THEN "record" ELSE IF UseClone THEN "volume" ELSE "script"
    BY <1>3, Zenon DEF FindInstance, Continue, ReturnError, Return
  <2>3. \A r \in findInstance(mem) : (r.id # None => OnlyLive(r.id)) /\ (r.id = None => mem.instanceID = None)
    BY <2>1, FindInstanceSafe, Zenon DEF Looking
  <2>4. pc' \in {"patchConditions", "record", "volume", "script"}
    BY <2>2, Zenon
  <2>5. (pc' = "record" => OnlyLive(found'.id)) /\ (pc' \in {"volume", "script"} => mem.instanceID = None)
    BY <2>2, <2>3, Zenon
  <2> QED BY <2>1, <2>4, <2>5, QuietKeeps, Zenon
          DEF Looking, Creating, Holding, Cleaning, Patching
<1>4. CASE LookUpVolume \/ CloneOSVolume \/ TagOSVolume \/ CreateChecksHostname \/ CreateAddsScript
  <2>1. pc \in Creating /\ UNCHANGED <<obj, base, acct>>
    BY <1>4, ZenonT(60) DEF LookUpVolume, CloneOSVolume, TagOSVolume, CreateChecksHostname, RemoveOldScripts, CreateAddsScript, AddScript, Inside, Creating
  <2>2. pc' \in {"patchConditions"} \cup Creating
    BY <1>4, Zenon DEF LookUpVolume, CloneOSVolume, TagOSVolume, CreateChecksHostname, RemoveOldScripts, CreateAddsScript, AddScript, Creating,
                Continue, ReturnError, Return
  <2>3. SameFields(mem', mem)
    <3>1. CASE LookUpVolume
      <4>1. mem' = mem \/ \E v : mem' = [mem EXCEPT !.osVolumeID = v]
        BY <3>1, Zenon DEF LookUpVolume, Continue, ReturnError, Return
      <4> QED BY <4>1, UpdateFields, Zenon
    <3>2. CASE CloneOSVolume
      <4>1. (\E v : mem' = [mem EXCEPT !.osVolumeID = v]) \/ mem' = [mem EXCEPT !.osReady = FALSE]
        BY <3>2, Zenon DEF CloneOSVolume, Continue, ReturnError, Return
      <4> QED BY <4>1, UpdateFields, Zenon
    <3>3. CASE TagOSVolume
      <4>1. PICK b \in BOOLEAN : LET m == [mem EXCEPT !.osReady = b] IN mem' = m \/ mem' = NotReady(m)
        BY <3>3, Zenon DEF TagOSVolume, Continue, Return
      <4> DEFINE m == [mem EXCEPT !.osReady = b]
      <4>2. m \in Machines
        BY UpdateType, Zenon
      <4>3. SameFields(m, mem)
        BY UpdateFields, Zenon
      <4>4. mem' = m \/ mem' = NotReady(m)
        BY <4>1, Zenon
      <4> HIDE DEF m
      <4>5. SameFields(mem', m)
        BY <4>2, <4>4, UpdateFields, ZenonT(60)
      <4> QED BY <4>3, <4>5, Zenon DEF SameFields
    <3>4. CASE CreateChecksHostname \/ CreateAddsScript
      <4>1. mem' = mem \/ mem' = NotReady(mem)
        BY <3>4, Zenon DEF CreateChecksHostname, RemoveOldScripts, CreateAddsScript, AddScript, Continue, ReturnError, Return
      <4> QED BY <4>1, UpdateFields, ZenonT(60)
    <3> QED BY <1>4, <3>1, <3>2, <3>3, <3>4, Zenon
  <2>4. mem.instanceID = None
    BY <2>1, Zenon DEF SafetyInv, CopyIsCurrent
  <2> QED BY <2>1, <2>2, <2>3, <2>4, QuietKeeps, Zenon
          DEF SameFields, Looking, Creating, Holding, Cleaning, Patching
<1>5. CASE RecordInstance
  <2>1. pc = "record" /\ UNCHANGED <<obj, base, acct, found>> /\ found.id # None /\ OnlyLive(found.id)
    BY <1>5, Zenon DEF RecordInstance, Inside, SafetyInv, NamesOnlyLive, TypeOK, Holding
  <2>2. Recorded(mem) \in Machines /\ [Recorded(mem) EXCEPT !.osReady = TRUE] \in Machines
    BY <2>1, RecordedType, UpdateType, Zenon DEF SafetyInv
  <2>3. PICK m \in {Recorded(mem), [Recorded(mem) EXCEPT !.osReady = TRUE]} : Decide(m)
    BY <1>5, Zenon DEF RecordInstance
  <2>4. m \in Machines /\ SameFields(m, Recorded(mem))
    BY <2>2, UpdateFields, Zenon
  <2>5. /\ pc' \in {"patchConditions", "noCapacity"}
        /\ mem' \in {m, NotReady(m), [m EXCEPT !.ready = TRUE, !.provisioned = TRUE]}
    BY <2>3, Zenon DEF Decide, Return, Continue
  <2>7. SameFields(mem', m)
    BY <2>4, <2>5, UpdateFields, Zenon
  <2>6. mem'.instanceID = found.id /\ mem'.deleting = mem.deleting /\ mem'.finalizer = mem.finalizer
    BY <2>4, <2>7, SpecialFields, Zenon DEF SameFields
  <2> QED BY <2>1, <2>5, <2>6, QuietKeeps, Zenon DEF Looking, Creating, Holding, Cleaning, Patching
<1>6. CASE DeleteNoCapacity
  <2>1. pc = "noCapacity" /\ pc' = "patchConditions" /\ UNCHANGED <<obj, base, acct>>
    BY <1>6, Zenon DEF DeleteNoCapacity, Inside, ReturnError, Return
  <2>2. mem' = mem \/ mem' = [NotReady(mem) EXCEPT !.instanceID = None, !.providerID = "none"]
    BY <1>6, Zenon DEF DeleteNoCapacity, ReturnError, Return
  <2> DEFINE n == NotReady(mem)
  <2>3. n \in Machines /\ SameFields(n, mem) /\ SameFields(mem, mem)
    BY NotReadyType, UpdateFields, Zenon
  <2> HIDE DEF n
  <2>4. mem' = mem \/ mem' = [n EXCEPT !.instanceID = None, !.providerID = "none"]
    BY <2>2, Zenon DEF n
  <2>5. \/ mem' = mem
        \/ mem'.instanceID = None /\ mem'.deleting = n.deleting /\ mem'.finalizer = n.finalizer
    <3> DEFINE f == [n EXCEPT !.instanceID = None, !.providerID = "none"]
    <3>1. f.instanceID = None /\ f.deleting = n.deleting /\ f.finalizer = n.finalizer
      BY <2>3, SpecialFields, Zenon
    <3>2. mem' = mem \/ mem' = f
      BY <2>4
    <3> HIDE DEF f
    <3> QED BY <3>1, <3>2
  <2>6. /\ mem'.instanceID \in {None, mem.instanceID} /\ mem'.deleting = mem.deleting
        /\ mem'.finalizer = mem.finalizer
    BY <2>3, <2>5, Zenon DEF SameFields
  <2> QED BY <2>1, <2>6, QuietKeeps, Zenon DEF Looking, Creating, Holding, Cleaning, Patching
<1>7. CASE ResyncInstance
  <2>1. pc = "resync" /\ pc' = "patchConditions" /\ UNCHANGED <<obj, base, acct>>
    BY <1>7, Zenon DEF ResyncInstance, Inside, ReturnError, Return
  <2>2. mem' = mem \/ \E b : mem' = [mem EXCEPT !.ready = b]
    BY <1>7, Zenon DEF ResyncInstance, ReturnError, Return
  <2>3. SameFields(mem', mem)
    BY <2>2, UpdateFields, Zenon
  <2> QED BY <2>1, <2>3, QuietKeeps, Zenon DEF SameFields, Looking, Creating, Holding, Cleaning, Patching
<1> QED BY <1>3, <1>4, <1>5, <1>6, <1>7, Zenon

\* The calls of reconcileDelete keep the invariant: they clean up only after
\* findInstance has found nothing alive.
LEMMA DeleteSafe ==
    ASSUME SafetyInv, TypeOK', CreatesOnlyWhenNone', AtMostOneLive', NoneBorn, Delete
    PROVE  SafetyInv'
<1> mem \in Machines /\ (mem.instanceID # None => OnlyLive(mem.instanceID))
  BY Zenon DEF SafetyInv, TypeOK, NamesOnlyLive
<1> pc \notin {"idle"} \cup Patching => mem.finalizer
  BY Zenon DEF SafetyInv, FinalizerGoesLast
<1> pc \in Cleaning \cup {"delFind", "delInstance"} => mem.deleting
  BY Zenon DEF SafetyInv, FinalizerGoesLast
<1>4. pc \in Cleaning => NoLive
  BY Zenon DEF SafetyInv, FinalizerGoesLast
<1>5. CASE \E elapsed \in BOOLEAN : DeleteFindsInstance(elapsed)
  <2>1. pc = "delFind" /\ UNCHANGED <<obj, base, acct>>
    BY <1>5, Zenon DEF DeleteFindsInstance, Inside
  <2>2. mem' = mem \/ \E st : mem' = [mem EXCEPT !.delReq = st]
    BY <1>5, Zenon DEF DeleteFindsInstance, Continue, ReturnError, Return
  <2>3. SameFields(mem', mem)
    BY <2>2, UpdateFields, Zenon
  <2>4. \/ pc' = "patchConditions"
        \/ \E r \in findInstance(mem) :
             /\ found' = r
             /\ \/ r.status \in LiveStatus /\ pc' = "delInstance"
                \/ r.status \notin LiveStatus /\ pc' \in {"delScript", "purge"}
    <3>1. \A r \in findInstance(mem) : instanceGone(r.status) <=> r.status \notin LiveStatus
      BY FindInstanceType, GoneIsNotLive, Zenon DEF SafetyInv
    <3> QED BY <1>5, <3>1, Zenon DEF DeleteFindsInstance, Continue, ReturnError, Return
  <2>5. \A r \in findInstance(mem) : (r.id # None => OnlyLive(r.id)) /\ (r.status \notin LiveStatus => NoLive)
    BY <2>1, FindInstanceSafe, Zenon DEF Looking
  <2>6. \A r \in findInstance(mem) : r.id = None => r.status \notin LiveStatus
    BY FindInstanceType DEF SafetyInv, NoInstance, LiveStatus
  <2>7. pc' \in {"patchConditions", "delInstance", "delScript", "purge"}
    BY <2>4, Zenon
  <2>8. (pc' = "delInstance" => OnlyLive(found'.id)) /\ (pc' \in {"delScript", "purge"} => NoLive)
    BY <2>4, <2>5, <2>6, Zenon
  <2> QED BY <2>1, <2>3, <2>7, <2>8, QuietKeeps, Zenon
          DEF SameFields, Looking, Creating, Holding, Cleaning, Patching
<1>6. CASE DeleteRequestsInstance \/ DeletePurgesVolumes \/ DeleteScript
  <2>1. pc \in {"delInstance", "purge", "delScript"} /\ UNCHANGED <<obj, base, acct>>
    BY <1>6, ZenonT(60) DEF DeleteRequestsInstance, RequestDelete, DeletePurgesVolumes, PurgeVolumes, DeleteScript, Inside
  <2>2. mem' = mem \/ mem' = [mem EXCEPT !.scriptID = None]
    BY <1>6, Zenon DEF DeleteRequestsInstance, RequestDelete, DeletePurgesVolumes, PurgeVolumes, DeleteScript, Continue, ReturnError, Return
  <2>3. SameFields(mem', mem)
    BY <2>2, UpdateFields, Zenon
  <2>4. pc' = "patchConditions" \/ (pc \in {"purge", "delScript"} /\ pc' \in {"delScript", "delVolume"})
    BY <1>6, Zenon DEF DeleteRequestsInstance, RequestDelete, DeletePurgesVolumes, PurgeVolumes, DeleteScript, Continue, ReturnError, Return
  <2> QED BY <1>4, <2>1, <2>3, <2>4, QuietKeeps, Zenon
          DEF SameFields, Looking, Creating, Holding, Cleaning, Patching
<1>7. CASE DeleteOSVolume
  <2>1. pc = "delVolume" /\ pc' = "patchConditions" /\ UNCHANGED <<obj, base, acct>>
    BY <1>7, Zenon DEF DeleteOSVolume, Inside, ReturnError, Return
  <2>2. mem' = mem \/ mem' = Cleaned(mem)
    BY <1>7, Zenon DEF DeleteOSVolume, ReturnError, Return
  <2>3. mem'.instanceID = mem.instanceID /\ mem'.deleting = mem.deleting
    BY <2>2, SpecialFields, ZenonT(60)
  <2> QED BY <1>4, <2>1, <2>3, QuietKeeps, Zenon
          DEF Looking, Creating, Holding, Cleaning, Patching
<1> QED BY <1>5, <1>6, <1>7, ZenonT(60) DEF Delete

\* Instances.Create keeps the invariant: it runs when nothing is alive and no
\* instance is recorded, and the reconcile holds the one it made.
LEMMA CreateSafe ==
    ASSUME SafetyInv, TypeOK', CreatesOnlyWhenNone', AtMostOneLive', CreateInstance
    PROVE  SafetyInv'
<1> /\ pc = "create" /\ NoLive /\ mem.instanceID = None /\ obj.instanceID = None /\ mem.finalizer
    /\ mem \in Machines /\ CloudTypeOK /\ obj.exists /\ obj.finalizer
  BY Zenon DEF CreateInstance, Instantiate, SafetyInv, CreatesOnlyWhenNone, CopyIsCurrent, FinalizerGoesLast, TypeOK,
         Creating, Looking, Patching
<1> UNCHANGED <<obj, base, acct>> /\ pc' \in {"patchConditions", "record"}
  BY Zenon DEF CreateInstance, Instantiate, Inside, Continue, ReturnError, Return
<1>3. SameFields(mem', mem)
  <2>1. mem' = mem \/ mem' = NotReady(mem)
    BY Zenon DEF CreateInstance, Instantiate, Continue, ReturnError, Return
  <2> QED BY <2>1, UpdateFields, Zenon
<1>4. pc' = "record" => OnlyLive(found.id)'
  <2> SUFFICES ASSUME pc' = "record" PROVE OnlyLive(found.id)'
    BY Zenon
  <2>1. PICK i \in InstanceIDs, v \in BootVolumes :
            InstancesCreate(i, script, v, {}) /\ found' = [id |-> i, status |-> "provisioning"]
    BY Zenon DEF CreateInstance, Instantiate, ReturnError, Return
  <2>2. BootVolumes \subseteq VolumeIDs \cup {None} /\ script \in ScriptIDs \cup {None}
    BY ZenonT(60) DEF BootVolumes, SafetyInv, TypeOK, Machines
  <2>3. \A j \in InstanceIDs : istatus'[j] \in LiveStatus => j = i \/ istatus[j] \in LiveStatus
    BY <2>1, <2>2, CreateBears, ZenonT(60)
  <2> QED BY <2>1, <2>3, ZenonT(60) DEF OnlyLive, NoLive, Live
<1>5. NamesOnlyLive'
  BY <1>3, <1>4, ZenonT(60) DEF NamesOnlyLive, SameFields, Holding, OnlyLive, Live
<1>6. CopyIsCurrent'
  BY <1>3, Zenon DEF SafetyInv, CopyIsCurrent, SameFields, Looking, Creating
<1>7. FinalizerGoesLast'
  BY <1>3, Zenon DEF SafetyInv, FinalizerGoesLast, SameFields, Cleaning
<1> QED BY <1>5, <1>6, <1>7, Zenon DEF SafetyInv

-----------------------------------------------------------------------------
(* The patches, the start of a reconcile and the surroundings.             *)

\* The fields of the object that the invariant speaks of.
Fields(o, id, deleting, finalizer, exists) ==
    o.instanceID = id /\ o.deleting = deleting /\ o.finalizer = finalizer /\ o.exists = exists

\* The fields of the object after each change of it.
LEMMA ObjectFields ==
    ASSUME NEW o \in Machines
    PROVE  /\ Fields(o, o.instanceID, o.deleting, o.finalizer, o.exists)
           /\ \A a : Fields([o EXCEPT !.finalizer = a], o.instanceID, o.deleting, a, o.exists)
           /\ Fields([o EXCEPT !.deleting = TRUE], o.instanceID, TRUE, o.finalizer, o.exists)
           /\ [o EXCEPT !.deleting = TRUE].provisioned = o.provisioned
           /\ Fields([o EXCEPT !.exists = FALSE], o.instanceID, o.deleting, o.finalizer, FALSE)
<1> QED BY Zenon DEF Machines, Fields

\* The fields of the object after each request of the patch.
LEMMA PatchFields ==
    ASSUME NEW a, NEW b, NEW c, NEW d
    PROVE  \A o \in Machines :
             /\ Fields([o EXCEPT !.ready = a, !.osReady = b], o.instanceID, o.deleting, o.finalizer, o.exists)
             /\ Fields([o EXCEPT !.providerID = a, !.delReq = b, !.finalizer = c, !.exists = d],
                       o.instanceID, o.deleting, c, d)
             /\ Fields([o EXCEPT !.instanceID = a, !.scriptID = b, !.osVolumeID = c, !.provisioned = d],
                       a, o.deleting, o.finalizer, o.exists)
<1> QED BY Zenon DEF Machines, Fields

\* A step that touches neither the object nor the reconcile and brings nothing
\* to life keeps the invariant.
LEMMA AsideKeeps ==
    ASSUME SafetyInv, TypeOK', CreatesOnlyWhenNone', AtMostOneLive', NoneBorn, UNCHANGED <<obj, scope>>
    PROVE  SafetyInv'
<1>1. NoLive => NoLive'
  BY Zenon DEF NoLive, Live, NoneBorn
<1>2. NamesOnlyLive'
  BY Zenon DEF SafetyInv, NamesOnlyLive, OnlyLive, Live, NoneBorn, scope
<1>3. CopyIsCurrent' /\ FinalizerGoesLast'
  BY <1>1, Zenon DEF SafetyInv, CopyIsCurrent, FinalizerGoesLast, scope
<1> QED BY <1>2, <1>3, Zenon DEF SafetyInv

\* Reconcile up to the first call keeps the invariant: the copy it starts from
\* is the object, and the client is for the machine's own account.
LEMMA StartSafe ==
    ASSUME SafetyInv, TypeOK', CreatesOnlyWhenNone', AtMostOneLive', "stale" \notin Env, "identity" \notin Env,
           EnsureFinalizer \/ ReconcileStarts
    PROVE  SafetyInv'
<1> pc = "idle" /\ cache = obj /\ obj \in Machines /\ istatus' = istatus /\ mem.instanceID = None
  BY Zenon DEF EnsureFinalizer, ReconcileStarts, CanStart, SafetyInv, TypeOK, cloudVars, CopyIsCurrent
<1> (NoLive => NoLive') /\ (\A i : OnlyLive(i) => OnlyLive(i)')
  BY Zenon DEF NoLive, OnlyLive, Live
<1>3. CASE EnsureFinalizer
  <2>1. obj.exists /\ UNCHANGED scope
    BY <1>3, Zenon DEF EnsureFinalizer, NeedsFinalizer
  <2>2. obj' = obj \/ obj' = [obj EXCEPT !.finalizer = obj.exists]
    BY <1>3, Zenon DEF EnsureFinalizer
  <2>3. obj' = obj \/ Fields(obj', obj.instanceID, obj.deleting, obj.exists, obj.exists)
    BY <2>2, ObjectFields, Zenon
  <2>4. NamesOnlyLive'
    BY <2>1, <2>3, Zenon DEF SafetyInv, NamesOnlyLive, Holding, scope, Fields
  <2>5. CopyIsCurrent'
    BY <2>1, Zenon DEF SafetyInv, CopyIsCurrent, scope, Looking, Creating
  <2>6. FinalizerGoesLast'
    BY <2>1, <2>3, Zenon DEF SafetyInv, FinalizerGoesLast, scope, Cleaning, Fields
  <2> QED BY <2>4, <2>5, <2>6, Zenon DEF SafetyInv
<1>4. CASE ReconcileStarts
  <2>1. obj.exists /\ obj.finalizer
    BY <1>4, Zenon DEF ReconcileStarts, Waits, NeedsFinalizer, SafetyInv, FinalizerGoesLast
  <2>2. obj' = obj /\ base' = obj /\ acct' = "own"
    BY <1>4, Zenon DEF ReconcileStarts, ClientAccount
  <2>3. /\ pc' \in {"delFind", "resync", "patchConditions", "find"}
        /\ pc' = "delFind" => obj.deleting
        /\ pc' = "find" => ~obj.provisioned
        /\ mem' = obj \/ mem' = NotReady(obj)
    BY <1>4, Zenon DEF ReconcileStarts
  <2>4. SameFields(mem', obj)
    BY <2>3, UpdateFields, ZenonT(60)
  <2>5. NamesOnlyLive'
    BY <2>2, <2>3, <2>4, Zenon DEF SafetyInv, NamesOnlyLive, Holding, SameFields
  <2>6. CopyIsCurrent'
    BY <2>1, <2>2, <2>3, <2>4, Zenon DEF CopyIsCurrent, SameFields, Creating
  <2>7. FinalizerGoesLast'
    BY <2>1, <2>2, <2>3, <2>4, Zenon DEF FinalizerGoesLast, SameFields, Cleaning
  <2> QED BY <2>5, <2>6, <2>7 DEF SafetyInv
<1> QED BY <1>3, <1>4, Zenon

\* The requests of the deferred patch keep the invariant: the one that removes
\* the finalizer is sent only when nothing is alive, and the recorded ID is that
\* of the only instance that can be.
LEMMA PatchSafe ==
    ASSUME SafetyInv, TypeOK', CreatesOnlyWhenNone', AtMostOneLive', PatchConditions \/ PatchMeta \/ PatchStatus
    PROVE  SafetyInv'
<1> obj \in Machines /\ istatus' = istatus /\ pc \in Patching
  BY Zenon DEF PatchConditions, PatchMeta, PatchStatus, PatchRequest, PatchFrame, cloudVars, SafetyInv, TypeOK, Patching
<1> (NoLive => NoLive') /\ (\A i : OnlyLive(i) => OnlyLive(i)')
  BY Zenon DEF NoLive, OnlyLive, Live
<1>3. CASE PatchConditions
  <2>1. pc = "patchConditions" /\ pc' = "patchMeta" /\ UNCHANGED <<mem, base, acct>>
    BY <1>3, Zenon DEF PatchConditions, PatchRequest, PatchFrame
  <2>2. obj' = obj \/ \E a, b : obj' = [obj EXCEPT !.ready = a, !.osReady = b]
    BY <1>3, Zenon DEF PatchConditions, PatchRequest
  <2>3. Fields(obj', obj.instanceID, obj.deleting, obj.finalizer, obj.exists)
    <3>1. CASE obj' = obj
      BY <3>1, ObjectFields, Zenon
    <3>2. ASSUME NEW a, NEW b, obj' = [obj EXCEPT !.ready = a, !.osReady = b]
          PROVE  Fields(obj', obj.instanceID, obj.deleting, obj.finalizer, obj.exists)
      BY <3>2, PatchFields, Zenon
    <3> QED BY <2>2, <3>1, <3>2, Zenon
  <2>4. NamesOnlyLive'
    BY <2>1, <2>3, Zenon DEF SafetyInv, NamesOnlyLive, Holding, Fields
  <2>5. CopyIsCurrent'
    BY <2>1, <2>3, Zenon DEF SafetyInv, CopyIsCurrent, Fields, Looking, Creating
  <2>6. FinalizerGoesLast'
    BY <2>1, <2>3, Zenon DEF SafetyInv, FinalizerGoesLast, Fields, Cleaning, Patching
  <2> QED BY <2>4, <2>5, <2>6, Zenon DEF SafetyInv
<1>4. CASE PatchMeta
  <2>1. pc = "patchMeta" /\ pc' = "patchStatus" /\ UNCHANGED <<mem, base, acct>>
    BY <1>4, Zenon DEF PatchMeta, PatchRequest, PatchFrame
  <2> DEFINE keeps == Merge(mem.finalizer, base.finalizer, obj.finalizer)
  <2>2. obj' = obj \/ \E a, b : obj' = [obj EXCEPT !.providerID = a, !.delReq = b, !.finalizer = keeps,
                                                   !.exists = keeps \/ ~obj.deleting]
    BY <1>4, Zenon DEF PatchMeta, PatchRequest
  <2>3. obj' = obj \/ Fields(obj', obj.instanceID, obj.deleting, keeps, keeps \/ ~obj.deleting)
    <3> DEFINE exists == keeps \/ ~obj.deleting
    <3> HIDE DEF keeps, exists
    <3>1. ASSUME NEW a, NEW b, obj' = [obj EXCEPT !.providerID = a, !.delReq = b, !.finalizer = keeps,
                                                  !.exists = exists]
          PROVE  Fields(obj', obj.instanceID, obj.deleting, keeps, exists)
      BY <3>1, PatchFields, Zenon
    <3> QED BY <2>2, <3>1, Zenon DEF exists
  <2>4. /\ obj.exists /\ obj.finalizer /\ base.finalizer
        /\ ~mem.finalizer => NoLive /\ obj.deleting
    BY <2>1, ZenonT(60) DEF SafetyInv, FinalizerGoesLast, CopyIsCurrent
  <2>5. IF mem.finalizer THEN keeps ELSE ~keeps
    BY <2>4, ZenonT(60) DEF Merge, SafetyInv, TypeOK, Machines
  <2>6. NamesOnlyLive'
    BY <2>1, <2>3, ZenonT(60) DEF SafetyInv, NamesOnlyLive, Holding, Fields
  <2>7. CopyIsCurrent'
    BY <2>1, <2>3, Zenon DEF SafetyInv, CopyIsCurrent, Looking, Creating, Fields
  <2>8. FinalizerGoesLast'
    BY <2>1, <2>3, <2>4, <2>5, Zenon DEF SafetyInv, FinalizerGoesLast, Cleaning, Patching, Fields
  <2> QED BY <2>6, <2>7, <2>8 DEF SafetyInv
<1>5. CASE PatchStatus
  <2>1. pc = "patchStatus" /\ pc' = "idle" /\ mem' = NewMachine /\ acct' = "own"
    BY <1>5, Zenon DEF PatchStatus
  <2>2. \/ obj' = obj
        \/ \E b, c, d : obj' = [obj EXCEPT !.instanceID = Merge(mem.instanceID, base.instanceID, obj.instanceID),
                                           !.scriptID = b, !.osVolumeID = c, !.provisioned = d]
    BY <1>5, Zenon DEF PatchStatus
  <2> DEFINE id == Merge(mem.instanceID, base.instanceID, obj.instanceID)
  <2>3. obj' = obj \/ Fields(obj', id, obj.deleting, obj.finalizer, obj.exists)
    <3> HIDE DEF id
    <3>1. ASSUME NEW b, NEW c, NEW d, obj' = [obj EXCEPT !.instanceID = id, !.scriptID = b, !.osVolumeID = c,
                                                         !.provisioned = d]
          PROVE  Fields(obj', id, obj.deleting, obj.finalizer, obj.exists)
      BY <3>1, PatchFields, Zenon
    <3> QED BY <2>2, <3>1, Zenon DEF id
  <2>4. obj'.instanceID \in {mem.instanceID, obj.instanceID}
    BY <2>3, Zenon DEF Merge, Fields
  <2>5. NewMachine.instanceID = None
    BY Zenon DEF NewMachine
  <2>6. NamesOnlyLive'
    BY <2>1, <2>4, <2>5, Zenon DEF SafetyInv, NamesOnlyLive, Holding
  <2>7. CopyIsCurrent'
    BY <2>1, <2>5, Zenon DEF CopyIsCurrent, Looking, Creating
  <2>8. FinalizerGoesLast'
    BY <2>1, <2>3, Zenon DEF SafetyInv, FinalizerGoesLast, Cleaning, Fields
  <2> QED BY <2>6, <2>7, <2>8 DEF SafetyInv
<1> QED BY <1>3, <1>4, <1>5, Zenon

\* The user, the other controllers, a crash and the cloud keep the invariant.
LEMMA SurroundingsSafe ==
    ASSUME SafetyInv, TypeOK', CreatesOnlyWhenNone', AtMostOneLive', NoneBorn, Surroundings
    PROVE  SafetyInv'
<1> obj \in Machines /\ (NoLive => NoLive') /\ (\A i : OnlyLive(i) => OnlyLive(i)')
  BY Zenon DEF SafetyInv, TypeOK, NoLive, OnlyLive, Live, NoneBorn
<1>2. CASE CacheSync \/ GateOpens \/ OwnerVanishes \/ PauseToggles \/ ForeignToggles \/ CloudMoves
  <2>1. UNCHANGED <<obj, scope>>
    BY <1>2, Zenon DEF CacheSync, GateOpens, OwnerVanishes, PauseToggles, ForeignToggles, CloudMoves, Outside, k8sVars
  <2> QED BY <2>1, AsideKeeps, Zenon
<1>3. CASE UserDeletes
  <2>1. obj.exists /\ UNCHANGED scope
    BY <1>3, Zenon DEF UserDeletes, Outside
  <2>2. CASE obj.finalizer
    <3>1. obj' = [obj EXCEPT !.deleting = TRUE]
      BY <1>3, <2>2, Zenon DEF UserDeletes
    <3>2. Fields(obj', obj.instanceID, TRUE, obj.finalizer, obj.exists) /\ obj'.provisioned = obj.provisioned
      BY <3>1, ObjectFields, Zenon
    <3>3. NamesOnlyLive'
      BY <2>1, <3>2, ZenonT(60) DEF SafetyInv, NamesOnlyLive, Fields, scope
    <3>4. CopyIsCurrent'
      BY <2>1, <3>2, Zenon DEF SafetyInv, CopyIsCurrent, Fields, scope
    <3>5. FinalizerGoesLast'
      BY <2>1, <2>2, <3>2, Zenon DEF SafetyInv, FinalizerGoesLast, Fields, scope
    <3> QED BY <3>3, <3>4, <3>5, Zenon DEF SafetyInv
  <2>3. CASE ~obj.finalizer
    <3>1. obj' = [obj EXCEPT !.exists = FALSE] /\ pc = "idle" /\ NoLive
      BY <1>3, <2>1, <2>3, Zenon DEF UserDeletes, SafetyInv, FinalizerGoesLast
    <3>2. Fields(obj', obj.instanceID, obj.deleting, obj.finalizer, FALSE)
      BY <3>1, ObjectFields, Zenon
    <3>3. NamesOnlyLive'
      BY <2>1, <3>2, Zenon DEF SafetyInv, NamesOnlyLive, Fields, scope
    <3>4. CopyIsCurrent'
      BY <2>1, <3>1, <3>2, Zenon DEF SafetyInv, CopyIsCurrent, Fields, scope, Looking, Creating
    <3>5. FinalizerGoesLast'
      BY <2>1, <3>1, <3>2, Zenon DEF SafetyInv, FinalizerGoesLast, Fields, scope, Cleaning
    <3> QED BY <3>3, <3>4, <3>5 DEF SafetyInv
  <2> QED BY <2>2, <2>3, Zenon
<1>4. CASE Crash
  <2>1. pc' = "idle" /\ mem' = NewMachine /\ acct' = "own" /\ obj' = obj
    BY <1>4, Zenon DEF Crash
  <2>2. NewMachine.instanceID = None
    BY Zenon DEF NewMachine
  <2>3. NamesOnlyLive'
    BY <2>1, <2>2, Zenon DEF SafetyInv, NamesOnlyLive, Holding
  <2>4. CopyIsCurrent'
    BY <2>1, <2>2, Zenon DEF CopyIsCurrent, Looking, Creating
  <2>5. FinalizerGoesLast'
    BY <2>1, Zenon DEF SafetyInv, FinalizerGoesLast, Cleaning
  <2> QED BY <2>3, <2>4, <2>5 DEF SafetyInv
<1> QED BY <1>2, <1>3, <1>4, Zenon DEF Surroundings

\* Outside of CreateInstance no step brings an instance to life.
LEMMA OnlyCreateBears == ASSUME TypeOK, CreatesOnlyWhenNone, [Next]_vars, ~CreateInstance PROVE NoneBorn
<1>1. CASE OtherCalls
  BY <1>1, CallsKeep, Zenon DEF CloudKeeps
<1>2. CASE \/ ReconcileWaits \/ EnsureFinalizer \/ ReconcileStarts
           \/ PatchConditions \/ PatchMeta \/ PatchStatus \/ Surroundings
  BY <1>2, OthersEnter, Zenon DEF CloudKeeps
<1>3. CASE UNCHANGED vars
  BY <1>3, Zenon DEF vars, cloudVars, NoneBorn
<1> QED BY <1>1, <1>2, <1>3, Zenon DEF Next, Controller, Create, Delete, OtherCalls

\* Every step keeps the invariant.
LEMMA NextSafe ==
    ASSUME "stale" \notin Env, "identity" \notin Env, SafetyInv, [Next]_vars
    PROVE  SafetyInv'
<1> TypeOK' /\ CreatesOnlyWhenNone' /\ AtMostOneLive'
  BY NextType, NextOne, Zenon DEF SafetyInv
<1> ~CreateInstance => NoneBorn
  BY OnlyCreateBears, Zenon DEF SafetyInv
<1>3. CASE CreateInstance
  BY <1>3, CreateSafe, Zenon
<1>4. CASE Create /\ ~CreateInstance
  BY <1>4, NormalSafe, Zenon DEF Create
<1>5. CASE Delete /\ ~CreateInstance
  BY <1>5, DeleteSafe, Zenon
<1>6. CASE EnsureFinalizer \/ ReconcileStarts
  BY <1>6, StartSafe, Zenon
<1>7. CASE PatchConditions \/ PatchMeta \/ PatchStatus
  BY <1>7, PatchSafe, Zenon
<1>8. CASE Surroundings /\ ~CreateInstance
  BY <1>8, SurroundingsSafe
<1>9. CASE (ReconcileWaits \/ UNCHANGED vars) /\ ~CreateInstance
  <2>1. UNCHANGED <<obj, scope>>
    BY <1>9, Zenon DEF ReconcileWaits, vars, k8sVars
  <2> QED BY <1>9, <2>1, AsideKeeps, Zenon
<1> QED BY <1>3, <1>4, <1>5, <1>6, <1>7, <1>8, <1>9, Zenon DEF Next, Controller

\* The first state satisfies the invariant.
LEMMA InitSafe == ASSUME Init PROVE SafetyInv
<1> TypeOK /\ NoLive /\ pc = "idle" /\ obj = NewMachine /\ mem = NewMachine /\ acct = "own"
  BY InitType, Zenon DEF Init, CloudInit, NoLive, Live, LiveStatus
<1>2. /\ NewMachine.instanceID = None /\ NewMachine.exists /\ ~NewMachine.finalizer /\ ~NewMachine.deleting
  BY Zenon DEF NewMachine
<1>3. CreatesOnlyWhenNone /\ AtMostOneLive /\ NamesOnlyLive
  BY <1>2, Zenon DEF CreatesOnlyWhenNone, AtMostOneLive, NamesOnlyLive, NoLive, Creating, Holding
<1>4. CopyIsCurrent /\ FinalizerGoesLast
  BY <1>2, Zenon DEF CopyIsCurrent, FinalizerGoesLast, Looking, Creating, Cleaning
<1> QED BY <1>3, <1>4, Zenon DEF SafetyInv

\* With current copies and the machine's own account, the invariant holds
\* throughout.
THEOREM Safety == ASSUME "stale" \notin Env, "identity" \notin Env PROVE Spec => []SafetyInv
<1>1. SafetyInv /\ [Next]_vars => SafetyInv'
  BY NextSafe, Zenon
<1> QED BY <1>1, InitSafe, PTL DEF Spec

\* The VerdaMachine is not removed before its instance is gone, however calls
\* fail and whenever the manager crashes.
THEOREM InstanceGoneFirst ==
    ASSUME "stale" \notin Env, "identity" \notin Env PROVE Spec => []FinalizerGuardsInstance
<1>1. SafetyInv => FinalizerGuardsInstance
  BY Zenon DEF SafetyInv, FinalizerGoesLast, FinalizerGuardsInstance
<1> QED BY <1>1, Safety, PTL

\* A machine recorded as provisioned is never given a new instance.
THEOREM NeverRecreated ==
    ASSUME "stale" \notin Env, "identity" \notin Env PROVE Spec => ProvisionedNeverRecreated
<1>1. SafetyInv /\ [Next]_vars =>
        [obj.provisioned => \A i \in InstanceIDs : istatus[i] = "none" => istatus'[i] = "none"]_vars
  <2> SUFFICES ASSUME SafetyInv, [Next]_vars, obj.provisioned, NEW i \in InstanceIDs, istatus[i] = "none"
               PROVE  istatus'[i] = "none"
    BY Zenon
  <2>1. ~CreateInstance
    BY Zenon DEF CreateInstance, Instantiate, SafetyInv, CopyIsCurrent, Creating
  <2> QED BY <2>1, OnlyCreateBears, Zenon DEF SafetyInv, NoneBorn
<1> QED BY <1>1, Safety, PTL DEF Spec, ProvisionedNeverRecreated

-----------------------------------------------------------------------------
(* Provisioned stays.                                                      *)

\* Copy or object n has the value p of Provisioned.
Provisioned(n, p) == n.provisioned = p

\* The updates of the copy leave Provisioned alone or set it.
LEMMA UpdatesProvision ==
    ASSUME NEW m \in Machines
    PROVE  /\ Provisioned(m, m.provisioned)
           /\ Provisioned(NotReady(m), m.provisioned)
           /\ \A v : Provisioned([m EXCEPT !.osVolumeID = v], m.provisioned)
           /\ \A b : Provisioned([m EXCEPT !.osReady = b], m.provisioned)
           /\ \A b : Provisioned([m EXCEPT !.ready = b], m.provisioned)
           /\ \A st : Provisioned([m EXCEPT !.delReq = st], m.provisioned)
           /\ Provisioned([m EXCEPT !.scriptID = None], m.provisioned)
           /\ Provisioned([m EXCEPT !.ready = TRUE, !.provisioned = TRUE], TRUE)
           /\ Provisioned([m EXCEPT !.instanceID = None, !.providerID = "none"], m.provisioned)
           /\ Provisioned(Recorded(m), m.provisioned)
           /\ Provisioned(Cleaned(m), m.provisioned)
<1> QED BY Zenon DEF NotReady, Recorded, Cleaned, Machines, Provisioned

\* Changes of the object leave Provisioned alone.
LEMMA ObjectProvision ==
    ASSUME NEW o \in Machines
    PROVE  /\ \A a : Provisioned([o EXCEPT !.finalizer = a], o.provisioned)
           /\ Provisioned([o EXCEPT !.exists = FALSE], o.provisioned)
<1> QED BY Zenon DEF Machines, Provisioned

\* So do the requests of the patch, up to the one that is about it.
LEMMA PatchProvision ==
    ASSUME NEW a, NEW b, NEW c, NEW d
    PROVE  \A o \in Machines :
             /\ Provisioned([o EXCEPT !.ready = a, !.osReady = b], o.provisioned)
             /\ Provisioned([o EXCEPT !.providerID = a, !.delReq = b, !.finalizer = c, !.exists = d], o.provisioned)
             /\ Provisioned([o EXCEPT !.instanceID = a, !.scriptID = b, !.osVolumeID = c, !.provisioned = d], d)
<1> QED BY Zenon DEF Machines, Provisioned

\* A call of a reconcile does not take Provisioned back.
LEMMA CallsKeepProvisioned ==
    ASSUME SafetyInv, Create \/ Delete
    PROVE  pc # "idle" /\ UNCHANGED <<obj, base>> /\ (mem.provisioned => mem'.provisioned)
<1> mem \in Machines
  BY Zenon DEF SafetyInv, TypeOK
<1>2. CASE FindInstance \/ LookUpVolume \/ CreateChecksHostname \/ CreateAddsScript \/ CreateInstance
  <2>1. pc # "idle" /\ UNCHANGED <<obj, base>>
    BY <1>2, Zenon DEF FindInstance, LookUpVolume, CreateChecksHostname, CreateAddsScript, CreateInstance, Inside
  <2>2. mem' \in {mem, NotReady(mem)} \/ \E v : mem' = [mem EXCEPT !.osVolumeID = v]
    BY <1>2, Zenon DEF FindInstance, LookUpVolume, CreateChecksHostname, RemoveOldScripts, CreateAddsScript, AddScript,
                CreateInstance, Instantiate, Continue, ReturnError, Return
  <2>3. Provisioned(mem', mem.provisioned)
    BY <2>2, UpdatesProvision, Zenon
  <2> QED BY <2>1, <2>3, Zenon DEF Provisioned
<1>3. CASE CloneOSVolume
  <2>1. pc # "idle" /\ UNCHANGED <<obj, base>>
    BY <1>3, Zenon DEF CloneOSVolume, Inside
  <2>2. (\E v : mem' = [mem EXCEPT !.osVolumeID = v]) \/ mem' = [mem EXCEPT !.osReady = FALSE]
    BY <1>3, Zenon DEF CloneOSVolume, Continue, ReturnError, Return
  <2>3. Provisioned(mem', mem.provisioned)
    BY <2>2, UpdatesProvision, Zenon
  <2> QED BY <2>1, <2>3 DEF Provisioned
<1>4. CASE TagOSVolume
  <2>1. pc # "idle" /\ UNCHANGED <<obj, base>>
    BY <1>4, Zenon DEF TagOSVolume, Inside
  <2>2. PICK b \in BOOLEAN : LET m == [mem EXCEPT !.osReady = b] IN mem' = m \/ mem' = NotReady(m)
    BY <1>4, Zenon DEF TagOSVolume, Continue, Return
  <2> DEFINE m == [mem EXCEPT !.osReady = b]
  <2>3. m \in Machines
    BY UpdateType, Zenon
  <2>5. Provisioned(m, mem.provisioned)
    BY UpdatesProvision, Zenon
  <2>4. mem' = m \/ mem' = NotReady(m)
    BY <2>2, Zenon
  <2> HIDE DEF m
  <2> QED BY <2>1, <2>3, <2>4, <2>5, UpdatesProvision, Zenon DEF Provisioned
<1>5. CASE RecordInstance
  <2>1. pc = "record" /\ UNCHANGED <<obj, base>> /\ found.id # None
    BY <1>5, Zenon DEF RecordInstance, Inside, SafetyInv, TypeOK, Holding
  <2>2. Recorded(mem) \in Machines /\ [Recorded(mem) EXCEPT !.osReady = TRUE] \in Machines
    BY <2>1, RecordedType, UpdateType, Zenon DEF SafetyInv
  <2>3. PICK m \in {Recorded(mem), [Recorded(mem) EXCEPT !.osReady = TRUE]} : Decide(m)
    BY <1>5, Zenon DEF RecordInstance
  <2>4. /\ m \in Machines
        /\ Provisioned(m, Recorded(mem).provisioned) /\ Provisioned(Recorded(mem), mem.provisioned)
    BY <2>2, UpdatesProvision, Zenon
  <2>5. mem' \in {m, NotReady(m), [m EXCEPT !.ready = TRUE, !.provisioned = TRUE]}
    BY <2>3, Zenon DEF Decide, Return, Continue
  <2>6. Provisioned(mem', m.provisioned) \/ Provisioned(mem', TRUE)
    BY <2>4, <2>5, UpdatesProvision, Zenon
  <2> QED BY <2>1, <2>4, <2>6, Zenon DEF Provisioned
<1>6. CASE DeleteNoCapacity
  <2>1. pc # "idle" /\ UNCHANGED <<obj, base>>
    BY <1>6, Zenon DEF DeleteNoCapacity, Inside
  <2> DEFINE n == NotReady(mem)
  <2>2. mem' = mem \/ mem' = [n EXCEPT !.instanceID = None, !.providerID = "none"]
    BY <1>6, Zenon DEF DeleteNoCapacity, ReturnError, Return
  <2>3. n \in Machines /\ Provisioned(n, mem.provisioned)
    BY NotReadyType, UpdatesProvision, Zenon
  <2> HIDE DEF n
  <2>4. mem' = mem \/ Provisioned(mem', n.provisioned)
    BY <2>2, <2>3, UpdatesProvision, Zenon
  <2> QED BY <2>1, <2>3, <2>4, Zenon DEF Provisioned
<1>7. CASE ResyncInstance
  <2>1. pc # "idle" /\ UNCHANGED <<obj, base>>
    BY <1>7, Zenon DEF ResyncInstance, Inside
  <2>2. mem' = mem \/ \E b : mem' = [mem EXCEPT !.ready = b]
    BY <1>7, Zenon DEF ResyncInstance, ReturnError, Return
  <2>3. Provisioned(mem', mem.provisioned)
    BY <2>2, UpdatesProvision, Zenon
  <2> QED BY <2>1, <2>3 DEF Provisioned
<1>8. CASE Delete
  <2>1. pc # "idle" /\ UNCHANGED <<obj, base>>
    BY <1>8, Zenon DEF Delete, DeleteFindsInstance, DeleteRequestsInstance, DeletePurgesVolumes, DeleteScript,
                DeleteOSVolume, Inside
  <2>2. \/ mem' \in {mem, Cleaned(mem), [mem EXCEPT !.scriptID = None]}
        \/ \E st : mem' = [mem EXCEPT !.delReq = st]
    BY <1>8, Zenon DEF Delete, DeleteFindsInstance, DeleteRequestsInstance, RequestDelete, DeletePurgesVolumes,
                PurgeVolumes, DeleteScript, DeleteOSVolume, Continue, ReturnError, Return
  <2>3. Provisioned(mem', mem.provisioned)
    BY <2>2, UpdatesProvision, Zenon
  <2> QED BY <2>1, <2>3 DEF Provisioned
<1> QED BY <1>2, <1>3, <1>4, <1>5, <1>6, <1>7, <1>8, Zenon DEF Create

\* No step takes Provisioned back in the copy.
LEMMA NextProvision ==
    ASSUME SafetyInv, ProvisionedStays, [Next]_vars
    PROVE  ProvisionedStays'
<1>1. CASE Create \/ Delete
  BY <1>1, CallsKeepProvisioned, Zenon DEF ProvisionedStays
<1>2. CASE ReconcileStarts
  <2>1. cache \in Machines /\ base' = cache /\ mem' \in {cache, NotReady(cache)}
    BY <1>2, Zenon DEF ReconcileStarts, SafetyInv, TypeOK
  <2> QED BY <2>1, UpdatesProvision, Zenon DEF ProvisionedStays, Provisioned
<1>3. CASE PatchStatus \/ Crash
  BY <1>3, Zenon DEF PatchStatus, Crash, ProvisionedStays
<1>4. CASE PatchConditions \/ PatchMeta
  BY <1>4, Zenon DEF PatchConditions, PatchMeta, PatchRequest, ProvisionedStays
<1>5. CASE \/ ReconcileWaits \/ EnsureFinalizer \/ CacheSync \/ UserDeletes \/ GateOpens \/ OwnerVanishes
           \/ PauseToggles \/ ForeignToggles \/ CloudMoves \/ UNCHANGED vars
  BY <1>5, Zenon DEF ReconcileWaits, EnsureFinalizer, CacheSync, UserDeletes, GateOpens, OwnerVanishes, PauseToggles,
              ForeignToggles, CloudMoves, Outside, vars, scope, ProvisionedStays
<1> QED BY <1>1, <1>2, <1>3, <1>4, <1>5, Zenon DEF Next, Controller, Surroundings

-----------------------------------------------------------------------------
(* Every step is a step of the owner.                                      *)

LiveOnes == {i \in InstanceIDs : Live(i)}
Used == {i \in InstanceIDs : istatus[i] # "none"}

\* A step in which nothing is born and the object keeps its phase is the end of
\* the instance, or no step of the owner at all.
LEMMA QuietStep ==
    ASSUME SafetyInv, NoneBorn, UNCHANGED <<Phase, obj.provisioned>>
    PROVE  [Owner!Next]_(Owner!vars)
<1> LiveOnes' \subseteq LiveOnes /\ Used' = Used
  BY Zenon DEF LiveOnes, Used, Live, NoneBorn
<1>2. LiveOnes' = LiveOnes \/ (LiveOnes # {} /\ LiveOnes' = {})
  BY Zenon DEF LiveOnes, SafetyInv, AtMostOneLive
<1>3. CASE LiveOnes' = LiveOnes
  BY <1>3, Zenon DEF Owner!vars, LiveOnes, Used
<1>4. CASE LiveOnes # {} /\ LiveOnes' = {}
  <2>1. Owner!End
    BY <1>4, Zenon DEF Owner!End, LiveOnes, Used
  <2> QED BY <2>1, Zenon DEF Owner!Next
<1> QED BY <1>2, <1>3, <1>4, Zenon

\* Instances.Create is the beginning of a new instance, unless it fails.
LEMMA CreateStep == ASSUME SafetyInv, CreateInstance PROVE [Owner!Next]_(Owner!vars)
<1> /\ pc = "create" /\ NoLive /\ obj.exists /\ ~obj.provisioned /\ CloudTypeOK
    /\ BootVolumes \subseteq VolumeIDs \cup {None} /\ script \in ScriptIDs \cup {None}
  BY Zenon DEF CreateInstance, SafetyInv, CreatesOnlyWhenNone, CopyIsCurrent, FinalizerGoesLast, Creating, TypeOK,
         BootVolumes, Machines
<1> obj' = obj
  BY Zenon DEF CreateInstance, Inside
<1>3. CASE \E S : DeleteScripts(S)
  <2>1. NoneBorn
    BY <1>3, DeleteScriptsKeeps, Zenon DEF CloudKeeps
  <2> QED BY <2>1, QuietStep, Zenon DEF Phase
<1>4. CASE \E i \in InstanceIDs, v \in BootVolumes, S \in SUBSET {script} : InstancesCreate(i, script, v, S)
  <2>1. PICK i \in InstanceIDs, v \in BootVolumes, S \in SUBSET {script} : InstancesCreate(i, script, v, S)
    BY <1>4, Zenon
  <2>2. /\ \A j \in InstanceIDs : istatus'[j] \in LiveStatus => j = i \/ istatus[j] \in LiveStatus
        /\ istatus[i] = "none" /\ Live(i)'
        /\ \A j \in InstanceIDs \ {i} : istatus'[j] = istatus[j]
    BY <2>1, CreateBears, Zenon
  <2>3. LiveOnes = {} /\ LiveOnes' = {i}
    BY <2>2, Zenon DEF LiveOnes, NoLive, Live
  <2>4. i \notin Used /\ Used' = Used \cup {i}
    BY <2>2, Zenon DEF Used, Live, LiveStatus
  <2>5. Phase # "gone" /\ Phase' = Phase
    BY Zenon DEF Phase
  <2>6. Owner!Begin(i)
    BY <2>3, <2>4, <2>5, Zenon DEF Owner!Begin, LiveOnes, Used
  <2> QED BY <2>6, Zenon DEF Owner!Next
<1> QED BY <1>3, <1>4, Zenon DEF CreateInstance, Instantiate

\* The user's delete, and the patches that remove the finalizer or set
\* Provisioned, are the owner's steps of that meaning.
LEMMA ObjectStep ==
    ASSUME SafetyInv, ProvisionedStays, UserDeletes \/ EnsureFinalizer \/ PatchConditions \/ PatchMeta \/ PatchStatus
    PROVE  [Owner!Next]_(Owner!vars)
<1> obj \in Machines /\ mem \in Machines /\ base \in Machines /\ istatus' = istatus
  BY Zenon DEF UserDeletes, EnsureFinalizer, PatchConditions, PatchMeta, PatchStatus, PatchRequest, PatchFrame, Outside,
         cloudVars, SafetyInv, TypeOK
<1> LiveOnes' = LiveOnes /\ Used' = Used /\ (NoLive => LiveOnes = {})
  BY Zenon DEF LiveOnes, Used, NoLive, Live
<1>3. CASE UNCHANGED <<Phase, obj.provisioned>>
  BY <1>3, Zenon DEF Owner!vars, LiveOnes, Used
<1>4. CASE UserDeletes
  <2>1. Phase = "present" /\ (~obj.finalizer => NoLive)
    BY <1>4, Zenon DEF UserDeletes, Phase, SafetyInv, FinalizerGoesLast
  <2>2. obj'.provisioned = obj.provisioned /\ Phase' = IF obj.finalizer THEN "deleting" ELSE "gone"
    <3>1. CASE obj.finalizer
      <4>1. obj' = [obj EXCEPT !.deleting = TRUE]
        BY <1>4, <3>1, Zenon DEF UserDeletes
      <4>2. Fields(obj', obj.instanceID, TRUE, obj.finalizer, obj.exists) /\ obj'.provisioned = obj.provisioned
        BY <4>1, ObjectFields, Zenon
      <4> QED BY <1>4, <3>1, <4>2, Zenon DEF Phase, Fields, UserDeletes
    <3>2. CASE ~obj.finalizer
      <4>1. obj' = [obj EXCEPT !.exists = FALSE]
        BY <1>4, <3>2, Zenon DEF UserDeletes
      <4>2. Fields(obj', obj.instanceID, obj.deleting, obj.finalizer, FALSE) /\ Provisioned(obj', obj.provisioned)
        BY <4>1, ObjectFields, ObjectProvision, Zenon
      <4> QED BY <3>2, <4>2, Zenon DEF Phase, Fields, Provisioned
    <3> QED BY <3>1, <3>2, Zenon
  <2>3. Owner!Ask
    BY <2>1, <2>2, Zenon DEF Owner!Ask, LiveOnes, Used
  <2> QED BY <2>3, Zenon DEF Owner!Next
<1>5. CASE EnsureFinalizer
  <2>1. obj' = obj \/ obj' = [obj EXCEPT !.finalizer = obj.exists]
    BY <1>5, Zenon DEF EnsureFinalizer
  <2>2. obj' = obj \/ Fields(obj', obj.instanceID, obj.deleting, obj.exists, obj.exists)
    <3>1. Fields([obj EXCEPT !.finalizer = obj.exists], obj.instanceID, obj.deleting, obj.exists, obj.exists)
      BY ObjectFields, Zenon
    <3> QED BY <2>1, <3>1, Zenon
  <2>3. obj' = obj \/ Provisioned(obj', obj.provisioned)
    BY <2>1, ObjectProvision, Zenon
  <2> QED BY <1>3, <2>2, <2>3, Zenon DEF Phase, Fields, Provisioned
<1>6. CASE PatchConditions
  <2>1. obj' = obj \/ \E a, b : obj' = [obj EXCEPT !.ready = a, !.osReady = b]
    BY <1>6, Zenon DEF PatchConditions, PatchRequest
  <2>2. ASSUME NEW a, NEW b, obj' = [obj EXCEPT !.ready = a, !.osReady = b]
        PROVE  Fields(obj', obj.instanceID, obj.deleting, obj.finalizer, obj.exists)
    BY <2>2, PatchFields, Zenon
  <2>3. ASSUME NEW a, NEW b, obj' = [obj EXCEPT !.ready = a, !.osReady = b]
        PROVE  Provisioned(obj', obj.provisioned)
    BY <2>3, PatchProvision, Zenon
  <2>4. \/ obj' = obj
        \/ /\ Fields(obj', obj.instanceID, obj.deleting, obj.finalizer, obj.exists)
           /\ Provisioned(obj', obj.provisioned)
    BY <2>1, <2>2, <2>3, Zenon
  <2> QED BY <1>3, <2>4, Zenon DEF Phase, Fields, Provisioned
<1>7. CASE PatchMeta
  <2> DEFINE keeps == Merge(mem.finalizer, base.finalizer, obj.finalizer)
             exists == keeps \/ ~obj.deleting
  <2>1. pc = "patchMeta" /\ (obj' = obj \/ \E a, b : obj' = [obj EXCEPT !.providerID = a, !.delReq = b,
                                                              !.finalizer = keeps, !.exists = exists])
    BY <1>7, Zenon DEF PatchMeta, PatchRequest
  <2>2. \/ obj' = obj
        \/ Fields(obj', obj.instanceID, obj.deleting, keeps, exists) /\ Provisioned(obj', obj.provisioned)
    <3> HIDE DEF keeps, exists
    <3>1. ASSUME NEW a, NEW b, obj' = [obj EXCEPT !.providerID = a, !.delReq = b, !.finalizer = keeps,
                                                  !.exists = exists]
          PROVE  Fields(obj', obj.instanceID, obj.deleting, keeps, exists) /\ Provisioned(obj', obj.provisioned)
      BY <3>1, PatchFields, PatchProvision, Zenon
    <3> QED BY <2>1, <3>1, Zenon
  <2>3. /\ obj.exists /\ obj.finalizer /\ base.finalizer
        /\ ~mem.finalizer => NoLive /\ obj.deleting
    BY <2>1, Zenon DEF SafetyInv, FinalizerGoesLast, CopyIsCurrent
  <2>4. IF mem.finalizer THEN keeps ELSE ~keeps
    BY <2>3, Zenon DEF Merge, Machines
  <2>5. CASE obj' = obj \/ mem.finalizer
    BY <1>3, <2>2, <2>3, <2>4, <2>5, Zenon DEF Phase, Fields, Provisioned
  <2>6. CASE obj' # obj /\ ~mem.finalizer
    <3>1. Phase = "deleting" /\ Phase' = "gone" /\ obj'.provisioned = obj.provisioned
      BY <2>2, <2>3, <2>4, <2>6, Zenon DEF Phase, Fields, Provisioned
    <3>2. Owner!Release
      BY <2>3, <2>6, <3>1, Zenon DEF Owner!Release, LiveOnes, Used
    <3> QED BY <3>2, Zenon DEF Owner!Next
  <2> QED BY <2>5, <2>6, Zenon
<1>8. CASE PatchStatus
  <2> DEFINE prov == Merge(mem.provisioned, base.provisioned, obj.provisioned)
  <2>1. \/ obj' = obj
        \/ obj.exists /\ \E a, b, c : obj' = [obj EXCEPT !.instanceID = a, !.scriptID = b, !.osVolumeID = c,
                                                         !.provisioned = prov]
    BY <1>8, ZenonT(60) DEF PatchStatus
  <2>2. \/ obj' = obj
        \/ /\ obj.exists /\ obj'.exists = obj.exists /\ obj'.deleting = obj.deleting
           /\ obj'.provisioned = prov
    <3> HIDE DEF prov
    <3>1. ASSUME NEW a, NEW b, NEW c, obj' = [obj EXCEPT !.instanceID = a, !.scriptID = b, !.osVolumeID = c,
                                                         !.provisioned = prov]
          PROVE  Fields(obj', a, obj.deleting, obj.finalizer, obj.exists) /\ Provisioned(obj', prov)
      BY <3>1, PatchFields, PatchProvision, Zenon
    <3> QED BY <2>1, <3>1, Zenon DEF Fields, Provisioned
  <2>3. obj.provisioned => prov
    BY <1>8, Zenon DEF Merge, ProvisionedStays, PatchStatus, Machines
  <2>4. prov \in BOOLEAN /\ obj.provisioned \in BOOLEAN
    BY Zenon DEF Merge, Machines
  <2>5. UNCHANGED <<Phase, obj.provisioned>>
        \/ (Phase # "gone" /\ Phase' = Phase /\ ~obj.provisioned /\ obj'.provisioned = TRUE)
    BY <2>2, <2>3, <2>4, Zenon DEF Phase
  <2>6. CASE Phase # "gone" /\ Phase' = Phase /\ ~obj.provisioned /\ obj'.provisioned = TRUE
    <3>1. Owner!Provision
      BY <2>6, Zenon DEF Owner!Provision, LiveOnes, Used
    <3> QED BY <3>1, Zenon DEF Owner!Next
  <2> QED BY <1>3, <2>5, <2>6, Zenon
<1> QED BY <1>4, <1>5, <1>6, <1>7, <1>8, Zenon

\* Every step of the machine is a step of the owner or none.
LEMMA NextStep ==
    ASSUME SafetyInv, ProvisionedStays, [Next]_vars
    PROVE  [Owner!Next]_(Owner!vars)
<1>1. ~CreateInstance => NoneBorn
  BY OnlyCreateBears, Zenon DEF SafetyInv
<1>2. CASE CreateInstance
  BY <1>2, CreateStep, Zenon
<1>3. CASE UserDeletes \/ EnsureFinalizer \/ PatchConditions \/ PatchMeta \/ PatchStatus
  BY <1>3, ObjectStep, Zenon
<1>4. CASE (Create \/ Delete) /\ ~CreateInstance
  <2>1. obj' = obj
    BY <1>4, CallsKeepProvisioned, Zenon
  <2> QED BY <1>1, <1>4, <2>1, QuietStep, Zenon DEF Phase
<1>5. CASE /\ \/ ReconcileWaits \/ ReconcileStarts \/ CacheSync \/ GateOpens \/ OwnerVanishes \/ PauseToggles
              \/ ForeignToggles \/ Crash \/ CloudMoves \/ UNCHANGED vars
           /\ ~CreateInstance
  <2>1. obj' = obj
    BY <1>5, Zenon DEF ReconcileWaits, ReconcileStarts, CacheSync, GateOpens, OwnerVanishes, PauseToggles,
                ForeignToggles, Crash, CloudMoves, vars, k8sVars
  <2> QED BY <1>1, <1>5, <2>1, QuietStep, Zenon DEF Phase
<1> QED BY <1>2, <1>3, <1>4, <1>5, Zenon DEF Next, Controller, Surroundings

\* The reconciler of a VerdaMachine implements InstanceOwner: however calls fail
\* and whenever the manager crashes, what becomes of the instances is what becomes
\* of those of an owner of at most one.
THEOREM Implements == ASSUME "stale" \notin Env, "identity" \notin Env PROVE Spec => ImplementsOwner
<1>1. ASSUME Init PROVE ProvisionedStays /\ Owner!Init
  <2>1. /\ \A i \in InstanceIDs : istatus[i] = "none"
        /\ obj.exists = TRUE /\ obj.deleting = FALSE /\ obj.provisioned = FALSE
        /\ mem = obj /\ base = obj
    BY <1>1, Zenon DEF Init, CloudInit, NewMachine
  <2>2. ProvisionedStays
    BY <1>1, <2>1, Zenon DEF Init, ProvisionedStays
  <2>3. Owner!Init
    BY <2>1, Zenon DEF Owner!Init, Phase, Live, LiveStatus
  <2> QED BY <2>2, <2>3, Zenon
<1>2. SafetyInv /\ ProvisionedStays /\ [Next]_vars => ProvisionedStays' /\ [Owner!Next]_(Owner!vars)
  BY NextProvision, NextStep, Zenon
<1> QED BY <1>1, <1>2, Safety, PTL DEF Spec, ImplementsOwner, Owner!Spec

-----------------------------------------------------------------------------
(* As long as no call fails and the manager does not crash: what each call *)
(* writes down and leaves in the account.                                  *)

\* The volumes that somebody has to delete.
Active == {v \in VolumeIDs : vstatus[v] \in {"cloning", "detached", "attached"}}

\* What a copy says of the instance, its script and its clone.
Noted(n, p, i, s, v, f) ==
    n.providerID = p /\ n.instanceID = i /\ n.scriptID = s /\ n.osVolumeID = v /\ n.finalizer = f

\* The same as another copy.
Alike(n, m) == Noted(n, m.providerID, m.instanceID, m.scriptID, m.osVolumeID, m.finalizer)

\* What each update of the copy changes of it.
LEMMA AlikeFields ==
    ASSUME NEW m \in Machines
    PROVE  /\ Alike(m, m) /\ Alike(NotReady(m), m)
           /\ \A b : Alike([m EXCEPT !.osReady = b], m)
           /\ \A b : Alike([m EXCEPT !.ready = b], m)
           /\ \A st : Alike([m EXCEPT !.delReq = st], m)
           /\ Alike([m EXCEPT !.ready = TRUE, !.provisioned = TRUE], m)
BY Zenon DEF NotReady, Machines, Alike, Noted

\* What forgetting the script, the instance or the clone changes of it.
LEMMA NotedFields ==
    ASSUME NEW m \in Machines
    PROVE  /\ \A v : Noted([m EXCEPT !.osVolumeID = v], m.providerID, m.instanceID, m.scriptID, v, m.finalizer)
           /\ Noted([m EXCEPT !.scriptID = None], m.providerID, m.instanceID, None, m.osVolumeID, m.finalizer)
           /\ Noted([m EXCEPT !.instanceID = None, !.providerID = "none"],
                    "none", None, m.scriptID, m.osVolumeID, m.finalizer)
           /\ Noted(Cleaned(m), m.providerID, m.instanceID, m.scriptID, None, FALSE)
BY Zenon DEF Cleaned, Machines, Noted

\* Recording the instance that was found: a stand-in has neither script nor hostname.
LEMMA RecordedFields ==
    ASSUME NEW m \in Machines
    PROVE  /\ Recorded(m).instanceID = found.id /\ Recorded(m).osVolumeID = m.osVolumeID
           /\ Recorded(m).finalizer = m.finalizer
           /\ Recorded(m).providerID = IF found.status = "notfound" THEN "bare" ELSE "node"
           /\ Recorded(m).scriptID = IF found.status # "notfound" /\ iscript[found.id] # None
                                     THEN iscript[found.id] ELSE m.scriptID
BY Zenon DEF Recorded, Machines

\* Nothing more has to be deleted after the step than before it.
Fewer == Present' \subseteq Present /\ Active' \subseteq Active /\ iscript' = iscript

\* A step that leaves the cloud alone leaves no more in it.
LEMMA IdleFewer == UNCHANGED cloudVars => Fewer
BY Zenon DEF cloudVars, Fewer, Present, Active

\* Deleting scripts (DeleteStartupScriptByName).
LEMMA DeleteScriptsFewer ==
    ASSUME CloudTypeOK, NEW S, DeleteScripts(S)
    PROVE  Fewer /\ Present' = Present \ S
<1>1. Present' = Present \ S
  BY DEF DeleteScripts, Present, CloudTypeOK
<1> QED BY <1>1, Zenon DEF DeleteScripts, Fewer, Active

\* Deleting an instance, in each of its cases, and purging its volumes.
LEMMA DeleteInstanceFewer ==
    ASSUME CloudTypeOK, NEW i, DeleteInstance(i) \/ PurgeInstanceVolumes(i)
    PROVE  Fewer
<1>1. scripts' = scripts /\ iscript' = iscript
  BY Zenon DEF DeleteInstance, PurgeInstanceVolumes, cloudVars
<1>2. vstatus' = vstatus \/ PurgeInstanceVolumes(i)
  BY Zenon DEF DeleteInstance, cloudVars
<1>3. Active' \subseteq Active
  <2>1. CASE vstatus' = vstatus
    BY <2>1, Zenon DEF Active
  <2>2. CASE PurgeInstanceVolumes(i)
    BY <2>2 DEF PurgeInstanceVolumes, Active
  <2> QED BY <1>2, <2>1, <2>2
<1> QED BY <1>1, <1>3, Zenon DEF Fewer, Present

\* The moves of the cloud.
LEMMA CloudStepFewer == ASSUME CloudTypeOK, CloudStep PROVE Fewer
<1>1. scripts' = scripts /\ iscript' = iscript
  BY Zenon DEF CloudStep, InstanceMoves, InstanceShutsDown, VolumeReleased, CloneFinishes, VolumeDeleted
<1>2. Active' \subseteq Active
  <2>1. CASE vstatus' = vstatus
    BY <2>1, Zenon DEF Active
  <2>2. ASSUME NEW v \in VolumeIDs, CloneFinishes(v) \/ VolumeDeleted(v) PROVE Active' \subseteq Active
    BY <2>2 DEF CloneFinishes, VolumeDeleted, Active, CloudTypeOK
  <2>3. ASSUME NEW i \in InstanceIDs, VolumeReleased(i) PROVE Active' \subseteq Active
    <3>1. ivol[i] \in VolumeIDs /\ vstatus[ivol[i]] = "attached"
      BY <2>3 DEF VolumeReleased, CloudTypeOK
    <3>2. PICK s : vstatus' = [vstatus EXCEPT ![ivol[i]] = s]
      BY <2>3, Zenon DEF VolumeReleased
    <3> QED BY <3>1, <3>2 DEF Active, CloudTypeOK
  <2>4. CloudStep => \/ vstatus' = vstatus
                     \/ \E v \in VolumeIDs : CloneFinishes(v) \/ VolumeDeleted(v)
                     \/ \E i \in InstanceIDs : VolumeReleased(i)
    BY Zenon DEF CloudStep, InstanceMoves, InstanceShutsDown
  <2> QED BY <2>1, <2>2, <2>3, <2>4, Zenon
<1> QED BY <1>1, <1>2, Zenon DEF Fewer, Present

-----------------------------------------------------------------------------
(* What each call does, when it does not fail.                             *)

\* No call changes the object or the copy that was read.
LEMMA CallFrame ==
    ASSUME Create \/ Delete
    PROVE  /\ obj' = obj /\ base' = base /\ pc \notin {"idle"} \cup Patching
           /\ pc' \notin {"idle", "patchMeta", "patchStatus"}
<1>1. obj' = obj /\ base' = base
  BY Zenon DEF Create, Delete, FindInstance, LookUpVolume, CloneOSVolume, TagOSVolume, CreateChecksHostname,
     CreateAddsScript, CreateInstance, RecordInstance, DeleteNoCapacity, ResyncInstance, DeleteFindsInstance,
     DeleteRequestsInstance, DeletePurgesVolumes, DeleteScript, DeleteOSVolume, Inside
<1>2. pc \notin {"idle"} \cup Patching
  BY Zenon DEF Create, Delete, FindInstance, LookUpVolume, CloneOSVolume, TagOSVolume, CreateChecksHostname,
     CreateAddsScript, CreateInstance, RecordInstance, DeleteNoCapacity, ResyncInstance, DeleteFindsInstance,
     DeleteRequestsInstance, DeletePurgesVolumes, DeleteScript, DeleteOSVolume, Patching
<1>3. CASE \/ FindInstance \/ LookUpVolume \/ CloneOSVolume \/ TagOSVolume \/ CreateChecksHostname
           \/ CreateAddsScript \/ CreateInstance
  BY <1>1, <1>2, <1>3, Zenon DEF FindInstance, LookUpVolume, CloneOSVolume, TagOSVolume, CreateChecksHostname,
     RemoveOldScripts, CreateAddsScript, AddScript, CreateInstance, Instantiate, Continue, ReturnError, Return
<1>4. CASE RecordInstance \/ DeleteNoCapacity \/ ResyncInstance
  BY <1>1, <1>2, <1>4, Zenon DEF RecordInstance, Decide, DeleteNoCapacity, ResyncInstance, Continue, ReturnError, Return
<1>5. CASE Delete
  BY <1>1, <1>2, <1>5, Zenon DEF Delete, DeleteFindsInstance, DeleteRequestsInstance, RequestDelete,
     DeletePurgesVolumes, PurgeVolumes, DeleteScript, DeleteOSVolume, Continue, ReturnError, Return
<1> QED BY <1>3, <1>4, <1>5, Zenon DEF Create

\* findInstance.
LEMMA FindMarks ==
    ASSUME TypeOK, FindInstance, ~Fault
    PROVE  /\ pc = "find" /\ Alike(mem', mem) /\ UNCHANGED cloudVars
           /\ \E r \in findInstance(mem) :
                found' = r /\ pc' = IF r.id # None THEN "record" ELSE IF UseClone THEN "volume" ELSE "script"
<1>1. pc = "find" /\ mem' = mem /\ UNCHANGED cloudVars
  BY Zenon DEF FindInstance, Continue, ReturnError, Return
<1>2. \E r \in findInstance(mem) :
         found' = r /\ pc' = IF r.id # None THEN "record" ELSE IF UseClone THEN "volume" ELSE "script"
  BY Zenon DEF FindInstance, Continue, ReturnError
<1>3. Alike(mem', mem)
  BY <1>1, Zenon DEF Alike, Noted
<1> QED BY <1>1, <1>2, <1>3, Zenon

\* ensureOSVolume looks for the clone it has recorded, or for one of its name.
LEMMA VolumeMarks ==
    ASSUME TypeOK, LookUpVolume, ~Fault
    PROVE  /\ pc = "volume" /\ UNCHANGED cloudVars
           /\ \/ pc' = "clone" /\ Alike(mem', mem) /\ mem.osVolumeID \notin Active
              \/ /\ pc' = "tag"
                 /\ \E v : /\ Noted(mem', mem.providerID, mem.instanceID, mem.scriptID, v, mem.finalizer)
                           /\ mem.osVolumeID = None \/ v = mem.osVolumeID
<1> mem \in Machines
  BY Zenon DEF TypeOK
<1>1. pc = "volume" /\ UNCHANGED cloudVars
  BY Zenon DEF LookUpVolume
<1>2. \/ /\ pc' = "clone" /\ mem' = mem
         /\ mem.osVolumeID = None \/ "notfound" \in GetVolume(mem.osVolumeID)
      \/ /\ pc' = "tag"
         /\ \E v : mem' = [mem EXCEPT !.osVolumeID = v] /\ (mem.osVolumeID = None \/ v = mem.osVolumeID)
  <2> DEFINE byID == {[id |-> mem.osVolumeID, status |-> st, managed |-> vmanaged[mem.osVolumeID]] :
                        st \in GetVolume(mem.osVolumeID) \ {"notfound"}}
             byName == {[id |-> v, status |-> vstatus[v], managed |-> vmanaged[v]] : v \in FindVolumeByName}
  <2>1. \/ /\ pc' = "clone" /\ mem' = mem
           /\ IF mem.osVolumeID # None THEN "notfound" \in GetVolume(mem.osVolumeID) ELSE FindVolumeByName = {}
        \/ /\ pc' = "tag"
           /\ \E r \in IF mem.osVolumeID # None THEN byID ELSE byName : mem' = [mem EXCEPT !.osVolumeID = r.id]
    BY Zenon DEF LookUpVolume, Continue, ReturnError
  <2>2. \A r \in byID : r.id = mem.osVolumeID
    OBVIOUS
  <2> HIDE DEF byID, byName
  <2>3. CASE mem.osVolumeID = None
    BY <2>1, <2>3, Zenon
  <2>4. CASE mem.osVolumeID # None
    BY <2>1, <2>2, <2>4, Zenon
  <2> QED BY <2>3, <2>4, Zenon
<1>3. mem.osVolumeID = None \/ "notfound" \in GetVolume(mem.osVolumeID) => mem.osVolumeID \notin Active
  BY NoneAssumption DEF GetVolume, Active
<1>4. ASSUME NEW v, mem' = [mem EXCEPT !.osVolumeID = v]
      PROVE  Noted(mem', mem.providerID, mem.instanceID, mem.scriptID, v, mem.finalizer)
  BY <1>4, NotedFields, Zenon
<1>5. mem' = mem => Alike(mem', mem)
  BY Zenon DEF Alike, Noted
<1> QED BY <1>1, <1>2, <1>3, <1>4, <1>5, Zenon

\* CloneVolume: a clone that was made is written down.
LEMMA CloneMarks ==
    ASSUME TypeOK, CloneOSVolume, ~Fault
    PROVE  /\ pc = "clone" /\ UNCHANGED <<istatus, iscript, scripts>>
           /\ \/ pc' = "patchConditions" /\ Alike(mem', mem) /\ UNCHANGED vstatus
              \/ /\ pc' = "tag"
                 /\ \E v : /\ Noted(mem', mem.providerID, mem.instanceID, mem.scriptID, v, mem.finalizer)
                           /\ Active' \subseteq Active \cup {v}
<1> mem \in Machines /\ CloudTypeOK
  BY Zenon DEF TypeOK
<1>1. pc = "clone" /\ UNCHANGED <<istatus, iscript, scripts>>
  BY Zenon DEF CloneOSVolume, CloneVolume, cloudVars
<1>2. \/ pc' = "patchConditions" /\ mem' = [mem EXCEPT !.osReady = FALSE] /\ UNCHANGED vstatus
      \/ \E v \in VolumeIDs, t \in BOOLEAN :
            pc' = "tag" /\ CloneVolume(v, t) /\ mem' = [mem EXCEPT !.osVolumeID = v]
  BY Zenon DEF CloneOSVolume, Continue, ReturnError, Return, cloudVars
<1>3. ASSUME NEW v \in VolumeIDs, NEW t \in BOOLEAN, CloneVolume(v, t) PROVE Active' \subseteq Active \cup {v}
  BY <1>3 DEF CloneVolume, Active, CloudTypeOK
<1>4. ASSUME NEW v, mem' = [mem EXCEPT !.osVolumeID = v]
      PROVE  Noted(mem', mem.providerID, mem.instanceID, mem.scriptID, v, mem.finalizer)
  BY <1>4, NotedFields, Zenon
<1>5. mem' = [mem EXCEPT !.osReady = FALSE] => Alike(mem', mem)
  BY AlikeFields, Zenon
<1> QED BY <1>1, <1>2, <1>3, <1>4, <1>5, Zenon

\* Tagging the clone.
LEMMA TagMarks ==
    ASSUME TypeOK, TagOSVolume
    PROVE  /\ pc = "tag" /\ pc' \in {"script", "patchConditions"} /\ Alike(mem', mem)
           /\ UNCHANGED <<istatus, iscript, scripts, vstatus>>
<1>1. pc = "tag" /\ UNCHANGED <<istatus, iscript, scripts, vstatus>>
  BY Zenon DEF TagOSVolume, TagVolume, cloudVars
<1>2. PICK b \in BOOLEAN : LET m == [mem EXCEPT !.osReady = b] IN mem' = m \/ mem' = NotReady(m)
  BY Zenon DEF TagOSVolume, Continue, Return
<1> DEFINE m == [mem EXCEPT !.osReady = b]
<1>3. m \in Machines
  BY UpdateType, Zenon DEF TypeOK
<1>4. Alike(m, mem)
  BY AlikeFields, Zenon DEF TypeOK
<1>5. mem' = m \/ mem' = NotReady(m)
  BY <1>2, Zenon
<1> HIDE DEF m
<1>6. Alike(mem', m)
  BY <1>3, <1>5, AlikeFields, Zenon
<1>7. pc' \in {"script", "patchConditions"}
  BY Zenon DEF TagOSVolume, Continue, Return
<1> QED BY <1>1, <1>4, <1>6, <1>7, Zenon DEF Alike, Noted

\* CreateInstance of the client: the scripts.
LEMMA ScriptMarks ==
    ASSUME TypeOK, CreateChecksHostname \/ CreateAddsScript, ~Fault
    PROVE  /\ UNCHANGED <<istatus, iscript, vstatus>> /\ Alike(mem', mem)
           /\ \/ pc \in {"script", "addScript"} /\ pc' = "patchConditions" /\ UNCHANGED scripts
              \/ pc = "script" /\ pc' = "addScript" /\ Present' = {}
              \/ pc = "addScript" /\ pc' = "create" /\ Present' \subseteq Present \cup {script'}
<1> mem \in Machines /\ CloudTypeOK
  BY Zenon DEF TypeOK
<1>1. CASE CreateChecksHostname
  <2>1. \/ pc = "script" /\ pc' = "patchConditions" /\ UNCHANGED cloudVars /\ mem' = NotReady(mem)
        \/ pc = "script" /\ pc' = "addScript" /\ DeleteScripts(Present) /\ mem' = mem
    BY <1>1, Zenon DEF CreateChecksHostname, RemoveOldScripts, Continue, ReturnError, Return
  <2>2. Alike(NotReady(mem), mem) /\ Alike(mem, mem)
    BY AlikeFields, Zenon
  <2>3. DeleteScripts(Present) => Present' = {}
    BY DeleteScriptsFewer
  <2> QED BY <2>1, <2>2, <2>3, Zenon DEF DeleteScripts, cloudVars
<1>2. CASE CreateAddsScript
  <2>1. \/ pc = "addScript" /\ pc' = "patchConditions" /\ UNCHANGED cloudVars /\ mem' = NotReady(mem)
        \/ /\ pc = "addScript" /\ pc' = "create" /\ mem' = mem
           /\ \E s \in ScriptIDs : AddStartupScript(s) /\ script' = s
    BY <1>2, Zenon DEF CreateAddsScript, AddScript, Continue, ReturnError, Return
  <2>2. Alike(NotReady(mem), mem) /\ Alike(mem, mem)
    BY AlikeFields, Zenon
  <2>3. \A s \in ScriptIDs : AddStartupScript(s) => Present' \subseteq Present \cup {s}
    BY DEF AddStartupScript, Present, CloudTypeOK
  <2> QED BY <2>1, <2>2, <2>3, Zenon DEF AddStartupScript, cloudVars
<1> QED BY <1>1, <1>2, Zenon

\* Instances.Create: the instance has the script, and boots from the clone if there
\* is one.  The script of an instance that was not created is deleted again.
LEMMA CreateMarks ==
    ASSUME TypeOK, CreateInstance, ~Fault
    PROVE  /\ pc = "create" /\ Alike(mem', mem)
           /\ UseClone => Active' \subseteq Active \cup {mem.osVolumeID}
           /\ \/ /\ pc' = "patchConditions" /\ UNCHANGED <<istatus, iscript>>
                 /\ Present' = Present \ {script}
              \/ /\ pc' = "record" /\ Present' = Present /\ found'.status = "provisioning"
                 /\ \E i \in InstanceIDs : /\ found'.id = i /\ iscript' = [iscript EXCEPT ![i] = script]
                                           /\ \A j \in InstanceIDs \ {i} : istatus'[j] = istatus[j]
<1> mem \in Machines /\ CloudTypeOK
  BY Zenon DEF TypeOK
<1>1. pc = "create" /\ (mem' = mem \/ mem' = NotReady(mem))
  BY Zenon DEF CreateInstance, Instantiate, Continue, ReturnError, Return
<1>2. Alike(mem', mem)
  BY <1>1, AlikeFields, Zenon
<1>3. \/ DeleteScripts({script}) /\ pc' = "patchConditions"
      \/ \E i \in InstanceIDs, v \in BootVolumes :
            /\ InstancesCreate(i, script, v, {}) /\ pc' = "record"
            /\ found' = [id |-> i, status |-> "provisioning"]
  BY Zenon DEF CreateInstance, Instantiate, Continue, ReturnError, Return
<1>4. CASE DeleteScripts({script}) /\ pc' = "patchConditions"
  BY <1>1, <1>2, <1>4, DeleteScriptsFewer, Zenon DEF DeleteScripts, Fewer
<1>5. ASSUME NEW i \in InstanceIDs, NEW v \in BootVolumes, InstancesCreate(i, script, v, {}), pc' = "record",
             found' = [id |-> i, status |-> "provisioning"]
      PROVE  /\ UseClone => Active' \subseteq Active \cup {mem.osVolumeID}
             /\ Present' = Present /\ found'.id = i /\ found'.status = "provisioning"
             /\ \A j \in InstanceIDs \ {i} : istatus'[j] = istatus[j]
             /\ iscript' = [iscript EXCEPT ![i] = script]
  <2>1. Present' = Present
    BY <1>5, Zenon DEF InstancesCreate, Present, CloudTypeOK
  <2>2. ASSUME UseClone PROVE Active' \subseteq Active \cup {mem.osVolumeID}
    <3>1. v = mem.osVolumeID
      BY <2>2, Zenon DEF BootVolumes
    <3> QED BY <1>5, <3>1, Zenon DEF InstancesCreate, Active, CloudTypeOK
  <2> QED BY <1>5, <2>1, <2>2, Zenon DEF InstancesCreate, CloudTypeOK
<1> QED BY <1>1, <1>2, <1>3, <1>4, <1>5, Zenon

\* Recording what was found or created.
LEMMA RecordMarks ==
    ASSUME TypeOK, RecordInstance
    PROVE  /\ pc = "record" /\ pc' \in {"patchConditions", "noCapacity"} /\ found' = found
           /\ UNCHANGED <<istatus, iscript, scripts, vstatus>>
           /\ Alike(mem', Recorded(mem))
<1>1. pc = "record" /\ found' = found /\ UNCHANGED <<istatus, iscript, scripts, vstatus>> /\ found.id # None
  BY Zenon DEF RecordInstance, TagVolume, cloudVars, TypeOK, Holding
<1>2. Recorded(mem) \in Machines /\ [Recorded(mem) EXCEPT !.osReady = TRUE] \in Machines
  BY <1>1, RecordedType, UpdateType, Zenon
<1>3. PICK m \in {Recorded(mem), [Recorded(mem) EXCEPT !.osReady = TRUE]} : Decide(m)
  BY Zenon DEF RecordInstance
<1>4. m \in Machines /\ Alike(m, Recorded(mem))
  BY <1>2, AlikeFields, Zenon
<1>5. /\ pc' \in {"patchConditions", "noCapacity"}
      /\ mem' \in {m, NotReady(m), [m EXCEPT !.ready = TRUE, !.provisioned = TRUE]}
  BY <1>3, Zenon DEF Decide, Return, Continue
<1>6. Alike(mem', m)
  BY <1>4, <1>5, AlikeFields, Zenon
<1> QED BY <1>1, <1>4, <1>5, <1>6, Zenon DEF Alike, Noted

\* An instance without capacity is forgotten, and its script is not.
LEMMA NoCapacityMarks ==
    ASSUME TypeOK, DeleteNoCapacity, ~Fault
    PROVE  /\ pc = "noCapacity" /\ pc' = "patchConditions" /\ Fewer
           /\ Noted(mem', "none", None, mem.scriptID, mem.osVolumeID, mem.finalizer)
<1> DEFINE n == NotReady(mem)
<1>1. /\ pc = "noCapacity" /\ pc' = "patchConditions" /\ DeleteInstance(found.id)
      /\ mem' = [n EXCEPT !.instanceID = None, !.providerID = "none"]
  BY Zenon DEF DeleteNoCapacity, ReturnError, Return
<1>2. n \in Machines /\ Alike(n, mem)
  BY NotReadyType, AlikeFields, Zenon DEF TypeOK
<1>3. Fewer
  BY <1>1, DeleteInstanceFewer, Zenon DEF TypeOK
<1> HIDE DEF n
<1>4. Noted(mem', "none", None, n.scriptID, n.osVolumeID, n.finalizer)
  BY <1>1, <1>2, NotedFields, Zenon
<1> QED BY <1>1, <1>2, <1>3, <1>4, Zenon DEF Alike, Noted

\* resyncInstance, and the calls of reconcileDelete up to the instance.
LEMMA PlainMarks ==
    ASSUME TypeOK, ~Fault,
           \/ ResyncInstance \/ DeleteRequestsInstance \/ DeletePurgesVolumes
           \/ \E elapsed \in BOOLEAN : DeleteFindsInstance(elapsed)
    PROVE  /\ Alike(mem', mem) /\ Fewer /\ pc \in {"resync", "delFind", "delInstance", "purge"}
           /\ pc' \in {"patchConditions", "delInstance", "delScript", "purge"}
           /\ pc' = "delInstance" => pc = "delFind" /\ found' \in findInstance(mem) /\ found'.id # None
<1> mem \in Machines /\ CloudTypeOK
  BY Zenon DEF TypeOK
<1>1. CASE ResyncInstance
  <2>1. pc = "resync" /\ pc' = "patchConditions" /\ UNCHANGED cloudVars /\ \E b : mem' = [mem EXCEPT !.ready = b]
    BY <1>1, Zenon DEF ResyncInstance, ReturnError, Return
  <2> QED BY <2>1, AlikeFields, IdleFewer, Zenon
<1>2. CASE DeleteRequestsInstance \/ DeletePurgesVolumes
  <2>1. /\ pc \in {"delInstance", "purge"} /\ mem' = mem /\ pc' \in {"patchConditions", "delScript"}
        /\ DeleteInstance(found.id) \/ PurgeInstanceVolumes(found.id)
    BY <1>2, Zenon DEF DeleteRequestsInstance, RequestDelete, DeletePurgesVolumes, PurgeVolumes, ReturnError,
       Return, Continue
  <2> QED BY <2>1, AlikeFields, DeleteInstanceFewer, Zenon
<1>3. ASSUME NEW elapsed \in BOOLEAN, DeleteFindsInstance(elapsed)
      PROVE  /\ Alike(mem', mem) /\ Fewer /\ pc = "delFind"
             /\ pc' \in {"patchConditions", "delInstance", "delScript", "purge"}
             /\ pc' = "delInstance" => found' \in findInstance(mem) /\ found'.id # None
  <2>1. /\ pc = "delFind" /\ UNCHANGED cloudVars
        /\ mem' = mem \/ \E st : mem' = [mem EXCEPT !.delReq = st]
        /\ pc' \in {"patchConditions", "delInstance", "delScript", "purge"}
    BY <1>3, Zenon DEF DeleteFindsInstance, ReturnError, Return, Continue
  <2>2. pc' = "delInstance" => found' \in findInstance(mem) /\ ~instanceGone(found'.status)
    BY <1>3, Zenon DEF DeleteFindsInstance, ReturnError, Return, Continue
  <2>3. \A r \in findInstance(mem) : r.id = None => instanceGone(r.status)
    BY FindInstanceType DEF NoInstance, instanceGone
  <2> QED BY <2>1, <2>2, <2>3, AlikeFields, IdleFewer, Zenon
<1> QED BY <1>1, <1>2, <1>3, Zenon

\* Deleting the script: by its recorded name, else every script of the hostname.
LEMMA DeleteScriptMarks ==
    ASSUME TypeOK, acct = "own", DeleteScript, ~Fault
    PROVE  /\ pc = "delScript" /\ pc' = "delVolume" /\ Fewer
           /\ mem.scriptID = None \/ Present \subseteq {mem.scriptID} => Present' = {}
           /\ Noted(mem', mem.providerID, mem.instanceID, None, mem.osVolumeID, mem.finalizer)
<1> mem \in Machines /\ CloudTypeOK
  BY Zenon DEF TypeOK
<1> DEFINE S == IF mem.scriptID # None THEN {mem.scriptID} ELSE Present
<1>1. /\ pc = "delScript" /\ pc' = "delVolume" /\ mem' = [mem EXCEPT !.scriptID = None]
      /\ DeleteScripts(S)
  BY Zenon DEF DeleteScript, Continue, ReturnError
<1>2. Fewer /\ Present' = Present \ S
  BY <1>1, DeleteScriptsFewer, Zenon
<1> QED BY <1>1, <1>2, NotedFields, Zenon

\* Deleting the clone: the finalizer is removed when there is none any more.
LEMMA DeleteVolumeMarks ==
    ASSUME TypeOK, acct = "own", DeleteOSVolume, ~Fault
    PROVE  /\ pc = "delVolume" /\ pc' = "patchConditions" /\ Fewer
           /\ \/ Alike(mem', mem)
              \/ /\ Noted(mem', mem.providerID, mem.instanceID, mem.scriptID, None, FALSE)
                 /\ Active' \subseteq Active \ {mem.osVolumeID}
<1> mem \in Machines /\ CloudTypeOK
  BY Zenon DEF TypeOK
<1> DEFINE v == mem.osVolumeID
<1>1. pc = "delVolume" /\ pc' = "patchConditions"
  BY Zenon DEF DeleteOSVolume, Return, ReturnError
<1>2. \/ mem' = mem /\ UNCHANGED cloudVars
      \/ /\ mem' = Cleaned(mem) /\ UNCHANGED cloudVars
         /\ v # None => GetVolume(v) \cap {"notfound", "deleting", "deleted"} # {}
      \/ mem' = Cleaned(mem) /\ DeleteVolume(v)
  BY Zenon DEF DeleteOSVolume, Return, ReturnError
<1>3. Alike(mem, mem) /\ Noted(Cleaned(mem), mem.providerID, mem.instanceID, mem.scriptID, None, FALSE)
  BY AlikeFields, NotedFields, Zenon
<1>4. CASE mem' = mem /\ UNCHANGED cloudVars
  BY <1>1, <1>3, <1>4, IdleFewer, Zenon
<1>5. CASE /\ mem' = Cleaned(mem) /\ UNCHANGED cloudVars
           /\ v # None => GetVolume(v) \cap {"notfound", "deleting", "deleted"} # {}
  <2>1. v \notin Active
    BY <1>5, NoneAssumption DEF GetVolume, Active
  <2>2. Fewer
    BY <1>5, IdleFewer, Zenon
  <2> QED BY <1>1, <1>3, <1>5, <2>1, <2>2, Zenon DEF Fewer
<1>6. CASE mem' = Cleaned(mem) /\ DeleteVolume(v)
  <2>1. Active' \subseteq Active \ {v}
    BY <1>6 DEF DeleteVolume, Active, CloudTypeOK
  <2>2. Present' = Present /\ iscript' = iscript
    BY <1>6, Zenon DEF DeleteVolume, Present
  <2> QED BY <1>1, <1>3, <1>6, <2>1, <2>2, Zenon DEF Fewer
<1> QED BY <1>2, <1>4, <1>5, <1>6, Zenon

-----------------------------------------------------------------------------
(* The same for the requests of the patch and the surroundings.            *)

\* What the copies agree on, apart from what SafetyInv says of them.
CalmCopy ==
    pc # "idle" => /\ base.scriptID = obj.scriptID /\ base.osVolumeID = obj.osVolumeID
                   /\ pc # "patchStatus" => base.providerID = obj.providerID

\* The conditions, which none of this is about.
LEMMA ConditionsMarks ==
    ASSUME TypeOK, PatchConditions
    PROVE  /\ pc = "patchConditions" /\ pc' = "patchMeta" /\ mem' = mem /\ base' = base /\ UNCHANGED cloudVars
           /\ Alike(obj', obj) /\ obj'.exists = obj.exists
<1>1. pc = "patchConditions" /\ pc' = "patchMeta" /\ mem' = mem /\ base' = base /\ UNCHANGED cloudVars
  BY Zenon DEF PatchConditions, PatchRequest, PatchFrame
<1>2. obj' = obj \/ \E a, b : obj' = [obj EXCEPT !.ready = a, !.osReady = b]
  BY Zenon DEF PatchConditions, PatchRequest
<1>3. ASSUME NEW a, NEW b, obj' = [obj EXCEPT !.ready = a, !.osReady = b]
      PROVE  Alike(obj', obj) /\ obj'.exists = obj.exists
  <2>1. obj \in Machines
    BY Zenon DEF TypeOK
  <2> QED BY <1>3, <2>1, Zenon DEF Machines, Alike, Noted
<1>4. obj' = obj => Alike(obj', obj) /\ obj'.exists = obj.exists
  BY Zenon DEF Alike, Noted
<1> QED BY <1>1, <1>2, <1>3, <1>4, Zenon

\* The metadata and the spec: the webhook refuses the request when the object has
\* another providerID already.  Else the object gets that of the copy, and loses
\* the finalizer if the copy has.
LEMMA MetaMarks ==
    ASSUME SafetyInv, CalmCopy, PatchMeta, ~Fault
    PROVE  /\ pc = "patchMeta" /\ pc' = "patchStatus" /\ mem' = mem /\ base' = base /\ UNCHANGED cloudVars
           /\ obj.exists /\ obj.finalizer
           /\ obj'.instanceID = obj.instanceID /\ obj'.scriptID = obj.scriptID /\ obj'.osVolumeID = obj.osVolumeID
           /\ \/ obj' = obj /\ obj.providerID # "none" /\ mem.providerID # obj.providerID
              \/ /\ obj'.providerID = mem.providerID /\ obj.providerID \in {"none", mem.providerID}
                 /\ ~mem.finalizer \/ (obj'.finalizer /\ obj'.exists)
<1> obj \in Machines /\ mem \in Machines /\ base \in Machines
  BY Zenon DEF SafetyInv, TypeOK
<1>1. pc = "patchMeta" /\ pc' = "patchStatus" /\ mem' = mem /\ base' = base /\ UNCHANGED cloudVars
  BY Zenon DEF PatchMeta, PatchRequest, PatchFrame
<1>2. obj.exists /\ obj.finalizer /\ base.finalizer /\ base.providerID = obj.providerID
  BY <1>1, Zenon DEF SafetyInv, FinalizerGoesLast, CopyIsCurrent, CalmCopy
<1> DEFINE p == Merge(mem.providerID, base.providerID, obj.providerID)
           k == Merge(mem.finalizer, base.finalizer, obj.finalizer)
           e == k \/ ~obj.deleting
           q == Merge(mem.delReq, base.delReq, obj.delReq)
           n == [obj EXCEPT !.providerID = p, !.delReq = q, !.finalizer = k, !.exists = e]
<1>3. p = mem.providerID /\ (mem.finalizer => k)
  BY <1>2, Zenon DEF Merge, Machines
<1>4. (obj' = n /\ obj.providerID \in {"none", p}) \/ (obj' = obj /\ obj.providerID \notin {"none", p})
  BY <1>2, Zenon DEF PatchMeta, PatchRequest, ProviderIDImmutable
<1>5. Noted(n, p, obj.instanceID, obj.scriptID, obj.osVolumeID, k) /\ n.exists = e
  <2> HIDE DEF p, k, e, q
  <2> QED BY Zenon DEF Machines, Noted
<1> HIDE DEF n, p, q
<1> QED BY <1>1, <1>2, <1>3, <1>4, <1>5, Zenon DEF Noted

\* The status: the object gets what the copy has.
LEMMA StatusMarks ==
    ASSUME SafetyInv, CalmCopy, PatchStatus, ~Fault
    PROVE  /\ pc = "patchStatus" /\ pc' = "idle" /\ mem' = NewMachine /\ UNCHANGED cloudVars
           /\ \/ obj' = obj /\ ~obj.exists
              \/ /\ Noted(obj', obj.providerID, mem.instanceID, mem.scriptID, mem.osVolumeID, obj.finalizer)
                 /\ obj.exists /\ obj'.exists
<1> obj \in Machines
  BY Zenon DEF SafetyInv, TypeOK
<1>1. pc = "patchStatus" /\ pc' = "idle" /\ mem' = NewMachine /\ UNCHANGED cloudVars
  BY Zenon DEF PatchStatus
<1>2. base.instanceID = obj.instanceID /\ base.scriptID = obj.scriptID /\ base.osVolumeID = obj.osVolumeID
  BY <1>1, Zenon DEF SafetyInv, CopyIsCurrent, CalmCopy
<1> DEFINE i == Merge(mem.instanceID, base.instanceID, obj.instanceID)
           s == Merge(mem.scriptID, base.scriptID, obj.scriptID)
           v == Merge(mem.osVolumeID, base.osVolumeID, obj.osVolumeID)
           q == Merge(mem.provisioned, base.provisioned, obj.provisioned)
           n == [obj EXCEPT !.instanceID = i, !.scriptID = s, !.osVolumeID = v, !.provisioned = q]
<1>3. i = mem.instanceID /\ s = mem.scriptID /\ v = mem.osVolumeID
  BY <1>2, Zenon DEF Merge
<1>4. (obj.exists /\ obj' = n) \/ (~obj.exists /\ obj' = obj)
  BY Zenon DEF PatchStatus
<1>5. Noted(n, obj.providerID, i, s, v, obj.finalizer) /\ n.exists = obj.exists
  <2> HIDE DEF i, s, v, q
  <2> QED BY Zenon DEF Machines, Noted
<1> HIDE DEF n, i, s, v
<1> QED BY <1>1, <1>3, <1>4, <1>5, Zenon

\* The start of a reconcile: with a current cache the copies are the object.
LEMMA StartMarks ==
    ASSUME SafetyInv, "stale" \notin Env, ReconcileStarts
    PROVE  /\ pc = "idle" /\ pc' \in {"find", "resync", "delFind", "patchConditions"} /\ UNCHANGED <<cloudVars, obj>>
           /\ base' = obj /\ Alike(mem', obj) /\ obj.finalizer /\ obj.exists
<1>1. pc = "idle" /\ cache = obj /\ UNCHANGED <<cloudVars, obj>> /\ base' = obj
  BY Zenon DEF ReconcileStarts, CanStart
<1>2. pc' \in {"find", "resync", "delFind", "patchConditions"} /\ (mem' = obj \/ mem' = NotReady(obj))
  BY <1>1, Zenon DEF ReconcileStarts
<1>3. Alike(mem', obj)
  BY <1>2, AlikeFields, Zenon DEF SafetyInv, TypeOK
<1>4. obj.exists /\ obj.finalizer
  BY <1>1, Zenon DEF ReconcileStarts, Waits, NeedsFinalizer, SafetyInv, FinalizerGoesLast
<1> QED BY <1>1, <1>2, <1>3, <1>4, Zenon

\* The other steps leave the running reconcile and what is written down alone.
LEMMA AsideMarks ==
    ASSUME SafetyInv, "stale" \notin Env, [Next]_vars, ~(Create \/ Delete), ~Crash,
           ~(ReconcileStarts \/ PatchConditions \/ PatchMeta \/ PatchStatus)
    PROVE  /\ UNCHANGED scope /\ Fewer
           /\ Noted(obj', obj.providerID, obj.instanceID, obj.scriptID, obj.osVolumeID, obj'.finalizer)
           /\ (obj'.finalizer <=> obj.finalizer) \/ (obj'.finalizer /\ pc = "idle")
           /\ obj'.exists = obj.exists \/ (~obj.finalizer /\ ~obj'.exists)
<1> obj \in Machines /\ CloudTypeOK
  BY Zenon DEF SafetyInv, TypeOK
<1>1. CASE ReconcileWaits \/ CacheSync \/ GateOpens \/ OwnerVanishes \/ PauseToggles \/ ForeignToggles \/ CloudMoves \/ UNCHANGED vars
  <2>1. UNCHANGED <<obj, scope>>
    BY <1>1, Zenon DEF ReconcileWaits, CacheSync, GateOpens, OwnerVanishes, PauseToggles, ForeignToggles, CloudMoves,
       Outside, k8sVars, vars
  <2>2. UNCHANGED cloudVars \/ CloudStep
    BY <1>1, Zenon DEF ReconcileWaits, CacheSync, GateOpens, OwnerVanishes, PauseToggles, ForeignToggles, CloudMoves,
       Outside, vars
  <2> QED BY <2>1, <2>2, IdleFewer, CloudStepFewer, Zenon DEF Noted
<1>2. CASE EnsureFinalizer
  <2>1. UNCHANGED <<cloudVars, scope>> /\ pc = "idle" /\ obj.exists /\ (obj' = obj \/ obj' = [obj EXCEPT !.finalizer = obj.exists])
    BY <1>2, Zenon DEF EnsureFinalizer, CanStart, NeedsFinalizer
  <2>2. CASE obj' = obj
    BY <2>1, <2>2, IdleFewer, Zenon DEF Noted
  <2>3. CASE obj' = [obj EXCEPT !.finalizer = obj.exists]
    <3> DEFINE a == obj.exists
    <3> HIDE DEF a
    <3>1. obj' = [obj EXCEPT !.finalizer = a]
      BY <2>3, Zenon DEF a
    <3>2. Noted(obj', obj.providerID, obj.instanceID, obj.scriptID, obj.osVolumeID, a) /\ obj'.exists = obj.exists
      BY <3>1, Zenon DEF Machines, Noted
    <3>3. obj'.finalizer = obj.exists
      BY <3>2, Zenon DEF Noted, a
    <3> QED BY <2>1, <3>2, <3>3, IdleFewer, Zenon DEF Noted
  <2> QED BY <2>1, <2>2, <2>3, Zenon
<1>3. CASE UserDeletes
  <2>1. UNCHANGED <<cloudVars, scope>>
    BY <1>3, Zenon DEF UserDeletes, Outside
  <2>2. CASE obj.finalizer
    <3>1. obj' = [obj EXCEPT !.deleting = TRUE]
      BY <1>3, <2>2, Zenon DEF UserDeletes
    <3>2. Alike(obj', obj) /\ obj'.exists = obj.exists
      BY <3>1, Zenon DEF Machines, Alike, Noted
    <3> QED BY <2>1, <3>2, IdleFewer, Zenon DEF Alike, Noted
  <2>3. CASE ~obj.finalizer
    <3>1. obj' = [obj EXCEPT !.exists = FALSE]
      BY <1>3, <2>3, Zenon DEF UserDeletes
    <3>2. Alike(obj', obj) /\ obj'.exists = FALSE
      BY <3>1, Zenon DEF Machines, Alike, Noted
    <3> QED BY <2>1, <2>3, <3>2, IdleFewer, Zenon DEF Alike, Noted
  <2> QED BY <2>2, <2>3, Zenon
<1> QED BY <1>1, <1>2, <1>3, Zenon DEF Next, Controller, Surroundings

-----------------------------------------------------------------------------
(* While no call fails and the manager does not crash.                     *)

\* What is left of the two budgets.
Budget == faults <= MaxFaults /\ crashes <= MaxCrashes

\* Every step spends a fault, a crash or nothing.
LEMMA Spends == ASSUME [Next]_vars PROVE (NoFault \/ Fault) /\ (UNCHANGED crashes \/ Crash)
<1>1. CASE Create \/ Delete
  <2>1. NoFault \/ Fault
    <3>1. CASE FindInstance \/ LookUpVolume \/ CloneOSVolume \/ TagOSVolume
      BY <3>1, Zenon DEF FindInstance, LookUpVolume, CloneOSVolume, TagOSVolume, TagMayFail, ReturnError
    <3>2. CASE CreateChecksHostname \/ CreateAddsScript \/ CreateInstance
      BY <3>2, Zenon DEF CreateChecksHostname, CreateAddsScript, CreateInstance, RemoveOldScripts, AddScript,
         Instantiate, ReturnError
    <3>3. CASE RecordInstance \/ DeleteNoCapacity \/ ResyncInstance
      BY <3>3, Zenon DEF RecordInstance, DeleteNoCapacity, ResyncInstance, TagMayFail, ReturnError
    <3>4. CASE Delete
      BY <3>4, Zenon DEF Delete, DeleteFindsInstance, DeleteRequestsInstance, DeletePurgesVolumes, DeleteScript,
         DeleteOSVolume, RequestDelete, PurgeVolumes, ReturnError
    <3> QED BY <1>1, <3>1, <3>2, <3>3, <3>4, Zenon DEF Create
  <2>2. Inside
    BY <1>1, Zenon DEF Create, Delete, FindInstance, LookUpVolume, CloneOSVolume, TagOSVolume, CreateChecksHostname,
       CreateAddsScript, CreateInstance, RecordInstance, DeleteNoCapacity, ResyncInstance, DeleteFindsInstance,
       DeleteRequestsInstance, DeletePurgesVolumes, DeleteScript, DeleteOSVolume
  <2> QED BY <2>1, <2>2, Zenon DEF Inside
<1>2. CASE ReconcileWaits \/ EnsureFinalizer \/ ReconcileStarts
  BY <1>2, Zenon DEF ReconcileWaits, EnsureFinalizer, ReconcileStarts, NoFault
<1>3. CASE PatchConditions \/ PatchMeta \/ PatchStatus
  BY <1>3, Zenon DEF PatchConditions, PatchMeta, PatchStatus, PatchRequest, PatchFrame, NoFault
<1>4. CASE Surroundings \/ UNCHANGED vars
  BY <1>4, Zenon DEF Surroundings, CacheSync, UserDeletes, GateOpens, OwnerVanishes, PauseToggles, ForeignToggles,
     CloudMoves, Crash, Outside, NoFault, vars
<1> QED BY <1>1, <1>2, <1>3, <1>4, Zenon DEF Next, Controller

\* What is undisturbed after a step was so before it, and nothing failed in it.
LEMMA CalmStep ==
    ASSUME TypeOK, Budget, [Next]_vars
    PROVE  /\ Budget'
           /\ Undisturbed' => Undisturbed /\ ~Fault /\ ~Crash
<1> faults \in Nat /\ crashes \in Nat /\ MaxFaults \in Nat /\ MaxCrashes \in Nat
  BY BoundsAssumption, Zenon DEF TypeOK
<1>2. faults' = faults \/ (faults > 0 /\ faults' = faults - 1)
  BY Spends, Zenon DEF NoFault, Fault
<1>3. crashes' = crashes \/ (crashes > 0 /\ crashes' = crashes - 1)
  BY Spends, Zenon DEF Crash
<1>4. Budget'
  BY <1>2, <1>3 DEF Budget
<1>5. Undisturbed' => faults' = faults /\ crashes' = crashes /\ Undisturbed
  BY <1>2, <1>3 DEF Budget, Undisturbed
<1>6. faults' = faults => ~Fault
  BY DEF Fault
<1>7. crashes' = crashes => ~Crash
  BY DEF Crash
<1> QED BY <1>4, <1>5, <1>6, <1>7, Zenon

\* The copies keep agreeing.
LEMMA CopyStays ==
    ASSUME SafetyInv, "stale" \notin Env, CalmCopy, [Next]_vars, ~Fault, ~Crash PROVE CalmCopy'
<1> TypeOK
  BY Zenon DEF SafetyInv
<1>1. CASE Create \/ Delete
  BY <1>1, CallFrame, Zenon DEF CalmCopy, Patching
<1>2. CASE ReconcileStarts
  BY <1>2, StartMarks, Zenon DEF CalmCopy
<1>3. CASE PatchConditions
  BY <1>3, ConditionsMarks, Zenon DEF CalmCopy, Alike, Noted
<1>4. CASE PatchMeta
  BY <1>4, MetaMarks, Zenon DEF CalmCopy
<1>5. CASE PatchStatus
  BY <1>5, StatusMarks, Zenon DEF CalmCopy
<1>6. CASE ~(Create \/ Delete) /\ ~(ReconcileStarts \/ PatchConditions \/ PatchMeta \/ PatchStatus)
  BY <1>6, AsideMarks, Zenon DEF CalmCopy, Noted, scope
<1> QED BY <1>1, <1>2, <1>3, <1>4, <1>5, <1>6, Zenon

\* The providerID of an instance that is not found reaches the object only after
\* that of the node, and the webhook then refuses it.
CalmProvider ==
    /\ obj.providerID # "bare"
    /\ obj.instanceID # None => obj.providerID = "node"
    /\ pc = "record" /\ found.status = "notfound" => obj.providerID = "node"
    /\ pc # "idle" /\ mem.providerID = "bare" => obj.providerID = "node"
    /\ pc # "idle" /\ mem.instanceID # None => mem.providerID # "none"
    /\ pc = "patchStatus" /\ obj.exists /\ mem.instanceID # None => obj.providerID = "node"

\* The calls keep it: only a recorded instance can be not found.
LEMMA CallsKeepProvider ==
    ASSUME SafetyInv, CalmProvider, Create \/ Delete, ~Fault PROVE CalmProvider'
<1> TypeOK /\ acct = "own"
  BY Zenon DEF SafetyInv, CopyIsCurrent
<1>1. obj' = obj /\ pc # "idle" /\ pc' # "patchStatus"
  BY CallFrame, Zenon
<1>2. ASSUME mem'.providerID = mem.providerID, mem'.instanceID = mem.instanceID, pc' # "record" PROVE CalmProvider'
  BY <1>1, <1>2, Zenon DEF CalmProvider
<1>3. CASE FindInstance
  <2>1. pc = "find" /\ Alike(mem', mem)
    BY <1>3, FindMarks, Zenon
  <2>2. PICK r \in findInstance(mem) :
           found' = r /\ pc' = IF r.id # None THEN "record" ELSE IF UseClone THEN "volume" ELSE "script"
    BY <1>3, FindMarks, Zenon
  <2>3. r.id # None /\ r.status = "notfound" => mem.instanceID # None
    BY FindInstanceType, Zenon DEF LiveStatus
  <2>4. mem.instanceID = obj.instanceID
    BY <2>1, Zenon DEF SafetyInv, CopyIsCurrent, Looking
  <2>5. pc' = "record" /\ found'.status = "notfound" => obj.providerID = "node"
    BY <2>2, <2>3, <2>4, Zenon DEF CalmProvider
  <2> QED BY <1>1, <2>1, <2>5, Zenon DEF CalmProvider, Alike, Noted
<1>4. CASE LookUpVolume
  BY <1>2, <1>4, VolumeMarks, Zenon DEF Alike, Noted
<1>5. CASE CloneOSVolume
  BY <1>2, <1>5, CloneMarks, Zenon DEF Alike, Noted
<1>6. CASE TagOSVolume
  BY <1>2, <1>6, TagMarks, Zenon DEF Alike, Noted
<1>7. CASE CreateChecksHostname \/ CreateAddsScript
  BY <1>2, <1>7, ScriptMarks, Zenon DEF Alike, Noted
<1>8. CASE CreateInstance
  BY <1>1, <1>8, CreateMarks, Zenon DEF CalmProvider, Alike, Noted
<1>9. CASE RecordInstance
  <2>1. mem \in Machines
    BY Zenon DEF TypeOK
  <2>2. /\ mem'.providerID = IF found.status = "notfound" THEN "bare" ELSE "node"
        /\ pc = "record" /\ pc' # "record"
    BY <1>9, <2>1, RecordMarks, RecordedFields, Zenon DEF Alike, Noted
  <2> QED BY <1>1, <2>2, Zenon DEF CalmProvider
<1>10. CASE DeleteNoCapacity
  BY <1>1, <1>10, NoCapacityMarks, Zenon DEF CalmProvider, Noted
<1>11. CASE \/ ResyncInstance \/ DeleteRequestsInstance \/ DeletePurgesVolumes
            \/ \E elapsed \in BOOLEAN : DeleteFindsInstance(elapsed)
  BY <1>2, <1>11, PlainMarks, Zenon DEF Alike, Noted
<1>12. CASE DeleteScript
  BY <1>2, <1>12, DeleteScriptMarks, Zenon DEF Alike, Noted
<1>13. CASE DeleteOSVolume
  BY <1>2, <1>13, DeleteVolumeMarks, Zenon DEF Alike, Noted
<1> QED BY <1>3, <1>4, <1>5, <1>6, <1>7, <1>8, <1>9, <1>10, <1>11, <1>12, <1>13, Zenon DEF Create, Delete

\* So do all other steps.
LEMMA ProviderStays ==
    ASSUME SafetyInv, "stale" \notin Env, CalmCopy, CalmProvider, [Next]_vars, ~Fault, ~Crash PROVE CalmProvider'
<1> TypeOK /\ obj.providerID \in {"none", "node", "bare"} /\ mem.providerID \in {"none", "node", "bare"}
  BY Zenon DEF SafetyInv, TypeOK, Machines, ProviderIDs
<1>1. CASE Create \/ Delete
  BY <1>1, CallsKeepProvider, Zenon
<1>2. CASE ReconcileStarts
  BY <1>2, StartMarks, Zenon DEF CalmProvider, Alike, Noted
<1>3. CASE PatchConditions
  BY <1>3, ConditionsMarks, Zenon DEF CalmProvider, Alike, Noted
<1>4. CASE PatchMeta
  <2>1. /\ pc = "patchMeta" /\ pc' = "patchStatus" /\ mem' = mem /\ obj'.instanceID = obj.instanceID
        /\ \/ obj' = obj /\ obj.providerID # "none"
           \/ obj'.providerID = mem.providerID /\ obj.providerID \in {"none", mem.providerID}
    BY <1>4, MetaMarks, Zenon
  <2> QED BY <2>1, Zenon DEF CalmProvider
<1>5. CASE PatchStatus
  <2>1. pc = "patchStatus" /\ pc' = "idle"
    BY <1>5, StatusMarks, Zenon
  <2> QED BY <1>5, <2>1, StatusMarks, Zenon DEF CalmProvider, Noted
<1>6. CASE ~(Create \/ Delete) /\ ~(ReconcileStarts \/ PatchConditions \/ PatchMeta \/ PatchStatus)
  <2>1. /\ pc' = pc /\ mem' = mem /\ found' = found /\ obj'.providerID = obj.providerID
        /\ obj'.instanceID = obj.instanceID
    BY <1>6, AsideMarks, Zenon DEF Noted, scope
  <2>2. obj'.exists => obj.exists
    BY <1>6, AsideMarks, Zenon
  <2> QED BY <2>1, <2>2, Zenon DEF CalmProvider
<1> QED BY <1>1, <1>2, <1>3, <1>4, <1>5, <1>6, Zenon

\* A script ID that a delete can rely on: all scripts there are, or none.
Named(s) == s = None \/ Present \subseteq {s}

\* Neither the object nor the copy is about to go.
Guarded == obj.finalizer /\ obj.exists /\ (pc # "idle" => mem.finalizer)

\* Whatever names a script names the only one there is, so that reconcileDelete
\* finds it by the recorded ID; an object that may go leaves none.
CalmScripts ==
    /\ ~Guarded \/ pc \in {"addScript", "delVolume"} => Present = {}
    /\ pc = "create" => Present \subseteq {script}
    /\ pc = "record" => Named(Recorded(mem).scriptID)
    /\ pc \notin {"idle", "create", "record"} => Named(mem.scriptID)
    /\ pc = "idle" => Named(obj.scriptID)
    /\ \A i \in InstanceIDs :
          Live(i) \/ i \in {obj.instanceID, mem.instanceID} \/ (pc \in Holding /\ i = found.id) => Named(iscript[i])

\* Without a script all of that holds.
LEMMA EmptyScripts == ASSUME Present' = {} PROVE CalmScripts'
<1>1. \A s : s = None \/ Present' \subseteq {s}
  BY Zenon
<1> QED BY <1>1, Zenon DEF CalmScripts, Named

\* A call that neither adds a script nor names another.
LEMMA PlainScripts ==
    ASSUME SafetyInv, CalmScripts, Create \/ Delete, NoneBorn,
           Present' \subseteq Present, iscript' = iscript,
           mem'.instanceID = mem.instanceID, mem'.scriptID = mem.scriptID, mem'.finalizer = mem.finalizer,
           pc \notin {"create", "record"},
           pc' \notin {"addScript", "delVolume", "create", "record", "noCapacity"},
           pc' = "delInstance" => found' \in findInstance(mem) /\ found'.id # None
    PROVE  CalmScripts'
<1> TypeOK
  BY Zenon DEF SafetyInv
<1>1. obj' = obj /\ pc # "idle" /\ pc \notin Patching /\ pc' # "idle"
  BY CallFrame, Zenon
<1>2. \A s : Named(s) => s = None \/ Present' \subseteq {s}
  BY Zenon DEF Named
<1>3. obj.finalizer /\ obj.exists /\ mem.finalizer
  BY <1>1, Zenon DEF SafetyInv, FinalizerGoesLast, Patching
<1>4. Named(mem.scriptID)'
  BY <1>1, <1>2, Zenon DEF CalmScripts, Named
<1>5. ASSUME NEW i \in InstanceIDs,
             Live(i)' \/ i \in {obj'.instanceID, mem'.instanceID} \/ (pc' \in Holding /\ i = found'.id)
      PROVE  Named(iscript[i])'
  <2>1. Live(i) \/ i \in {obj.instanceID, mem.instanceID}
    <3>1. pc' \in Holding => found' \in findInstance(mem) /\ found'.id # None
      BY Zenon DEF Holding
    <3>2. ASSUME pc' \in Holding PROVE found'.id = mem.instanceID \/ istatus[found'.id] \in LiveStatus
      BY <3>1, <3>2, FindInstanceType, Zenon
    <3> QED BY <1>1, <1>5, <3>2, Zenon DEF Live, NoneBorn
  <2> QED BY <1>2, <2>1, Zenon DEF CalmScripts, Named
<1> QED BY <1>1, <1>3, <1>4, <1>5, Zenon DEF CalmScripts, Guarded

\* The look-up names the script of the instance it returns.
LEMMA FindKeepsScripts ==
    ASSUME SafetyInv, CalmScripts, NoneBorn, FindInstance, ~Fault PROVE CalmScripts'
<1> TypeOK /\ mem \in Machines /\ mem' \in Machines
  BY LookUpType, Zenon DEF SafetyInv, TypeOK
<1>1. pc = "find" /\ Alike(mem', mem) /\ Present' \subseteq Present /\ iscript' = iscript
  BY FindMarks, IdleFewer, Zenon DEF Fewer
<1>2. PICK r \in findInstance(mem) :
         found' = r /\ pc' = IF r.id # None THEN "record" ELSE IF UseClone THEN "volume" ELSE "script"
  BY FindMarks, Zenon
<1>3. CASE r.id = None
  BY <1>1, <1>2, <1>3, PlainScripts, Zenon DEF Create, Alike, Noted
<1>4. CASE r.id # None
  <2>1. pc' = "record" /\ obj' = obj
    BY <1>2, <1>4, CallFrame, Zenon DEF Create
  <2>2. \A s : Named(s) => s = None \/ Present' \subseteq {s}
    BY <1>1, Zenon DEF Named
  <2>3. obj.finalizer /\ obj.exists /\ mem.finalizer
    BY <1>1, Zenon DEF SafetyInv, FinalizerGoesLast, Patching
  <2>4. r.id \in InstanceIDs /\ (Live(r.id) \/ r.id = mem.instanceID)
    <3>1. r \in [id: InstanceIDs \cup {None}, status: ReportedStatus]
      BY FindInstanceType, Zenon
    <3>2. r.id \in InstanceIDs
      BY <1>4, <3>1
    <3> QED BY <1>4, <3>2, FindInstanceType, Zenon DEF Live
  <2>5. Named(iscript[r.id]) /\ Named(mem.scriptID)
    BY <1>1, <2>4, Zenon DEF CalmScripts
  <2>6. Recorded(mem)'.scriptID \in {iscript[r.id], mem.scriptID}
    <3>1. Recorded(mem)'.scriptID =
             IF found'.status # "notfound" /\ iscript'[found'.id] # None THEN iscript'[found'.id] ELSE mem'.scriptID
      BY Zenon DEF Recorded, Machines
    <3> QED BY <1>1, <1>2, <3>1, Zenon DEF Alike, Noted
  <2>7. Named(Recorded(mem).scriptID)'
    BY <2>2, <2>5, <2>6, Zenon DEF Named
  <2>8. ASSUME NEW i \in InstanceIDs,
               Live(i)' \/ i \in {obj'.instanceID, mem'.instanceID} \/ (pc' \in Holding /\ i = found'.id)
        PROVE  Named(iscript[i])'
    <3>1. Live(i) \/ i \in {obj.instanceID, mem.instanceID}
      BY <1>1, <1>2, <2>1, <2>4, <2>8, Zenon DEF Live, NoneBorn, Alike, Noted
    <3> QED BY <1>1, <2>2, <3>1, Zenon DEF CalmScripts, Named
  <2> QED BY <1>1, <2>1, <2>3, <2>7, <2>8, Zenon DEF CalmScripts, Guarded, Alike, Noted
<1> QED BY <1>3, <1>4, Zenon

\* From the new script to the record of the instance that boots with it.
LEMMA CreateKeepsScripts ==
    ASSUME SafetyInv, SafetyInv', CalmScripts, CreateAddsScript \/ CreateInstance, ~Fault,
           ~CreateInstance => NoneBorn
    PROVE  CalmScripts'
<1> TypeOK /\ mem \in Machines /\ mem' \in Machines
  BY Zenon DEF SafetyInv, TypeOK
<1>1. obj' = obj /\ pc \in {"addScript", "create"}
  BY CallFrame, Zenon DEF Create, CreateAddsScript, CreateInstance
<1>2. obj.finalizer /\ obj.exists /\ mem.finalizer
  BY <1>1, Zenon DEF SafetyInv, FinalizerGoesLast, Patching
<1>3. mem.instanceID = None /\ obj.instanceID = None /\ (\A i \in InstanceIDs : ~Live(i)) /\ None \notin InstanceIDs
  BY <1>1, NoneAssumption, Zenon DEF SafetyInv, CopyIsCurrent, CreatesOnlyWhenNone, Creating, Looking, NoLive
<1>4. CASE CreateAddsScript
  <2>1. pc = "addScript"
    BY <1>4, Zenon DEF CreateAddsScript
  <2>2. Present = {}
    BY <2>1, Zenon DEF CalmScripts
  <2>3. CASE pc' = "patchConditions"
    BY <1>4, <2>1, <2>2, <2>3, ScriptMarks, EmptyScripts, Zenon DEF Present
  <2>4. CASE pc' # "patchConditions"
    <3>1. pc' = "create" /\ Present' \subseteq {script'} /\ Alike(mem', mem) /\ UNCHANGED istatus
      BY <1>4, <2>1, <2>2, <2>4, ScriptMarks, Zenon
    <3> QED BY <1>1, <1>2, <1>3, <3>1, Zenon DEF CalmScripts, Guarded, Alike, Noted, Live, Holding
  <2> QED BY <2>3, <2>4, Zenon
<1>5. CASE CreateInstance
  <2>1. pc = "create" /\ Alike(mem', mem) /\ Present \subseteq {script}
    BY <1>5, CreateMarks, Zenon DEF CalmScripts
  <2>2. CASE pc' = "patchConditions"
    <3>1. Present' = Present \ {script}
      BY <1>5, <2>2, CreateMarks, Zenon
    <3> QED BY <2>1, <3>1, EmptyScripts, Zenon
  <2>3. CASE pc' # "patchConditions"
    <3>1. pc' = "record" /\ Present' = Present /\ found'.status = "provisioning"
      BY <1>5, <2>3, CreateMarks, Zenon
    <3>2. PICK i \in InstanceIDs : /\ found'.id = i /\ iscript' = [iscript EXCEPT ![i] = script]
                                   /\ \A j \in InstanceIDs \ {i} : istatus'[j] = istatus[j]
      BY <1>5, <2>3, CreateMarks, Zenon
    <3>3. iscript'[i] = script
      BY <3>2, Zenon DEF TypeOK, CloudTypeOK
    <3>4. Present' \subseteq {script} /\ Present' \subseteq ScriptIDs /\ None \notin ScriptIDs
      BY <2>1, <3>1, NoneAssumption, Zenon DEF Present
    <3>5. CASE script = None
      <4>1. Present' = {}
        BY <3>4, <3>5, Zenon
      <4> QED BY <4>1, EmptyScripts, Zenon
    <3>6. CASE script # None
      <4>1. Recorded(mem)'.scriptID =
               IF found'.status # "notfound" /\ iscript'[found'.id] # None THEN iscript'[found'.id] ELSE mem'.scriptID
        BY Zenon DEF Recorded, Machines
      <4>2. Recorded(mem)'.scriptID = script
        BY <3>1, <3>2, <3>3, <3>6, <4>1, Zenon
      <4>3. ASSUME NEW j \in InstanceIDs,
                   Live(j)' \/ j \in {obj'.instanceID, mem'.instanceID} \/ (pc' \in Holding /\ j = found'.id)
            PROVE  j = i
        BY <1>1, <1>3, <2>1, <3>2, <4>3, Zenon DEF Live, Alike, Noted
      <4>4. \A j \in InstanceIDs :
              Live(j)' \/ j \in {obj'.instanceID, mem'.instanceID} \/ (pc' \in Holding /\ j = found'.id)
                => Named(iscript[j])'
        BY <3>3, <3>4, <4>3, Zenon DEF Named
      <4> QED BY <1>1, <1>2, <2>1, <3>1, <3>4, <4>2, <4>4, Zenon DEF CalmScripts, Guarded, Alike, Noted, Named
    <3> QED BY <3>5, <3>6, Zenon
  <2> QED BY <2>2, <2>3, Zenon
<1> QED BY <1>4, <1>5, Zenon

\* The record, and forgetting an instance without capacity.
LEMMA RecordKeepsScripts ==
    ASSUME SafetyInv, CalmScripts, NoneBorn, RecordInstance \/ DeleteNoCapacity, ~Fault PROVE CalmScripts'
<1> TypeOK /\ mem \in Machines
  BY Zenon DEF SafetyInv, TypeOK
<1>1. obj' = obj /\ pc \in {"record", "noCapacity"} /\ pc \in Holding
  BY CallFrame, Zenon DEF Create, RecordInstance, DeleteNoCapacity, Holding
<1>2. obj.finalizer /\ obj.exists /\ mem.finalizer
  BY <1>1, Zenon DEF SafetyInv, FinalizerGoesLast, Patching
<1>3. CASE RecordInstance
  <2>1. /\ pc = "record" /\ pc' \in {"patchConditions", "noCapacity"} /\ found' = found
        /\ iscript' = iscript /\ Present' = Present
        /\ mem'.instanceID = found.id /\ mem'.scriptID = Recorded(mem).scriptID /\ mem'.finalizer = mem.finalizer
    BY <1>3, RecordMarks, RecordedFields, Zenon DEF Alike, Noted, Present
  <2>2. Named(mem.scriptID)'
    BY <2>1, Zenon DEF CalmScripts, Named
  <2>3. ASSUME NEW i \in InstanceIDs,
               Live(i)' \/ i \in {obj'.instanceID, mem'.instanceID} \/ (pc' \in Holding /\ i = found'.id)
        PROVE  Named(iscript[i])'
    <3>1. Live(i) \/ i \in {obj.instanceID, mem.instanceID} \/ (pc \in Holding /\ i = found.id)
      BY <1>1, <2>1, <2>3, Zenon DEF Live, NoneBorn
    <3> QED BY <2>1, <3>1, Zenon DEF CalmScripts, Named
  <2> QED BY <1>1, <1>2, <2>1, <2>2, <2>3, Zenon DEF CalmScripts, Guarded
<1>4. CASE DeleteNoCapacity
  <2>1. /\ pc = "noCapacity" /\ pc' = "patchConditions" /\ Present' \subseteq Present /\ iscript' = iscript
        /\ mem'.instanceID = None /\ mem'.scriptID = mem.scriptID /\ mem'.finalizer = mem.finalizer
    BY <1>4, NoCapacityMarks, Zenon DEF Noted, Fewer
  <2>2. Named(mem.scriptID)'
    BY <2>1, Zenon DEF CalmScripts, Named
  <2>3. ASSUME NEW i \in InstanceIDs,
               Live(i)' \/ i \in {obj'.instanceID, mem'.instanceID} \/ (pc' \in Holding /\ i = found'.id)
        PROVE  Named(iscript[i])'
    <3>1. Live(i) \/ i = obj.instanceID
      BY <1>1, <2>1, <2>3, NoneAssumption, Zenon DEF Live, NoneBorn, Holding
    <3> QED BY <2>1, <3>1, Zenon DEF CalmScripts, Named
  <2> QED BY <1>1, <1>2, <2>1, <2>2, <2>3, Zenon DEF CalmScripts, Guarded
<1> QED BY <1>3, <1>4, Zenon

\* Every call of a reconcile.
LEMMA CallsKeepScripts ==
    ASSUME SafetyInv, SafetyInv', CalmScripts, Create \/ Delete, ~Fault, ~CreateInstance => NoneBorn
    PROVE  CalmScripts'
<1> TypeOK /\ acct = "own"
  BY Zenon DEF SafetyInv, CopyIsCurrent
<1> DEFINE Same == /\ mem'.instanceID = mem.instanceID /\ mem'.scriptID = mem.scriptID
                   /\ mem'.finalizer = mem.finalizer /\ iscript' = iscript
<1>1. ASSUME Same, NoneBorn, Present' = Present, pc \notin {"create", "record"},
             pc' \notin {"addScript", "delVolume", "create", "record", "noCapacity", "delInstance"}
      PROVE  CalmScripts'
  BY <1>1, PlainScripts, Zenon
<1>2. scripts' = scripts => Present' = Present
  BY Zenon DEF Present
<1>3. CASE FindInstance
  <2>1. ~CreateInstance
    BY <1>3, Zenon DEF FindInstance, CreateInstance
  <2> QED BY <1>3, <2>1, FindKeepsScripts, Zenon
<1>4. CASE LookUpVolume \/ CloneOSVolume \/ TagOSVolume
  <2>1. /\ Same /\ scripts' = scripts /\ pc \in {"volume", "clone", "tag"}
        /\ pc' \in {"clone", "tag", "script", "patchConditions"}
    BY <1>4, VolumeMarks, CloneMarks, TagMarks, Zenon DEF Alike, Noted, cloudVars
  <2>2. ~CreateInstance
    BY <2>1, Zenon DEF CreateInstance
  <2> QED BY <1>1, <1>2, <2>1, <2>2, Zenon
<1>5. CASE CreateChecksHostname
  <2>1. pc = "script"
    BY <1>5, Zenon DEF CreateChecksHostname
  <2>2. CASE pc' = "patchConditions"
    <3>1. Same /\ scripts' = scripts
      BY <1>5, <2>1, <2>2, ScriptMarks, Zenon DEF Alike, Noted
    <3> QED BY <1>1, <1>2, <2>1, <2>2, <3>1, Zenon DEF CreateInstance
  <2>3. CASE pc' # "patchConditions"
    <3>1. Present' = {}
      BY <1>5, <2>1, <2>3, ScriptMarks, Zenon
    <3> QED BY <3>1, EmptyScripts, Zenon
  <2> QED BY <2>2, <2>3, Zenon
<1>6. CASE CreateAddsScript \/ CreateInstance
  BY <1>6, CreateKeepsScripts, Zenon
<1>7. CASE RecordInstance \/ DeleteNoCapacity
  <2>1. ~CreateInstance
    BY <1>7, Zenon DEF RecordInstance, DeleteNoCapacity, CreateInstance
  <2> QED BY <1>7, <2>1, RecordKeepsScripts, Zenon
<1>8. CASE \/ ResyncInstance \/ DeleteRequestsInstance \/ DeletePurgesVolumes
           \/ \E elapsed \in BOOLEAN : DeleteFindsInstance(elapsed)
  <2>1. /\ Same /\ Present' \subseteq Present /\ pc \in {"resync", "delFind", "delInstance", "purge"}
        /\ pc' \in {"patchConditions", "delInstance", "delScript", "purge"}
        /\ pc' = "delInstance" => found' \in findInstance(mem) /\ found'.id # None
    BY <1>8, PlainMarks, Zenon DEF Alike, Noted, Fewer
  <2>2. ~CreateInstance
    BY <2>1, Zenon DEF CreateInstance
  <2> QED BY <2>1, <2>2, PlainScripts, Zenon
<1>9. CASE DeleteScript
  <2>1. pc = "delScript"
    BY <1>9, DeleteScriptMarks, Zenon
  <2>2. mem.scriptID = None \/ Present \subseteq {mem.scriptID}
    BY <2>1, Zenon DEF CalmScripts, Named
  <2> QED BY <1>9, <2>2, DeleteScriptMarks, EmptyScripts, Zenon
<1>10. CASE DeleteOSVolume
  <2>1. Present = {} /\ Present' \subseteq Present
    BY <1>10, DeleteVolumeMarks, Zenon DEF CalmScripts, Fewer
  <2>2. Present' = {}
    BY <2>1, Zenon
  <2> QED BY <2>2, EmptyScripts, Zenon
<1> QED BY <1>3, <1>4, <1>5, <1>6, <1>7, <1>8, <1>9, <1>10, Zenon DEF Create, Delete

\* And every other step.
LEMMA ScriptsStay ==
    ASSUME SafetyInv, SafetyInv', "stale" \notin Env, CalmCopy, CalmScripts, [Next]_vars, ~Fault, ~Crash
    PROVE  CalmScripts'
<1> TypeOK /\ None \notin InstanceIDs
  BY NoneAssumption, Zenon DEF SafetyInv
<1> ~CreateInstance => NoneBorn
  BY OnlyCreateBears, Zenon DEF SafetyInv
<1>1. CASE Create \/ Delete
  BY <1>1, CallsKeepScripts, Zenon
<1>2. UNCHANGED cloudVars => Present' = Present /\ iscript' = iscript /\ istatus' = istatus
  BY Zenon DEF cloudVars, Present
<1>3. CASE ReconcileStarts
  <2>1. /\ pc = "idle" /\ pc' \in {"find", "resync", "delFind", "patchConditions"} /\ obj' = obj
        /\ mem'.instanceID = obj.instanceID /\ mem'.scriptID = obj.scriptID /\ mem'.finalizer = obj.finalizer
        /\ obj.finalizer /\ obj.exists /\ Present' = Present /\ iscript' = iscript /\ istatus' = istatus
    BY <1>2, <1>3, StartMarks, Zenon DEF Alike, Noted
  <2>2. Named(mem.scriptID)'
    BY <2>1, Zenon DEF CalmScripts, Named
  <2>3. ASSUME NEW i \in InstanceIDs,
               Live(i)' \/ i \in {obj'.instanceID, mem'.instanceID} \/ (pc' \in Holding /\ i = found'.id)
        PROVE  Named(iscript[i])'
    <3>1. Live(i) \/ i = obj.instanceID
      BY <2>1, <2>3, Zenon DEF Live, Holding
    <3> QED BY <2>1, <3>1, Zenon DEF CalmScripts, Named
  <2> QED BY <2>1, <2>2, <2>3, Zenon DEF CalmScripts, Guarded
<1>4. ASSUME pc \in {"patchConditions", "patchMeta"}, pc' \in {"patchMeta", "patchStatus"}, mem' = mem,
             UNCHANGED cloudVars, obj'.instanceID = obj.instanceID, Guarded' \/ ~Guarded
      PROVE  CalmScripts'
  <2>1. Named(mem.scriptID)' /\ (~Guarded' => Present' = {})
    BY <1>2, <1>4, Zenon DEF CalmScripts, Named
  <2>2. ASSUME NEW i \in InstanceIDs,
               Live(i)' \/ i \in {obj'.instanceID, mem'.instanceID} \/ (pc' \in Holding /\ i = found'.id)
        PROVE  Named(iscript[i])'
    <3>1. Live(i) \/ i \in {obj.instanceID, mem.instanceID}
      BY <1>2, <1>4, <2>2, Zenon DEF Live, Holding
    <3> QED BY <1>2, <1>4, <3>1, Zenon DEF CalmScripts, Named
  <2> QED BY <1>4, <2>1, <2>2, Zenon DEF CalmScripts
<1>5. CASE PatchConditions
  BY <1>4, <1>5, ConditionsMarks, Zenon DEF Guarded, Alike, Noted
<1>6. CASE PatchMeta
  <2>1. Guarded' \/ ~Guarded
    BY <1>6, MetaMarks, Zenon DEF Guarded
  <2> QED BY <1>4, <1>6, <2>1, MetaMarks, Zenon
<1>7. CASE PatchStatus
  <2>1. pc = "patchStatus" /\ pc' = "idle" /\ mem' = NewMachine /\ Present' = Present /\ iscript' = iscript /\ istatus' = istatus
    BY <1>2, <1>7, StatusMarks, Zenon
  <2>2. CASE ~obj.exists \/ ~obj.finalizer
    BY <2>1, <2>2, EmptyScripts, Zenon DEF CalmScripts, Guarded
  <2>3. CASE obj.exists /\ obj.finalizer
    <3>1. Noted(obj', obj.providerID, mem.instanceID, mem.scriptID, mem.osVolumeID, obj.finalizer) /\ obj'.exists
      BY <1>7, <2>3, StatusMarks, Zenon
    <3>2. Named(obj.scriptID)'
      BY <2>1, <3>1, Zenon DEF CalmScripts, Named, Noted
    <3>3. mem'.instanceID = None
      BY <2>1, Zenon DEF NewMachine
    <3>4. ASSUME NEW i \in InstanceIDs,
                 Live(i)' \/ i \in {obj'.instanceID, mem'.instanceID} \/ (pc' \in Holding /\ i = found'.id)
          PROVE  Named(iscript[i])'
      <4>1. Live(i) \/ i = mem.instanceID
        BY <2>1, <3>1, <3>3, <3>4, Zenon DEF Live, Holding, Noted
      <4> QED BY <2>1, <4>1, Zenon DEF CalmScripts, Named
    <3> QED BY <2>1, <2>3, <3>1, <3>2, <3>4, Zenon DEF CalmScripts, Guarded, Noted
  <2> QED BY <2>2, <2>3, Zenon
<1>8. CASE ~(Create \/ Delete) /\ ~(ReconcileStarts \/ PatchConditions \/ PatchMeta \/ PatchStatus)
  <2>1. /\ pc' = pc /\ mem' = mem /\ found' = found /\ script' = script /\ Present' \subseteq Present /\ iscript' = iscript
        /\ obj'.instanceID = obj.instanceID /\ obj'.scriptID = obj.scriptID
        /\ (obj'.finalizer <=> obj.finalizer) \/ obj'.finalizer
        /\ obj'.exists = obj.exists \/ ~obj.finalizer
    BY <1>8, AsideMarks, Zenon DEF Noted, scope, Fewer
  <2>2. \A s : Named(s) => s = None \/ Present' \subseteq {s}
    BY <2>1, Zenon DEF Named
  <2>3. ~Guarded' => ~Guarded
    BY <2>1, Zenon DEF Guarded
  <2>4. ASSUME NEW i \in InstanceIDs,
               Live(i)' \/ i \in {obj'.instanceID, mem'.instanceID} \/ (pc' \in Holding /\ i = found'.id)
        PROVE  Named(iscript[i])'
    <3>1. Live(i) \/ i \in {obj.instanceID, mem.instanceID} \/ (pc \in Holding /\ i = found.id)
      BY <1>8, <2>1, <2>4, Zenon DEF Live, NoneBorn, Create
    <3> QED BY <2>1, <2>2, <3>1, Zenon DEF CalmScripts, Named
  <2>5. Recorded(mem)' = Recorded(mem)
    BY <2>1, Zenon DEF Recorded
  <2>6. ~Guarded' \/ pc \in {"addScript", "delVolume"} => Present' = {}
    BY <2>1, <2>3, Zenon DEF CalmScripts
  <2>7. pc = "create" => Present' \subseteq {script'}
    BY <2>1, Zenon DEF CalmScripts
  <2>8. /\ pc = "record" => Named(Recorded(mem).scriptID)'
        /\ pc \notin {"idle", "create", "record"} => Named(mem.scriptID)'
        /\ pc = "idle" => Named(obj.scriptID)'
    BY <2>1, <2>2, <2>5, Zenon DEF CalmScripts, Named
  <2> QED BY <2>1, <2>4, <2>6, <2>7, <2>8, Zenon DEF CalmScripts
<1> QED BY <1>1, <1>3, <1>5, <1>6, <1>7, <1>8, Zenon

\* The object, and the copy of a running reconcile, name the only clone there is;
\* another is made, and the object goes, only when there is none.
CalmClone ==
    /\ pc # "idle" => Active \subseteq {mem.osVolumeID}
    /\ pc = "idle" => Active \subseteq {obj.osVolumeID}
    /\ ~Guarded \/ pc = "clone" => Active = {}

\* The calls keep it.
LEMMA CallsKeepClone ==
    ASSUME SafetyInv, UseClone, CalmClone, Create \/ Delete, ~Fault PROVE CalmClone'
<1> TypeOK /\ acct = "own" /\ mem \in Machines
  BY Zenon DEF SafetyInv, CopyIsCurrent, TypeOK
<1>1. obj' = obj /\ pc # "idle" /\ pc \notin Patching /\ pc' # "idle"
  BY CallFrame, Zenon
<1>2. obj.finalizer /\ obj.exists /\ mem.finalizer /\ Active \subseteq {mem.osVolumeID} /\ None \notin Active
  BY <1>1, NoneAssumption, Zenon DEF SafetyInv, FinalizerGoesLast, Patching, CalmClone, Active
<1>3. ASSUME mem'.osVolumeID = mem.osVolumeID, mem'.finalizer = mem.finalizer, Active' \subseteq {mem.osVolumeID}, pc' # "clone"
      PROVE  CalmClone'
  BY <1>1, <1>2, <1>3, Zenon DEF CalmClone, Guarded
<1>4. vstatus' = vstatus => Active' = Active
  BY Zenon DEF Active
<1>5. Fewer => Active' \subseteq {mem.osVolumeID}
  BY <1>2, Zenon DEF Fewer
<1>6. CASE FindInstance \/ TagOSVolume
  <2>1. vstatus' = vstatus /\ Alike(mem', mem) /\ pc' # "clone"
    BY <1>6, FindMarks, TagMarks, Zenon DEF cloudVars
  <2> QED BY <1>2, <1>3, <1>4, <2>1, Zenon DEF Alike, Noted
<1>7. CASE LookUpVolume
  <2>1. Active' = Active
    BY <1>4, <1>7, VolumeMarks, Zenon DEF cloudVars
  <2>2. CASE pc' = "clone"
    <3>1. Alike(mem', mem) /\ mem.osVolumeID \notin Active
      BY <1>7, <2>2, VolumeMarks, Zenon
    <3>2. Active' = {}
      BY <1>2, <2>1, <3>1, Zenon
    <3> QED BY <1>1, <3>2, Zenon DEF CalmClone
  <2>3. CASE pc' # "clone"
    <3>1. PICK v : /\ Noted(mem', mem.providerID, mem.instanceID, mem.scriptID, v, mem.finalizer)
                   /\ mem.osVolumeID = None \/ v = mem.osVolumeID
      BY <1>7, <2>3, VolumeMarks, Zenon
    <3>2. Active' \subseteq {v}
      BY <1>2, <2>1, <3>1, Zenon
    <3> QED BY <1>1, <1>2, <2>3, <3>1, <3>2, Zenon DEF CalmClone, Guarded, Noted
  <2> QED BY <2>2, <2>3, Zenon
<1>8. CASE CloneOSVolume
  <2>1. pc = "clone" /\ Active = {}
    BY <1>8, CloneMarks, Zenon DEF CalmClone
  <2>2. CASE pc' = "patchConditions"
    BY <1>2, <1>3, <1>4, <1>8, <2>2, CloneMarks, Zenon DEF Alike, Noted
  <2>3. CASE pc' # "patchConditions"
    <3>1. PICK v : /\ Noted(mem', mem.providerID, mem.instanceID, mem.scriptID, v, mem.finalizer)
                   /\ Active' \subseteq Active \cup {v}
      BY <1>8, <2>3, CloneMarks, Zenon
    <3>2. Active' \subseteq {v} /\ pc' = "tag"
      BY <1>8, <2>1, <2>3, <3>1, CloneMarks, Zenon
    <3> QED BY <1>1, <1>2, <3>1, <3>2, Zenon DEF CalmClone, Guarded, Noted
  <2> QED BY <2>2, <2>3, Zenon
<1>9. CASE CreateChecksHostname \/ CreateAddsScript
  <2>1. vstatus' = vstatus /\ Alike(mem', mem) /\ pc' # "clone"
    BY <1>9, ScriptMarks, Zenon
  <2> QED BY <1>2, <1>3, <1>4, <2>1, Zenon DEF Alike, Noted
<1>10. CASE CreateInstance
  <2>1. Active' \subseteq {mem.osVolumeID} /\ Alike(mem', mem) /\ pc' # "clone"
    BY <1>2, <1>10, CreateMarks, Zenon
  <2> QED BY <1>3, <2>1, Zenon DEF Alike, Noted
<1>11. CASE RecordInstance
  <2>1. /\ vstatus' = vstatus /\ pc' # "clone"
        /\ mem'.osVolumeID = mem.osVolumeID /\ mem'.finalizer = mem.finalizer
    BY <1>11, RecordMarks, RecordedFields, Zenon DEF Alike, Noted
  <2> QED BY <1>2, <1>3, <1>4, <2>1, Zenon
<1>12. CASE DeleteNoCapacity
  BY <1>3, <1>5, <1>12, NoCapacityMarks, Zenon DEF Noted
<1>13. CASE \/ ResyncInstance \/ DeleteRequestsInstance \/ DeletePurgesVolumes
            \/ \E elapsed \in BOOLEAN : DeleteFindsInstance(elapsed)
  <2>1. Fewer /\ Alike(mem', mem) /\ pc' # "clone"
    BY <1>13, PlainMarks, Zenon
  <2> QED BY <1>3, <1>5, <2>1, Zenon DEF Alike, Noted
<1>14. CASE DeleteScript
  BY <1>3, <1>5, <1>14, DeleteScriptMarks, Zenon DEF Noted
<1>15. CASE DeleteOSVolume
  <2>1. pc' = "patchConditions" /\ Fewer
    BY <1>15, DeleteVolumeMarks, Zenon
  <2>2. CASE Alike(mem', mem)
    BY <1>3, <1>5, <2>1, <2>2, Zenon DEF Alike, Noted
  <2>3. CASE ~Alike(mem', mem)
    <3>1. Active' = {}
      BY <1>2, <1>15, <2>3, DeleteVolumeMarks, Zenon
    <3> QED BY <1>1, <3>1, Zenon DEF CalmClone
  <2> QED BY <2>2, <2>3, Zenon
<1> QED BY <1>6, <1>7, <1>8, <1>9, <1>10, <1>11, <1>12, <1>13, <1>14, <1>15, Zenon DEF Create, Delete

\* So does every other step.
LEMMA CloneStays ==
    ASSUME SafetyInv, "stale" \notin Env, UseClone, CalmCopy, CalmClone, [Next]_vars, ~Fault, ~Crash
    PROVE  CalmClone'
<1> TypeOK
  BY Zenon DEF SafetyInv
<1>1. CASE Create \/ Delete
  BY <1>1, CallsKeepClone, Zenon
<1>2. UNCHANGED cloudVars => Active' = Active
  BY Zenon DEF cloudVars, Active
<1>3. CASE ReconcileStarts
  <2>1. /\ pc = "idle" /\ pc' \in {"find", "resync", "delFind", "patchConditions"} /\ obj' = obj /\ Active' = Active
        /\ mem'.osVolumeID = obj.osVolumeID /\ mem'.finalizer = obj.finalizer /\ obj.finalizer /\ obj.exists
    BY <1>2, <1>3, StartMarks, Zenon DEF Alike, Noted
  <2> QED BY <2>1, Zenon DEF CalmClone, Guarded
<1>4. ASSUME pc \in {"patchConditions", "patchMeta"}, pc' \in {"patchMeta", "patchStatus"}, mem' = mem,
             UNCHANGED cloudVars, Guarded' \/ ~Guarded
      PROVE  CalmClone'
  BY <1>2, <1>4, Zenon DEF CalmClone
<1>5. CASE PatchConditions
  BY <1>4, <1>5, ConditionsMarks, Zenon DEF Guarded, Alike, Noted
<1>6. CASE PatchMeta
  <2>1. Guarded' \/ ~Guarded
    BY <1>6, MetaMarks, Zenon DEF Guarded
  <2> QED BY <1>4, <1>6, <2>1, MetaMarks, Zenon
<1>7. CASE PatchStatus
  <2>1. pc = "patchStatus" /\ pc' = "idle" /\ Active' = Active
    BY <1>2, <1>7, StatusMarks, Zenon
  <2>2. CASE ~obj.exists \/ ~obj.finalizer
    <3>1. Active' = {}
      BY <2>1, <2>2, Zenon DEF CalmClone, Guarded
    <3> QED BY <2>1, <3>1, Zenon DEF CalmClone
  <2>3. CASE obj.exists /\ obj.finalizer
    <3>1. Noted(obj', obj.providerID, mem.instanceID, mem.scriptID, mem.osVolumeID, obj.finalizer) /\ obj'.exists
      BY <1>7, <2>3, StatusMarks, Zenon
    <3> QED BY <2>1, <2>3, <3>1, Zenon DEF CalmClone, Guarded, Noted
  <2> QED BY <2>2, <2>3, Zenon
<1>8. CASE ~(Create \/ Delete) /\ ~(ReconcileStarts \/ PatchConditions \/ PatchMeta \/ PatchStatus)
  <2>1. /\ pc' = pc /\ mem' = mem /\ Active' \subseteq Active /\ obj'.osVolumeID = obj.osVolumeID
        /\ (obj'.finalizer <=> obj.finalizer) \/ obj'.finalizer
        /\ obj'.exists = obj.exists \/ ~obj.finalizer
    BY <1>8, AsideMarks, Zenon DEF Noted, scope, Fewer
  <2>2. ~Guarded' => ~Guarded
    BY <2>1, Zenon DEF Guarded
  <2> QED BY <2>1, <2>2, Zenon DEF CalmClone
<1> QED BY <1>1, <1>3, <1>5, <1>6, <1>7, <1>8, Zenon

\* All of it, while nothing disturbs the controller.
CalmInv == Budget /\ (Undisturbed => CalmCopy /\ CalmProvider /\ CalmScripts /\ (UseClone => CalmClone))

\* It holds of a new machine.
LEMMA InitCalm == ASSUME Init PROVE CalmInv
<1>1. /\ pc = "idle" /\ obj.providerID = "none" /\ obj.instanceID = None /\ mem.instanceID = None
      /\ faults = MaxFaults /\ crashes = MaxCrashes
  BY Zenon DEF Init, NewMachine
<1>2. Present = {} /\ Active = {}
  BY Zenon DEF Init, CloudInit, Present, Active
<1>3. Budget
  BY <1>1, BoundsAssumption DEF Budget
<1>4. CalmCopy /\ CalmProvider
  BY <1>1, Zenon DEF CalmCopy, CalmProvider
<1>5. \A s : Named(s)
  BY <1>2, Zenon DEF Named
<1>6. CalmScripts /\ CalmClone
  BY <1>1, <1>2, <1>5, Zenon DEF CalmScripts, CalmClone
<1> QED BY <1>3, <1>4, <1>6, Zenon DEF CalmInv

\* Every step keeps it.
LEMMA NextCalm ==
    ASSUME "stale" \notin Env, SafetyInv, SafetyInv', CalmInv, [Next]_vars PROVE CalmInv'
<1> TypeOK /\ Budget
  BY Zenon DEF SafetyInv, CalmInv
<1>1. Budget'
  BY CalmStep, Zenon
<1>2. ASSUME Undisturbed' PROVE (CalmCopy /\ CalmProvider /\ CalmScripts /\ (UseClone => CalmClone))'
  <2>1. Undisturbed /\ ~Fault /\ ~Crash
    BY <1>2, CalmStep, Zenon
  <2>2. CalmCopy /\ CalmProvider /\ CalmScripts /\ (UseClone => CalmClone)
    BY <2>1, Zenon DEF CalmInv
  <2> QED BY <2>1, <2>2, CopyStays, ProviderStays, ScriptsStay, CloneStays, Zenon
<1> QED BY <1>1, <1>2, Zenon DEF CalmInv

\* The invariant of an undisturbed controller.
THEOREM Calm == ASSUME "stale" \notin Env, "identity" \notin Env PROVE Spec => []CalmInv
<1>1. SafetyInv /\ SafetyInv' /\ CalmInv /\ [Next]_vars => CalmInv'
  BY NextCalm, Zenon
<1>2. Init => CalmInv
  BY InitCalm, Zenon
<1> QED BY <1>1, <1>2, Safety, PTL DEF Spec

\* While no call fails, spec.providerID never becomes the bare prefix that
\* reconcileNormal builds for an instance that is not found: it is recorded by
\* then, and so is the providerID of its node, which the webhook protects.
THEOREM ProviderIDStaysNode ==
    ASSUME "stale" \notin Env, "identity" \notin Env PROVE Spec => []ProviderIDMatchesNode
<1>1. CalmInv => ProviderIDMatchesNode
  BY Zenon DEF CalmInv, CalmProvider, ProviderIDMatchesNode
<1> QED BY <1>1, Calm, PTL

\* While no call fails and the manager does not crash, a VerdaMachine that is gone
\* has left no instance, no startup script and no clone of its volume.
THEOREM MachineLeaves ==
    ASSUME "stale" \notin Env, "identity" \notin Env PROVE Spec => []NothingLeft
<1>1. SafetyInv /\ CalmInv => NothingLeft
  <2> SUFFICES ASSUME SafetyInv, CalmInv, Undisturbed, ~obj.exists
               PROVE  /\ NoLive /\ Present = {}
                      /\ UseClone => \A v \in VolumeIDs : vstatus[v] \notin {"cloning", "detached", "attached"}
    BY Zenon DEF NothingLeft, FinalizerGuardsInstance, ScriptDeletedWithMachine, CloneDeletedWithMachine
  <2>1. NoLive
    BY Zenon DEF SafetyInv, FinalizerGoesLast
  <2>2. Present = {} /\ (UseClone => Active = {})
    BY Zenon DEF CalmInv, CalmScripts, CalmClone, Guarded
  <2> QED BY <2>1, <2>2, Zenon DEF Active
<1> QED BY <1>1, Safety, Calm, PTL

=============================================================================
