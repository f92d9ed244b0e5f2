---------------------------- MODULE VerdaMachine ----------------------------
(***************************************************************************)
(* internal/controller/verdamachine_controller.go: the reconciler of one   *)
(* VerdaMachine, from the moment the object exists until its finalizer is  *)
(* removed.                                                                *)
(*                                                                         *)
(* controller-runtime never runs two reconciles of the same object at the  *)
(* same time, so the controller is one sequential process: pc says which   *)
(* call of the running reconcile comes next and there is one action per    *)
(* call to the cloud or to the API server, with the code up to the next    *)
(* call.  Between two calls the user, the other controllers, the informer  *)
(* cache and the cloud may move, and the manager may crash; a crash loses  *)
(* mem, base and the locals.  Each call may fail, and a create may take    *)
(* effect although the caller is told that it failed.                      *)
(*                                                                         *)
(* Left out: condition reasons and messages, InstanceState, FailureDomain  *)
(* and Addresses (reported, never read back by this controller), logging,  *)
(* and the text of the startup script.                                     *)
(***************************************************************************)
EXTENDS Reconcile

CONSTANT UseClone    \* spec.osVolumeID is set: boot from a clone, not an image

ASSUME UseCloneAssumption == UseClone \in BOOLEAN

VARIABLES
    cache,    \* the VerdaMachine in the informer cache, a past value of obj
    gate,     \* the first thing the machine still waits for; "lost": its Machine or Cluster is gone
    paused,   \* the cluster is paused
    foreign,  \* an unmanaged instance has this machine's hostname
    acct,     \* the account of the client: "own", or "other"
    volume    \* the volume that ensureOSVolume looks at

k8sVars == <<obj, cache, queued, gate, paused, foreign>>
scope == <<pc, mem, base, acct, found, volume, script>>
vars == <<cloudVars, k8sVars, scope, faults, crashes>>

Gates == {"lost", "owner", "cluster", "infra", "bootstrap", "open"}
Creating == {"volume", "clone", "tag", "script", "addScript", "create"}
Cleaning == {"purge", "delScript", "delVolume"}
Holding == {"record", "noCapacity", "delInstance"}
Patching == {"patchConditions", "patchMeta", "patchStatus"}
PCs == {"idle", "find", "resync", "delFind"} \cup Creating \cup Holding \cup Cleaning \cup Patching

\* spec.providerID: empty, verda://<hostname>, or the bare prefix.
ProviderIDs == {"none", "node", "bare"}

Machines == [exists: BOOLEAN, finalizer: BOOLEAN, deleting: BOOLEAN, providerID: ProviderIDs,
             delReq: LiveStatus \cup {"none"}, instanceID: InstanceIDs \cup {None},
             scriptID: ScriptIDs \cup {None}, osVolumeID: VolumeIDs \cup {None},
             provisioned: BOOLEAN, ready: BOOLEAN, osReady: BOOLEAN]

NewMachine == [exists |-> TRUE, finalizer |-> FALSE, deleting |-> FALSE, providerID |-> "none",
               delReq |-> "none", instanceID |-> None, scriptID |-> None, osVolumeID |-> None,
               provisioned |-> FALSE, ready |-> FALSE, osReady |-> FALSE]

NoVolume == [id |-> None, status |-> "none", managed |-> FALSE]

\* Every variable holds a value of its type: the API object and its copies are
\* VerdaMachines, pc names a call, what lookups return is an ID and a state, and
\* a call that needs an instance has one.
TypeOK ==
    /\ CloudTypeOK
    /\ obj \in Machines /\ cache \in Machines /\ mem \in Machines /\ base \in Machines
    /\ queued \in BOOLEAN /\ paused \in BOOLEAN /\ foreign \in BOOLEAN
    /\ gate \in Gates
    /\ pc \in PCs
    /\ acct \in {"own", "other"}
    /\ found \in [id: InstanceIDs \cup {None}, status: ReportedStatus]
    /\ pc \in Holding => found.id # None
    /\ volume \in [id: VolumeIDs \cup {None}, status: VolumeStatus, managed: BOOLEAN]
    /\ script \in ScriptIDs \cup {None}
    /\ faults \in Nat /\ crashes \in Nat

Init ==
    /\ CloudInit
    /\ obj = NewMachine /\ cache = NewMachine /\ mem = NewMachine /\ base = NewMachine
    /\ queued = TRUE /\ paused = FALSE /\ foreign = FALSE
    /\ gate = "owner"
    /\ pc = "idle" /\ acct = "own"
    /\ found = NoInstance /\ volume = NoVolume /\ script = None
    /\ faults = MaxFaults /\ crashes = MaxCrashes

\* A reconcile changes neither what it reads of its surroundings nor, before
\* its deferred patch, the object itself.
Inside == UNCHANGED <<obj, cache, gate, paused, foreign, base, acct, crashes>>

-----------------------------------------------------------------------------
(* Reconcile                                                               *)

CanStart == pc = "idle" /\ queued /\ ("stale" \in Env \/ cache = obj)

\* The object is gone, refers to a Machine or a Cluster that is gone, has no owner
\* yet, is paused, or has no VerdaCluster yet.
Waits ==
    \/ ~cache.exists
    \/ gate = "lost"
    \/ gate = "owner" /\ ~cache.deleting
    \/ gate # "owner" /\ paused
    \/ gate = "cluster" /\ ~cache.deleting

\* Mutant: the finalizer is added only while the machine still waits.
NeedsFinalizerWhileWaiting == cache.exists /\ ~cache.finalizer /\ ~cache.deleting /\ gate # "open"

NeedsFinalizer == cache.exists /\ ~cache.finalizer /\ ~cache.deleting

\* GetOwnerMachine and GetClusterFromMetadata return an error when there is none:
\* the reconcile is repeated, that of a deleted machine as well.
ReconcileWaits ==
    /\ CanStart /\ ~NeedsFinalizer /\ Waits
    /\ queued' = (cache.exists /\ gate = "lost")
    /\ UNCHANGED <<cloudVars, obj, cache, gate, paused, foreign, scope, faults, crashes>>

\* finalizers.EnsureFinalizer: patch and return.
EnsureFinalizer ==
    /\ CanStart /\ NeedsFinalizer
    /\ \/ NoFault /\ obj' = [obj EXCEPT !.finalizer = obj.exists] /\ queued' = FALSE
       \/ Fault /\ UNCHANGED <<obj, queued>>
    /\ UNCHANGED <<cloudVars, cache, gate, paused, foreign, scope, crashes>>

\* The identity of an orphan, and of a machine whose VerdaCluster is gone, has
\* no SecretName: ClientFor returns the manager's global client.
ClientAccount == IF "identity" \in Env /\ gate \in {"owner", "cluster"} THEN "other" ELSE "own"

\* Reconcile up to the first cloud call: reconcileDelete and reconcileNormal
\* decide on the copy they were given.
ReconcileStarts ==
    /\ CanStart /\ ~NeedsFinalizer /\ ~Waits
    /\ base' = cache
    /\ acct' = ClientAccount
    /\ found' = NoInstance /\ volume' = NoVolume /\ script' = None
    /\ \/ /\ NoFault
          /\ queued' = FALSE
          /\ \/ cache.deleting /\ pc' = "delFind" /\ mem' = NotReady(cache)
             \/ ~cache.deleting /\ cache.provisioned /\ pc' = "resync" /\ mem' = cache
             \/ /\ ~cache.deleting /\ ~cache.provisioned
                /\ \/ gate # "open" /\ pc' = "patchConditions" /\ mem' = NotReady(cache)
                   \/ gate = "open" /\ pc' = "find" /\ mem' = cache
       \/ /\ Fault  \* ClientFor fails
          /\ queued' = TRUE
          /\ pc' = "patchConditions"
          /\ mem' = IF gate = "owner" THEN cache ELSE NotReady(cache)
    /\ UNCHANGED <<cloudVars, obj, cache, gate, paused, foreign, crashes>>

-----------------------------------------------------------------------------
(* reconcileNormal                                                         *)

\* Mutant: an instance that was not recorded is looked for only to delete it.
FindByTagToDelete(m) ==
    LET tagged == {[id |-> i, status |-> istatus[i]] : i \in FindInstanceByTag}
    IN  IF m.instanceID # None THEN {[id |-> m.instanceID, status |-> GetInstance(m.instanceID)]}
        ELSE IF m.deleting /\ tagged # {} THEN tagged ELSE {NoInstance}

\* findInstance: by the recorded ID, whose absence is an answer ("notfound"),
\* else by tag, where an instance that is gone counts as none.  The other
\* account holds nothing of this machine.
findInstance(m) ==
    IF m.instanceID # None
    THEN {[id |-> m.instanceID, status |-> IF acct = "own" THEN GetInstance(m.instanceID) ELSE "notfound"]}
    ELSE IF acct = "other" \/ FindInstanceByTag = {}
    THEN {NoInstance}
    ELSE {IF instanceGone(istatus[i]) THEN NoInstance ELSE [id |-> i, status |-> istatus[i]] :
             i \in FindInstanceByTag}

FindInstance ==
    /\ pc = "find"
    /\ \/ /\ NoFault
          /\ \E r \in findInstance(mem) :
                /\ found' = r
                /\ Continue(IF r.id # None THEN "record" ELSE IF UseClone THEN "volume" ELSE "script", mem)
       \/ ReturnError(mem) /\ UNCHANGED found
    /\ Inside
    /\ UNCHANGED <<cloudVars, volume, script>>

\* ensureOSVolume, first half: the clone by its recorded ID, else by name.
LookUpVolume ==
    /\ pc = "volume"
    /\ LET byID == {[id |-> mem.osVolumeID, status |-> st, managed |-> vmanaged[mem.osVolumeID]] :
                       st \in GetVolume(mem.osVolumeID) \ {"notfound"}}
           byName == {[id |-> v, status |-> vstatus[v], managed |-> vmanaged[v]] : v \in FindVolumeByName}
           missing == IF mem.osVolumeID # None THEN "notfound" \in GetVolume(mem.osVolumeID)
                                               ELSE FindVolumeByName = {}
       IN  \/ /\ NoFault
              /\ \E r \in IF mem.osVolumeID # None THEN byID ELSE byName :
                    volume' = r /\ Continue("tag", [mem EXCEPT !.osVolumeID = r.id])
           \/ NoFault /\ missing /\ Continue("clone", mem) /\ UNCHANGED volume
           \/ ReturnError(mem) /\ UNCHANGED volume
    /\ Inside
    /\ UNCHANGED <<cloudVars, found, script>>

\* A tag call on volume v in state st may fail.
TagMayFail(st) == \/ Fault
                  \/ "tagRefused" \in Env /\ st = "cloning" /\ NoFault

\* ensureOSVolume, second half: resolveOSVolume and CloneVolume.  When the call
\* fails the clone may exist all the same; it also fails when the account has
\* no room for another volume.
CloneOSVolume ==
    /\ pc = "clone"
    /\ \/ \E v \in VolumeIDs :
             /\ \/ CloneVolume(v, TRUE) /\ NoFault
                \/ CloneVolume(v, FALSE) /\ TagMayFail("cloning")
             /\ volume' = [id |-> v, status |-> "cloning", managed |-> FALSE]
             /\ Continue("tag", [mem EXCEPT !.osVolumeID = v])
       \/ \E v \in VolumeIDs :
             CloneVolume(v, FALSE) /\ ReturnError([mem EXCEPT !.osReady = FALSE]) /\ UNCHANGED volume
       \/ /\ Fault \/ (NoFault /\ \A v \in VolumeIDs : vstatus[v] # "none")
          /\ Return([mem EXCEPT !.osReady = FALSE], TRUE)
          /\ UNCHANGED <<cloudVars, volume>>
    /\ Inside
    /\ UNCHANGED <<found, script>>

\* ensureOSVolume, tagging: an error is only logged.  The clone must be
\* detached before the instance is created.
TagOSVolume ==
    /\ pc = "tag"
    /\ \E ok \in BOOLEAN :
          /\ \/ volume.managed /\ ok /\ NoFault /\ UNCHANGED cloudVars
             \/ ~volume.managed /\ ok /\ NoFault /\ TagVolume(volume.id)
             \/ ~volume.managed /\ ~ok /\ TagMayFail(vstatus[volume.id]) /\ UNCHANGED cloudVars
          /\ LET m == [mem EXCEPT !.osReady = ok /\ volume.status \in {"detached", "attached"}]
             IN  IF volume.status = "detached" THEN Continue("script", m) ELSE Return(NotReady(m), TRUE)
    /\ Inside
    /\ UNCHANGED <<found, volume, script>>

\* createInstance and CreateInstance up to the first change: the hostname must
\* not belong to an unmanaged instance; older scripts of that name are removed.
CreateChecksHostname ==
    /\ pc = "script"
    /\ RemoveOldScripts(foreign)
    /\ Inside
    /\ UNCHANGED <<found, volume, script>>

CreateAddsScript ==
    /\ pc = "addScript"
    /\ AddScript
    /\ Inside
    /\ UNCHANGED <<found, volume>>

\* The volume a new instance boots from: the clone, or one that comes with it.
BootVolumes == IF UseClone THEN {mem.osVolumeID} ELSE {v \in VolumeIDs : vstatus[v] = "none"}

\* Instances.Create.  When it fails the script is deleted, best effort.
CreateInstance ==
    /\ pc = "create"
    /\ Instantiate(BootVolumes)
    /\ Inside
    /\ UNCHANGED <<volume, script>>

\* Recording the instance in the copy.  The stand-in for an instance that is
\* not found has neither a hostname nor a script.
Recorded(m) ==
    [m EXCEPT !.instanceID = found.id,
              !.providerID = IF found.status = "notfound" THEN "bare" ELSE "node",
              !.scriptID = IF found.status # "notfound" /\ iscript[found.id] # None
                           THEN iscript[found.id] ELSE @]

\* The switch over the state of the instance.
Decide(m) ==
    CASE found.status = "running" -> Return([m EXCEPT !.ready = TRUE, !.provisioned = TRUE], FALSE)
      [] found.status = "no_capacity" -> Continue("noCapacity", m)
      [] found.status \in GoneStatus \cup {"error", "notfound"} ->
            Return(NotReady(m), found.status = "deleted")
      [] OTHER -> Return(NotReady(m), TRUE)

\* ensureOSVolumeTag retries the tag and ignores errors.
RecordInstance ==
    /\ pc = "record"
    /\ LET m == Recorded(mem)
           v == mem.osVolumeID
       IN  IF v = None \/ mem.osReady
           THEN NoFault /\ Decide(m) /\ UNCHANGED cloudVars
           ELSE \/ /\ \E st \in GetVolume(v) : st # "notfound"
                   /\ NoFault /\ TagVolume(v) /\ Decide([m EXCEPT !.osReady = TRUE])
                \/ /\ "notfound" \in GetVolume(v)
                   /\ NoFault /\ Decide(m) /\ UNCHANGED cloudVars
                \/ /\ TagMayFail(vstatus[v]) /\ (vmanaged[v] => Fault)
                   /\ Decide(m) /\ UNCHANGED cloudVars
    /\ Inside
    /\ UNCHANGED <<found, volume, script>>

\* No capacity: delete the instance and forget it, to retry.
DeleteNoCapacity ==
    /\ pc = "noCapacity"
    /\ \/ /\ NoFault /\ DeleteInstance(found.id)
          /\ Return([NotReady(mem) EXCEPT !.instanceID = None, !.providerID = "none"], TRUE)
       \/ ReturnError(mem) /\ UNCHANGED cloudVars
       \/ ReturnError(mem) /\ DeleteInstance(found.id)
    /\ Inside
    /\ UNCHANGED <<found, volume, script>>

\* Mutant: a provisioned machine whose instance is gone gets another.
ResyncRecreates ==
    /\ pc = "resync"
    /\ NoFault
    /\ \E r \in findInstance(mem) :
          IF instanceGone(r.status) THEN Continue("script", mem)
          ELSE Return([mem EXCEPT !.ready = (r.status = "running")], TRUE)
    /\ Inside
    /\ UNCHANGED <<cloudVars, found, volume, script>>

\* Mutant: a machine whose instance is gone is not provisioned any more.
ResyncResets ==
    /\ pc = "resync"
    /\ NoFault
    /\ \E r \in findInstance(mem) :
          Return([mem EXCEPT !.ready = (r.status = "running"), !.provisioned = ~instanceGone(r.status)], TRUE)
    /\ Inside
    /\ UNCHANGED <<cloudVars, found, volume, script>>

\* resyncInstance: a provisioned machine only reports the state of its instance.
ResyncInstance ==
    /\ pc = "resync"
    /\ \/ NoFault /\ \E r \in findInstance(mem) : Return([mem EXCEPT !.ready = (r.status = "running")], TRUE)
       \/ ReturnError(mem)
    /\ Inside
    /\ UNCHANGED <<cloudVars, found, volume, script>>

-----------------------------------------------------------------------------
(* reconcileDelete                                                         *)

\* findInstance, and the branch on its answer.
DeleteFindsInstance(elapsed) ==
    /\ pc = "delFind"
    /\ \/ /\ NoFault
          /\ \E r \in findInstance(mem) :
                /\ found' = r
                /\ IF instanceGone(r.status)
                   THEN Continue(IF r.status = "notfound" THEN "delScript" ELSE "purge", mem)
                   ELSE IF r.status # "deleting" /\ DeleteRequestDue(r.status, elapsed)
                        THEN Continue("delInstance", [mem EXCEPT !.delReq = r.status])
                        ELSE Return(mem, TRUE)
       \/ ReturnError(mem) /\ UNCHANGED found
    /\ Inside
    /\ UNCHANGED <<cloudVars, volume, script>>

DeleteRequestsInstance ==
    /\ pc = "delInstance"
    /\ RequestDelete(mem)
    /\ Inside
    /\ UNCHANGED <<found, volume, script>>

DeletePurgesVolumes ==
    /\ pc = "purge"
    /\ PurgeVolumes
    /\ Inside
    /\ UNCHANGED <<found, volume, script>>

\* By the recorded ID if there is one, else every script of the hostname.
DeleteScript ==
    /\ pc = "delScript"
    /\ LET S == IF acct = "other" THEN {} ELSE IF mem.scriptID # None THEN {mem.scriptID} ELSE Present
       IN  \/ NoFault /\ DeleteScripts(S) /\ Continue("delVolume", [mem EXCEPT !.scriptID = None])
           \/ \E T \in SUBSET S : DeleteScripts(T) /\ ReturnError(mem)
    /\ Inside
    /\ UNCHANGED <<found, volume, script>>

\* What remains: forget the clone and remove the finalizer.
Cleaned(m) == [m EXCEPT !.osVolumeID = None, !.finalizer = FALSE]

\* deleteOSVolume: a clone without the tag is refused (ErrNotManaged).
DeleteOSVolume ==
    /\ pc = "delVolume"
    /\ LET v == mem.osVolumeID
           st == IF v = None \/ acct = "other" THEN {"notfound"} ELSE GetVolume(v)
       IN  \/ /\ st \cap {"notfound", "deleting", "deleted"} # {}
              /\ NoFault /\ Return(Cleaned(mem), FALSE) /\ UNCHANGED cloudVars
           \/ /\ st \cap {"cloning", "detached", "attached"} # {}
              /\ IF vmanaged[v]
                 THEN \/ NoFault /\ DeleteVolume(v) /\ Return(Cleaned(mem), FALSE)
                      \/ ReturnError(mem) /\ DeleteVolume(v)
                 ELSE NoFault /\ Return(mem, TRUE) /\ UNCHANGED cloudVars
           \/ v # None /\ ReturnError(mem) /\ UNCHANGED cloudVars
    /\ Inside
    /\ UNCHANGED <<found, volume, script>>

-----------------------------------------------------------------------------
(* patchVerdaMachine: patchHelper.Patch sends up to three requests, each   *)
(* with the fields that differ from the object as it was read, and goes on *)
(* after an error.                                                         *)

\* Field by field: what the reconcile has changed wins.
Merge(m, b, o) == IF m # b THEN m ELSE o

PatchFrame == UNCHANGED <<cloudVars, cache, gate, paused, foreign, acct, found, volume, script, crashes>>

PatchRequest(here, next, o) ==
    /\ pc = here /\ pc' = next
    /\ \/ NoFault /\ obj' = (IF obj.exists THEN o ELSE obj) /\ UNCHANGED queued
       \/ Fault /\ UNCHANGED obj /\ queued' = TRUE
    /\ PatchFrame
    /\ UNCHANGED <<mem, base>>

PatchConditions ==
    PatchRequest("patchConditions", "patchMeta",
                 [obj EXCEPT !.ready = Merge(mem.ready, base.ready, obj.ready),
                             !.osReady = Merge(mem.osReady, base.osReady, obj.osReady)])

\* Mutant: the webhook lets the providerID change.
ProviderIDMayChange == TRUE

\* validateMachineSpecUpdate: a providerID that is set stays.
ProviderIDImmutable ==
    obj.providerID \in {"none", Merge(mem.providerID, base.providerID, obj.providerID)}

PatchMeta ==
    LET keepsFinalizer == Merge(mem.finalizer, base.finalizer, obj.finalizer)
    IN  \/ /\ ProviderIDImmutable
           /\ PatchRequest("patchMeta", "patchStatus",
                  [obj EXCEPT !.providerID = Merge(mem.providerID, base.providerID, obj.providerID),
                              !.delReq = Merge(mem.delReq, base.delReq, obj.delReq),
                              !.finalizer = keepsFinalizer,
                              !.exists = keepsFinalizer \/ ~obj.deleting])
        \/ /\ pc = "patchMeta" /\ obj.exists /\ ~ProviderIDImmutable
           /\ pc' = "patchStatus" /\ queued' = TRUE
           /\ PatchFrame
           /\ UNCHANGED <<obj, mem, base, faults>>

\* With the last request the reconcile is over.
PatchStatus ==
    /\ pc = "patchStatus" /\ pc' = "idle"
    /\ \/ /\ NoFault /\ UNCHANGED queued
          /\ obj' = IF obj.exists
                    THEN [obj EXCEPT !.instanceID = Merge(mem.instanceID, base.instanceID, obj.instanceID),
                                     !.scriptID = Merge(mem.scriptID, base.scriptID, obj.scriptID),
                                     !.osVolumeID = Merge(mem.osVolumeID, base.osVolumeID, obj.osVolumeID),
                                     !.provisioned = Merge(mem.provisioned, base.provisioned, obj.provisioned)]
                    ELSE obj
       \/ Fault /\ UNCHANGED obj /\ queued' = TRUE
    /\ mem' = NewMachine /\ base' = NewMachine /\ acct' = "own"
    /\ found' = NoInstance /\ volume' = NoVolume /\ script' = None
    /\ UNCHANGED <<cloudVars, cache, gate, paused, foreign, crashes>>

-----------------------------------------------------------------------------
(* The surroundings (external).                                            *)

Outside == UNCHANGED <<cloudVars, scope, faults, crashes>>

CacheSync ==
    /\ cache # obj
    /\ cache' = obj /\ queued' = TRUE
    /\ Outside /\ UNCHANGED <<obj, gate, paused, foreign>>

UserDeletes ==
    /\ obj.exists /\ ~obj.deleting
    /\ obj' = IF obj.finalizer THEN [obj EXCEPT !.deleting = TRUE] ELSE [obj EXCEPT !.exists = FALSE]
    /\ Outside /\ UNCHANGED <<cache, queued, gate, paused, foreign>>

\* The watches of SetupWithManager: an owner reference is an event of the
\* object itself; the Cluster and the Machine are watched, the VerdaCluster
\* is not.
GateOpens ==
    /\ \/ gate = "owner" /\ gate' = "cluster" /\ queued' = TRUE
       \/ gate = "cluster" /\ gate' = "infra" /\ UNCHANGED queued
       \/ gate = "infra" /\ gate' = "bootstrap" /\ queued' = TRUE
       \/ gate = "bootstrap" /\ gate' = "open" /\ queued' = TRUE
    /\ Outside /\ UNCHANGED <<obj, cache, paused, foreign>>

OwnerVanishes ==
    /\ "orphan" \in Env
    /\ \/ gate' \in {"owner", "lost"} \ {gate} /\ queued' = TRUE
       \/ gate \notin {"lost", "owner", "cluster"} /\ gate' = "cluster" /\ UNCHANGED queued
    /\ Outside /\ UNCHANGED <<obj, cache, paused, foreign>>

PauseToggles ==
    /\ "pause" \in Env
    /\ paused' = ~paused /\ queued' = TRUE
    /\ Outside /\ UNCHANGED <<obj, cache, gate, foreign>>

ForeignToggles ==
    /\ "foreign" \in Env
    /\ foreign' = ~foreign
    /\ Outside /\ UNCHANGED <<obj, cache, queued, gate, paused>>

\* The manager stops in the middle of a reconcile.  The next one lists the
\* objects before it starts.
Crash ==
    /\ crashes > 0 /\ pc # "idle"
    /\ crashes' = crashes - 1
    /\ pc' = "idle" /\ mem' = NewMachine /\ base' = NewMachine /\ acct' = "own"
    /\ found' = NoInstance /\ volume' = NoVolume /\ script' = None
    /\ cache' = obj /\ queued' = TRUE
    /\ UNCHANGED <<cloudVars, obj, gate, paused, foreign, faults>>

CloudMoves == CloudStep /\ UNCHANGED <<k8sVars, scope, faults, crashes>>

-----------------------------------------------------------------------------
Create == FindInstance \/ LookUpVolume \/ CloneOSVolume \/ TagOSVolume \/ CreateChecksHostname
          \/ CreateAddsScript \/ CreateInstance \/ RecordInstance \/ DeleteNoCapacity \/ ResyncInstance

Delete == \/ \E elapsed \in BOOLEAN : DeleteFindsInstance(elapsed)
          \/ DeleteRequestsInstance \/ DeletePurgesVolumes \/ DeleteScript \/ DeleteOSVolume

Controller == ReconcileWaits \/ EnsureFinalizer \/ ReconcileStarts \/ Create \/ Delete
              \/ PatchConditions \/ PatchMeta \/ PatchStatus

Surroundings == CacheSync \/ UserDeletes \/ GateOpens \/ OwnerVanishes \/ PauseToggles
                \/ ForeignToggles \/ Crash \/ CloudMoves

Next == Controller \/ Surroundings

Spec == Init /\ [][Next]_vars

\* Fairness.  The work queue hands out every key in it and a reconcile goes on;
\* events reach the cache; the machine's prerequisites appear; the cloud
\* finishes what it has begun (evictions, and forgetting an instance, are not
\* promised).  A delete request falls due again and again while the object is
\* polled, because the poll interval adds up to deleteRetryInterval.
InstanceSettles(i) == istatus[i] \in {"provisioning", "deleting"} /\ InstanceMoves(i)

CloudFinishes(A) == A /\ UNCHANGED <<k8sVars, scope, faults, crashes>>

Fairness ==
    /\ WF_vars(Controller) /\ WF_vars(CacheSync) /\ WF_vars(GateOpens)
    /\ SF_vars(DeleteFindsInstance(TRUE))
    /\ \A i \in InstanceIDs : /\ WF_vars(CloudFinishes(InstanceSettles(i)))
                              /\ WF_vars(CloudFinishes(InstanceShutsDown(i)))
                              /\ WF_vars(CloudFinishes(VolumeReleased(i)))
    /\ \A v \in VolumeIDs : /\ WF_vars(CloudFinishes(CloneFinishes(v)))
                            /\ WF_vars(CloudFinishes(VolumeDeleted(v)))

FairSpec == Spec /\ Fairness

-----------------------------------------------------------------------------
(* Properties.                                                             *)

\* Once the object says Provisioned its instance is never replaced: however it
\* ends, no reconcile that reads current copies creates a second one behind the
\* Machine's back (resyncInstance only reports).
ProvisionedNeverRecreated ==
    [][obj.provisioned => \A i \in InstanceIDs : istatus[i] = "none" => istatus'[i] = "none"]_vars

\* The startup script "is deleted together with the instance" (reconcileDelete
\* by its recorded ID, else by hostname).
ScriptDeletedWithMachine == ~obj.exists => Present = {}

\* The provider "boots the instance from the clone and deletes the clone with
\* the instance" (deleteOSVolume); what is in the trash counts as deleted.
CloneDeletedWithMachine ==
    ~obj.exists /\ UseClone => \A v \in VolumeIDs : vstatus[v] \notin {"cloning", "detached", "attached"}

\* While no call fails and the manager does not crash, a deleted machine leaves
\* no instance, no script and no clone behind, whenever the delete came and
\* whatever became of the instances before.
NothingLeft == Undisturbed => FinalizerGuardsInstance /\ ScriptDeletedWithMachine /\ CloneDeletedWithMachine

\* "providerID must match the provider ID as seen on the node object"
\* (reconcileNormal sets it from the hostname of the instance, and also from the
\* stand-in for one that is gone, which has none): while no call fails the
\* webhook keeps the first value.
ProviderIDMatchesNode == Undisturbed => obj.providerID # "bare"

\* A volume no call deletes: one that its discontinued instance has left behind
\* and that PurgeInstanceVolumes waits for, or a clone that was never tagged.
Blocked ==
    \E v \in VolumeIDs :
       /\ vstatus[v] = "detached"
       /\ ~vmanaged[v] \/ \E i \in InstanceIDs : ivol[i] = v /\ istatus[i] # "purged"

\* A machine that is deleted goes away, whatever failed before and however old the
\* copies are that its reconciles read: every branch of reconcileDelete either
\* removes the finalizer or asks to be called again, and the two-phase delete
\* (shut down, then delete) reaches its end.  Only a volume that is never deleted
\* holds it up for good.
DeletionCompletes == ([]<>paused) \/ (<>[]Blocked) \/ (obj.deleting ~> ~obj.exists)

\* No wake-up is lost on the way to a running instance: each early return of
\* reconcileNormal is followed by an event or asks for a requeue.
Settled == \/ obj.provisioned \/ obj.deleting \/ ~obj.exists
           \/ \E i \in InstanceIDs : istatus[i] \in GoneStatus \cup {"error", "purged"}
ProvisioningCompletes == ([]<>paused) \/ <>Settled

\* "retries a create that hit no capacity": the instance without capacity is
\* deleted, so that another can be created (the no_capacity case of
\* reconcileNormal).
NoCapacityRetried ==
    \A i \in InstanceIDs : istatus[i] = "no_capacity" ~> ~Live(i) \/ obj.deleting \/ ~obj.exists

-----------------------------------------------------------------------------
(* What the controller promises.                                           *)

Phase == IF ~obj.exists THEN "gone" ELSE IF obj.deleting THEN "deleting" ELSE "present"

Owner == INSTANCE InstanceOwner
         WITH object <- Phase, provisioned <- obj.provisioned,
              live <- {i \in InstanceIDs : Live(i)}, used <- {i \in InstanceIDs : istatus[i] # "none"}

\* Every step of the controller, of the cloud and of the user is a step of an
\* owner of at most one instance, or changes nothing it speaks of: no retry,
\* lost reply or crash creates a second instance, one for a provisioned machine
\* or one that outlives its object, and the instance that replaces another is new.
ImplementsOwner == Owner!Spec

-----------------------------------------------------------------------------
(* The inductive invariants behind AtMostOneLive, FinalizerGuardsInstance  *)
(* and ProvisionedNeverRecreated.                                          *)

\* The instance is looked for in the machine's own account, and between the
\* answer "no instance" and the create nothing comes to life.
CreatesOnlyWhenNone == (pc = "find" => acct = "own") /\ (pc \in Creating => NoLive)

\* The calls before anything is recorded.
Looking == {"find", "resync", "delFind"} \cup Creating

\* The object, the running reconcile and its locals name the one instance that
\* can be live.
NamesOnlyLive ==
    /\ obj.instanceID # None => OnlyLive(obj.instanceID)
    /\ mem.instanceID # None => OnlyLive(mem.instanceID)
    /\ pc \in Holding => OnlyLive(found.id)

\* The copy is current: only this controller changes what it relies on.
CopyIsCurrent ==
    /\ acct = "own"
    /\ pc = "idle" => mem.instanceID = None
    /\ pc # "idle" => base.instanceID = obj.instanceID /\ base.deleting = mem.deleting
                      /\ base.finalizer /\ (base.deleting => obj.deleting)
    /\ pc \in Looking => mem.instanceID = obj.instanceID
    /\ pc \in Creating => mem.instanceID = None
    /\ pc \in {"find"} \cup Creating => ~obj.provisioned

\* The finalizer goes only when no instance is left, and only from an object
\* that is being deleted.
FinalizerGoesLast ==
    /\ pc \in Cleaning => NoLive
    /\ pc \in Cleaning \cup {"delFind", "delInstance"} => mem.deleting
    /\ pc # "idle" /\ ~mem.finalizer => NoLive /\ mem.deleting /\ pc \in Patching
    /\ pc # "idle" => obj.finalizer \/ (~obj.exists /\ pc = "patchStatus")
    /\ obj.exists /\ ~obj.finalizer => NoLive /\ ~obj.deleting
    /\ ~obj.exists => NoLive /\ pc \in {"idle", "patchStatus"}

\* What every step of a controller with current copies and its own account
\* preserves: the strengthening that makes FinalizerGuardsInstance inductive.
SafetyInv == TypeOK /\ CreatesOnlyWhenNone /\ AtMostOneLive /\ NamesOnlyLive /\ CopyIsCurrent /\ FinalizerGoesLast

\* No reconcile takes Provisioned back, so that no patch does: what ImplementsOwner
\* needs besides SafetyInv.
ProvisionedStays == pc # "idle" => (base.provisioned => mem.provisioned)

=============================================================================
