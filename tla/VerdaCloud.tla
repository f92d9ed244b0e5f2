----------------------------- MODULE VerdaCloud -----------------------------
(***************************************************************************)
(* The Verda account as one owner object (a VerdaMachine, or the load      *)
(* balancer of a VerdaCluster) sees it through internal/cloud/client.go:   *)
(* the instances that carry the owner's tag, the startup scripts that      *)
(* carry its hostname and the volumes that belong to it.                   *)
(*                                                                         *)
(* Every operation of sdkClient is an operator here: the lookups return    *)
(* the SET of answers the API may give, the changing calls are actions on  *)
(* the cloud variables.  The steps the cloud takes by itself are external: *)
(* they are read off the states the client and the controllers             *)
(* distinguish.                                                            *)
(*                                                                         *)
(* Simplifications.  An instance has one volume (the loops of              *)
(* instanceVolumeIDs and PurgeInstanceVolumes do the same for each).  The  *)
(* read with which DeleteInstance and DeleteVolume begin and the call it   *)
(* decides on are one step.                                                *)
(***************************************************************************)
EXTENDS Naturals, FiniteSets

CONSTANTS
    InstanceIDs,  \* identifiers the API may hand out for instances
    ScriptIDs,    \* ... for startup scripts
    VolumeIDs,    \* ... for volumes
    None,         \* the empty string of an ID field
    Env           \* which disturbances of the surroundings are switched on

(***************************************************************************)
(* "keepDetached":  a volume survives its discontinued instance            *)
(*                  (spotDiscontinuePolicy keep_detached).                 *)
(* "tagRefused":    a volume cannot be tagged while it is being cloned.    *)
(* "stale":         a reconcile may read an out-of-date informer cache.    *)
(* "identity":      the cluster names its own credentials, and they are    *)
(*                  for another account than the manager's global ones.    *)
(* "orphan":        the owner Machine or the VerdaCluster may disappear.   *)
(* "pause":         the cluster may be paused and resumed.                 *)
(* "foreign":       an unmanaged instance may take the same hostname.      *)
(* "evict":         the cloud may discontinue an instance by itself.       *)
(* "nocap":         the cloud may have no capacity for an instance.        *)
(* "keyloss":       the Secret with the SSH keys of haproxy may be lost.   *)
(***************************************************************************)
EnvKinds == {"keepDetached", "tagRefused", "stale", "identity", "orphan", "pause",
             "foreign", "evict", "nocap", "keyloss"}

ASSUME EnvAssumption == Env \subseteq EnvKinds
ASSUME NoneAssumption == None \notin (InstanceIDs \cup ScriptIDs \cup VolumeIDs)

VARIABLES
    istatus,   \* instance -> state; "none": never created, "purged": forgotten
    ishut,     \* instance -> a shutdown was requested and has not happened yet
    iscript,   \* instance -> the startup script it was created with
    ivol,      \* instance -> its volume
    scripts,   \* script -> "none", "present" or "deleted"
    vstatus,   \* volume -> state
    vmanaged   \* volume -> carries the capi-managed-by tag

cloudVars == <<istatus, ishut, iscript, ivol, scripts, vstatus, vmanaged>>

LiveStatus == {"provisioning", "running", "offline", "no_capacity", "error", "deleting"}
GoneStatus == {"discontinued", "deleted"}
InstanceStatus == LiveStatus \cup GoneStatus \cup {"none", "purged"}
ReportedStatus == LiveStatus \cup GoneStatus \cup {"notfound"}
VolumeStatus == {"none", "cloning", "detached", "attached", "trash", "deleting", "deleted"}

CloudTypeOK ==
    /\ istatus \in [InstanceIDs -> InstanceStatus]
    /\ ishut \in [InstanceIDs -> BOOLEAN]
    /\ iscript \in [InstanceIDs -> ScriptIDs \cup {None}]
    /\ ivol \in [InstanceIDs -> VolumeIDs \cup {None}]
    /\ scripts \in [ScriptIDs -> {"none", "present", "deleted"}]
    /\ vstatus \in [VolumeIDs -> VolumeStatus]
    /\ vmanaged \in [VolumeIDs -> BOOLEAN]

CloudInit ==
    /\ istatus = [i \in InstanceIDs |-> "none"]
    /\ ishut = [i \in InstanceIDs |-> FALSE]
    /\ iscript = [i \in InstanceIDs |-> None]
    /\ ivol = [i \in InstanceIDs |-> None]
    /\ scripts = [s \in ScriptIDs |-> "none"]
    /\ vstatus = [v \in VolumeIDs |-> "none"]
    /\ vmanaged = [v \in VolumeIDs |-> FALSE]

Live(i) == istatus[i] \in LiveStatus
NoLive == \A i \in InstanceIDs : ~Live(i)
OnlyLive(i) == \A j \in InstanceIDs : Live(j) => j = i
Present == {s \in ScriptIDs : scripts[s] = "present"}

-----------------------------------------------------------------------------
(* Lookups.                                                                *)

\* Mutant: ErrNotFound is not translated.
GetInstanceRaw(i) == istatus[i]

\* GetInstance: ErrNotFound becomes "notfound" in every caller.
GetInstance(i) == IF istatus[i] \in {"none", "purged"} THEN "notfound" ELSE istatus[i]

\* The instances carrying the tag that the list call returns.  That it has none that
\* are deleted is an assumption about the API: FindInstanceByTag passes over
\* discontinued ones only, and would take one that is deleted for the current one.
Listed == {i \in InstanceIDs : istatus[i] \in LiveStatus \cup {"discontinued"}}

\* The first match in list order that is not discontinued, else a discontinued
\* one.  The API promises no order, so any match may come first.
FindInstanceByTag ==
    LET current == {i \in Listed : istatus[i] # "discontinued"}
    IN  IF current # {} THEN current ELSE Listed

\* What GetVolume may say of a volume.  A volume in the trash is reported as
\* deleted or not at all.
GetVolume(v) ==
    CASE vstatus[v] = "trash" -> {"deleted", "notfound"}
      [] vstatus[v] \in {"none", "deleted"} -> {"notfound"}
      [] OTHER -> {vstatus[v]}

FindVolumeByName == {v \in VolumeIDs : vstatus[v] \in {"cloning", "detached", "attached", "deleting"}}

PendingVolume(i) ==
    /\ istatus[i] \notin {"none", "purged"}
    /\ ivol[i] # None
    /\ vstatus[ivol[i]] \notin {"none", "trash", "deleted"}

-----------------------------------------------------------------------------
(* Calls that change the account.                                          *)

\* DeleteStartupScriptByName, having deleted the scripts S of those it listed.
DeleteScripts(S) ==
    /\ scripts' = [s \in ScriptIDs |-> IF s \in S THEN "deleted" ELSE scripts[s]]
    /\ UNCHANGED <<istatus, ishut, iscript, ivol, vstatus, vmanaged>>

AddStartupScript(s) ==
    /\ scripts[s] = "none"
    /\ scripts' = [scripts EXCEPT ![s] = "present"]
    /\ UNCHANGED <<istatus, ishut, iscript, ivol, vstatus, vmanaged>>

\* Instances.Create: instance i with startup script s; S are the scripts the
\* client deletes again when it is told that the call failed.
InstancesCreate(i, s, v, S) ==
    /\ istatus[i] = "none"
    /\ istatus' = [istatus EXCEPT ![i] = "provisioning"]
    /\ iscript' = [iscript EXCEPT ![i] = s]
    /\ ivol' = [ivol EXCEPT ![i] = v]
    /\ vstatus' = [vstatus EXCEPT ![v] = "attached"]
    /\ scripts' = [x \in ScriptIDs |-> IF x \in S THEN "deleted" ELSE scripts[x]]
    /\ UNCHANGED <<ishut, vmanaged>>

\* PurgeInstanceVolumes: what is in the trash is deleted for good.
PurgeInstanceVolumes(i) ==
    /\ vstatus' = [v \in VolumeIDs |->
                     IF v = ivol[i] /\ vstatus[v] = "trash" /\ istatus[i] \notin {"none", "purged"}
                     THEN "deleted" ELSE vstatus[v]]
    /\ UNCHANGED <<istatus, ishut, iscript, ivol, scripts, vmanaged>>

\* DeleteInstance: purge what is gone, leave alone what is being deleted,
\* delete what is offline and shut down everything else.
DeleteInstance(i) ==
    \/ /\ istatus[i] \in {"none", "purged", "deleting"}
       /\ UNCHANGED cloudVars
    \/ /\ istatus[i] \in GoneStatus
       /\ PurgeInstanceVolumes(i)
    \/ /\ istatus[i] = "offline"
       /\ istatus' = [istatus EXCEPT ![i] = "deleting"]
       /\ UNCHANGED <<ishut, iscript, ivol, scripts, vstatus, vmanaged>>
    \/ /\ istatus[i] \in LiveStatus \ {"offline", "deleting"}
       /\ ishut' = [ishut EXCEPT ![i] = TRUE]
       /\ UNCHANGED <<istatus, iscript, ivol, scripts, vstatus, vmanaged>>

\* CloneVolume; tagged says whether the tag call inside it went through.
CloneVolume(v, tagged) ==
    /\ vstatus[v] = "none"
    /\ vstatus' = [vstatus EXCEPT ![v] = "cloning"]
    /\ vmanaged' = [vmanaged EXCEPT ![v] = tagged]
    /\ UNCHANGED <<istatus, ishut, iscript, ivol, scripts>>

TagVolume(v) ==
    /\ vmanaged' = [vmanaged EXCEPT ![v] = TRUE]
    /\ UNCHANGED <<istatus, ishut, iscript, ivol, scripts, vstatus>>

\* Mutant: a volume that is still being cloned is skipped.
DeleteVolumeUnlessCloning(v) ==
    /\ vstatus' = [vstatus EXCEPT ![v] = IF @ \in {"none", "trash", "deleted", "cloning"} THEN @ ELSE "deleting"]
    /\ UNCHANGED <<istatus, ishut, iscript, ivol, scripts, vmanaged>>

\* DeleteVolume of a volume that carries the tag; the caller handles ErrNotManaged.
DeleteVolume(v) ==
    /\ vstatus' = [vstatus EXCEPT ![v] = IF @ \in {"none", "trash", "deleted"} THEN @ ELSE "deleting"]
    /\ UNCHANGED <<istatus, ishut, iscript, ivol, scripts, vmanaged>>

-----------------------------------------------------------------------------
(* What the cloud does by itself (external).                               *)

Moves == {<<"provisioning", "running">>, <<"provisioning", "error">>, <<"deleting", "discontinued">>,
          <<"deleting", "deleted">>, <<"discontinued", "purged">>, <<"deleted", "purged">>}
         \cup (IF "nocap" \in Env THEN {<<"provisioning", "no_capacity">>} ELSE {})
         \cup (IF "evict" \in Env THEN {"running", "no_capacity"} \X {"discontinued"} ELSE {})

InstanceMoves(i) ==
    /\ \E m \in Moves : istatus[i] = m[1] /\ istatus' = [istatus EXCEPT ![i] = m[2]]
    /\ UNCHANGED <<ishut, iscript, ivol, scripts, vstatus, vmanaged>>

InstanceShutsDown(i) ==
    /\ ishut[i]
    /\ ishut' = [ishut EXCEPT ![i] = FALSE]
    /\ istatus' = [istatus EXCEPT ![i] = IF @ \in LiveStatus \ {"deleting"} THEN "offline" ELSE @]
    /\ UNCHANGED <<iscript, ivol, scripts, vstatus, vmanaged>>

CloneFinishes(v) ==
    /\ vstatus[v] = "cloning"
    /\ vstatus' = [vstatus EXCEPT ![v] = "detached"]
    /\ UNCHANGED <<istatus, ishut, iscript, ivol, scripts, vmanaged>>

\* The volume of an instance that is gone leaves it.
VolumeReleased(i) ==
    /\ istatus[i] \in GoneStatus \cup {"purged"}
    /\ ivol[i] # None
    /\ vstatus[ivol[i]] = "attached"
    /\ \A j \in InstanceIDs : ivol[j] = ivol[i] => ~Live(j)
    /\ \E s \in {"trash", "deleted"} \cup (IF "keepDetached" \in Env THEN {"detached"} ELSE {}) :
          vstatus' = [vstatus EXCEPT ![ivol[i]] = s]
    /\ UNCHANGED <<istatus, ishut, iscript, ivol, scripts, vmanaged>>

VolumeDeleted(v) ==
    /\ vstatus[v] = "deleting"
    /\ vstatus' = [vstatus EXCEPT ![v] = "deleted"]
    /\ UNCHANGED <<istatus, ishut, iscript, ivol, scripts, vmanaged>>

CloudStep ==
    \/ \E i \in InstanceIDs : InstanceMoves(i) \/ InstanceShutsDown(i) \/ VolumeReleased(i)
    \/ \E v \in VolumeIDs : CloneFinishes(v) \/ VolumeDeleted(v)

=============================================================================
