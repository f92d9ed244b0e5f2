---------------------------- MODULE VerdaCluster ----------------------------
(***************************************************************************)
(* internal/controller/verdacluster_controller.go and                      *)
(* verdacluster_servicelb.go: the reconciler of one VerdaCluster and the   *)
(* instances it runs, haproxy in front of the control plane (role = "lb")  *)
(* and envoy for the Services of the workload cluster (role =              *)
(* "servicelb").                                                           *)
(*                                                                         *)
(* The two instances share nothing but the order in which one reconcile    *)
(* serves them: the control plane first when it creates, the services      *)
(* first when it deletes.  The model follows the instance that role names; *)
(* of the other it keeps whether it still exists (other), and its failures *)
(* are failures of the call at which it is served.  role = "user" is a     *)
(* cluster without the first of them: the user provides the endpoint, in   *)
(* the VerdaCluster or in the Cluster.                                     *)
(*                                                                         *)
(* An address is named by its instance, SSH keys by the number of the      *)
(* Secret they were generated for.  Left out: the failure domain (copied), *)
(* condition reasons, SecretPublished (never read back), a key Secret that *)
(* the user has emptied.                                                   *)
(* A reconcile reads the current object; what a stale copy can do is shown *)
(* for the same calls in VerdaMachine.                                     *)
(***************************************************************************)
EXTENDS Reconcile

CONSTANTS
    Roles,       \* what is followed: "lb", "servicelb", "user"
    Nodes,       \* the addresses of control plane machines
    Hosts,       \* the endpoints a user may provide
    MaxChanges   \* bound on changes of the machines and of the user

ASSUME RolesAssumption == Roles \subseteq {"lb", "servicelb", "user"}
ASSUME HostsAssumption == (Hosts \cap InstanceIDs) \cup (Hosts \cap {None}) = {}
ASSUME ChangesAssumption == MaxChanges \in Nat

VARIABLES
    role,     \* the instance that is followed in this behaviour
    held,     \* why the object is not reconciled: "owner", "paused", or "no"
    other,    \* the other instance exists
    want,     \* controlPlaneAddresses: the machines that should be backends
    conf,     \* instance -> the backends haproxy really has
    secret,   \* the address and the keys in the Secret of the workload cluster
    host,     \* spec.controlPlaneEndpoint of the Cluster
    keySecret,\* the keys in the Secret of this cluster, 0 if there is none
    made,     \* how many keys were generated
    ikeys,    \* instance -> the keys it was created with
    keys,     \* the keys the running reconcile has got from ensureKeys
    changes   \* changes left

around == <<role, held, other, want, host, changes>>
scope == <<pc, mem, base, found, script, keys>>
outside == <<conf, secret, keySecret, made, ikeys>>
vars == <<cloudVars, obj, queued, scope, around, outside, faults, crashes>>

PCs == {"idle", "keys", "find", "script", "addScript", "create", "record", "backends", "publish", "delFind",
        "delInstance", "purge", "delScript", "delOther", "unpublish",
        "patchConditions", "patchMeta", "patchStatus"}

Clusters == [exists: BOOLEAN, finalizer: BOOLEAN, deleting: BOOLEAN, enabled: BOOLEAN,
             endpoint: InstanceIDs \cup Hosts \cup {None}, delReq: LiveStatus \cup {"none"},
             instanceID: InstanceIDs \cup {None}, scriptID: ScriptIDs \cup {None},
             backends: SUBSET Nodes, ready: BOOLEAN, provisioned: BOOLEAN]

NewCluster == [exists |-> TRUE, finalizer |-> FALSE, deleting |-> FALSE, enabled |-> TRUE,
               endpoint |-> None, delReq |-> "none", instanceID |-> None, scriptID |-> None,
               backends |-> {}, ready |-> FALSE, provisioned |-> FALSE]

NoSecret == [id |-> None, keys |-> 0]

\* Every variable holds a value of its type, the copies of the object included,
\* and a call on an instance has one.
TypeOK ==
    /\ CloudTypeOK
    /\ obj \in Clusters /\ mem \in Clusters /\ base \in Clusters
    /\ queued \in BOOLEAN /\ other \in BOOLEAN
    /\ role \in Roles /\ held \in {"owner", "paused", "no"}
    /\ pc \in PCs
    /\ found \in [id: InstanceIDs \cup {None}, status: ReportedStatus]
    /\ pc \in {"record", "backends", "publish", "delInstance", "purge"} => found.id # None
    /\ script \in ScriptIDs \cup {None}
    /\ want \in SUBSET Nodes /\ conf \in [InstanceIDs -> SUBSET Nodes]
    /\ secret \in [id: InstanceIDs \cup {None}, keys: 0..made]
    /\ host \in Hosts \cup {None}
    /\ made \in 0..(MaxChanges + 1) /\ keySecret \in {0, made} /\ keys \in 0..made
    /\ ikeys \in [InstanceIDs -> 0..made]
    /\ faults \in 0..MaxFaults /\ crashes \in 0..MaxCrashes /\ changes \in 0..MaxChanges

Init ==
    /\ CloudInit
    /\ obj = NewCluster /\ mem = NewCluster /\ base = NewCluster
    /\ role \in Roles /\ queued = TRUE /\ held = "owner" /\ other \in BOOLEAN
    /\ pc = "idle" /\ found = NoInstance /\ script = None
    /\ want = {} /\ conf = [i \in InstanceIDs |-> {}] /\ secret = NoSecret
    /\ host = None /\ keySecret = 0 /\ made = 0 /\ keys = 0 /\ ikeys = [i \in InstanceIDs |-> 0]
    /\ faults = MaxFaults /\ crashes = MaxCrashes /\ changes = MaxChanges

\* A reconcile changes neither its surroundings nor, before its deferred patch,
\* the object.
Inside == UNCHANGED <<obj, base, around, crashes>>
KeepsKeys == UNCHANGED <<keys, keySecret, made, ikeys>>

-----------------------------------------------------------------------------
(* Reconcile                                                               *)

CanStart == pc = "idle" /\ queued
NeedsFinalizer == obj.exists /\ ~obj.finalizer /\ ~obj.deleting

\* The object is gone, has no owner yet, or is paused.
Waits == ~obj.exists \/ held = "paused" \/ (held = "owner" /\ ~obj.deleting)

ReconcileWaits ==
    /\ CanStart /\ ~NeedsFinalizer /\ Waits
    /\ queued' = FALSE
    /\ UNCHANGED <<cloudVars, obj, scope, around, outside, faults, crashes>>

EnsureFinalizer ==
    /\ CanStart /\ NeedsFinalizer
    /\ \/ NoFault /\ obj' = [obj EXCEPT !.finalizer = TRUE]
       \/ Fault /\ UNCHANGED obj
    /\ UNCHANGED <<cloudVars, queued, scope, around, outside, crashes>>

\* reconcileDelete serves the services first: while that instance is being
\* deleted the one of the control plane is not touched.
StartsDelete ==
    \/ (role = "servicelb" \/ ~other) /\ pc' = "delFind" /\ queued' = FALSE /\ mem' = obj
    \/ role # "servicelb" /\ other /\ pc' = "patchConditions" /\ queued' = TRUE /\ mem' = obj

\* Mutant: the endpoint of the Cluster is not copied.
EndpointReported ==
    mem' = IF obj.endpoint = None /\ host = None THEN NotReady(obj)
           ELSE [obj EXCEPT !.ready = TRUE, !.provisioned = TRUE]

\* Mutant: only the endpoint of the Cluster is looked at.
ClusterEndpointOnly ==
    mem' = IF host = None THEN NotReady(obj)
           ELSE [obj EXCEPT !.endpoint = IF @ # None THEN @ ELSE host, !.ready = TRUE, !.provisioned = TRUE]

\* reconcileEndpoint without a load balancer: the endpoint of the VerdaCluster,
\* else that of the Cluster; ready is ControlPlaneEndpointReady.
reconcileEndpoint ==
    LET endpoint == IF obj.endpoint # None THEN obj.endpoint ELSE host
    IN  mem' = IF endpoint = None THEN NotReady(obj)
               ELSE [obj EXCEPT !.endpoint = endpoint, !.ready = TRUE, !.provisioned = TRUE]

\* Mutant: a service load balancer that was switched off is only forgotten.
StartsNormalForgets ==
    \/ (role = "lb" \/ (role = "servicelb" /\ obj.enabled)) /\ pc' = "keys" /\ mem' = obj
    \/ /\ role = "servicelb" /\ ~obj.enabled
       /\ pc' = "patchConditions" /\ mem' = [NotReady(obj) EXCEPT !.instanceID = None, !.scriptID = None]
    \/ role = "user" /\ pc' = "patchConditions" /\ reconcileEndpoint

\* reconcileNormal: a service load balancer that is switched off is deleted if
\* the status still names it.
StartsNormal ==
    \/ (role = "lb" \/ (role = "servicelb" /\ obj.enabled)) /\ pc' = "keys" /\ mem' = obj
    \/ role = "servicelb" /\ ~obj.enabled /\ obj.instanceID # None /\ pc' = "delFind" /\ mem' = obj
    \/ /\ role = "servicelb" /\ ~obj.enabled /\ obj.instanceID = None
       /\ pc' = "patchConditions" /\ mem' = NotReady(obj)
    \/ role = "user" /\ pc' = "patchConditions" /\ reconcileEndpoint

\* ClientFor fails, which is reported as the state of the endpoint unless the
\* owner is gone, or a call for the other instance does: before this one is
\* served, or after the endpoint of the user was.
FailsToStart ==
    /\ Fault /\ pc' = "patchConditions" /\ queued' = TRUE
    /\ \/ (role # "user" \/ obj.deleting) /\ mem' = obj
       \/ role = "user" /\ held = "no" /\ mem' = NotReady(obj)
       \/ role = "user" /\ ~obj.deleting /\ reconcileEndpoint

\* Reconcile up to the first call for this instance.
ReconcileStarts ==
    /\ CanStart /\ ~NeedsFinalizer /\ ~Waits
    /\ base' = obj
    /\ \/ NoFault /\ obj.deleting /\ StartsDelete
       \/ NoFault /\ ~obj.deleting /\ StartsNormal /\ queued' = FALSE
       \/ FailsToStart
    /\ UNCHANGED <<cloudVars, obj, found, script, keys, around, outside, crashes>>

-----------------------------------------------------------------------------
(* reconcileLoadBalancer and reconcileServiceLoadBalancer                  *)

Generated == keySecret' = made + 1 /\ made' = made + 1

\* Mutant: the Secret is not read first.
GenerateKeys ==
    /\ pc = "keys"
    /\ \/ NoFault /\ Generated /\ keys' = made + 1 /\ Continue("find", mem)
       \/ ReturnError(mem) /\ UNCHANGED <<keys, keySecret, made>>
    /\ Inside /\ UNCHANGED <<cloudVars, found, script, conf, secret, ikeys>>

\* ensureKeys: the keys of the Secret, or new ones once they are stored in it.  A
\* Secret that the cache does not show yet is met when it is created again, and
\* read then.
ensureKeys ==
    /\ pc = "keys"
    /\ \/ /\ keySecret # 0 /\ NoFault
          /\ keys' = keySecret /\ Continue("find", mem) /\ UNCHANGED <<keySecret, made>>
       \/ /\ keySecret = 0 /\ NoFault
          /\ Generated /\ keys' = made + 1 /\ Continue("find", mem)
       \/ /\ ReturnError(mem) /\ UNCHANGED keys
          /\ UNCHANGED <<keySecret, made>> \/ (keySecret = 0 /\ Generated)
    /\ Inside /\ UNCHANGED <<cloudVars, found, script, conf, secret, ikeys>>

ByID(id) == {[id |-> id, status |-> GetInstance(id)]}
ByTag == {[id |-> i, status |-> istatus[i]] : i \in FindInstanceByTag}

\* Mutant: the tag is not asked for.
FindRecordedOnly == IF mem.instanceID # None THEN ByID(mem.instanceID) ELSE {NoInstance}

\* Mutant: an error of the lookup by tag is taken for ErrNotFound.
FindErrorIsNone == IF mem.instanceID # None THEN ByID(mem.instanceID) ELSE ByTag \cup {NoInstance}

\* findLoadBalancer, which takes what the tag finds even if it is gone, and
\* findInstanceByStatusOrTag, which does not.
findLoadBalancer ==
    IF mem.instanceID # None THEN ByID(mem.instanceID)
    ELSE IF ByTag = {} THEN {NoInstance}
    ELSE IF role = "lb" THEN ByTag
    ELSE {IF instanceGone(r.status) THEN NoInstance ELSE r : r \in ByTag}

FindInstance ==
    /\ pc = "find"
    /\ \/ NoFault /\ \E r \in findLoadBalancer :
             found' = r /\ Continue(IF r.id # None THEN "record" ELSE "script", mem)
       \/ ReturnError(mem) /\ UNCHANGED found
    /\ Inside /\ KeepsKeys /\ UNCHANGED <<cloudVars, script, conf, secret>>

\* The name of the load balancer may be taken by an unmanaged instance, too.
CreateRemovesScripts ==
    /\ pc = "script"
    /\ \E blocked \in {FALSE, "foreign" \in Env} : RemoveOldScripts(blocked)
    /\ Inside /\ KeepsKeys /\ UNCHANGED <<found, script, conf, secret>>

CreateAddsScript ==
    /\ pc = "addScript"
    /\ AddScript
    /\ Inside /\ KeepsKeys /\ UNCHANGED <<found, conf, secret>>

CreateInstance ==
    /\ pc = "create"
    /\ Instantiate({v \in VolumeIDs : vstatus[v] = "none"})
    /\ ikeys' = [i \in InstanceIDs |-> IF istatus[i] = "none" /\ istatus'[i] # "none" THEN keys ELSE ikeys[i]]
    /\ Inside /\ UNCHANGED <<script, keys, conf, secret, keySecret, made>>

\* Mutant: an instance that was created counts as ready.
RecordAsReady ==
    /\ pc = "record"
    /\ LET m == [mem EXCEPT !.instanceID = found.id,
                            !.scriptID = IF found.status # "notfound" /\ iscript[found.id] # None
                                         THEN iscript[found.id] ELSE @]
           ended == instanceGone(found.status) \/ found.status \in {"error", "no_capacity"}
       IN  IF found.status # "running" THEN Return([m EXCEPT !.ready = TRUE], ~ended)
           ELSE IF role = "lb" THEN Continue("backends", [m EXCEPT !.endpoint = found.id])
           ELSE Continue("publish", m)
    /\ NoFault
    /\ Inside /\ KeepsKeys /\ UNCHANGED <<cloudVars, found, script, conf, secret>>

\* The instance is recorded; the switch over its state.  Its public address
\* comes with the state running.
RecordInstance ==
    /\ pc = "record"
    /\ LET m == [mem EXCEPT !.instanceID = found.id,
                            !.scriptID = IF found.status # "notfound" /\ iscript[found.id] # None
                                         THEN iscript[found.id] ELSE @]
           ended == instanceGone(found.status) \/ found.status \in {"error", "no_capacity"}
       IN  IF found.status # "running" THEN Return(NotReady(m), ~ended)
           ELSE IF role = "lb" THEN Continue("backends", [m EXCEPT !.endpoint = found.id])
           ELSE Continue("publish", m)
    /\ NoFault
    /\ Inside /\ KeepsKeys /\ UNCHANGED <<cloudVars, found, script, conf, secret>>

\* Mutant: the backends are recorded although the update has failed.
UpdateBackendsOptimistic ==
    /\ pc = "backends"
    /\ LET up == istatus[found.id] = "running" /\ ikeys[found.id] = keys
           m == [mem EXCEPT !.backends = want, !.provisioned = TRUE]
       IN  /\ NoFault /\ Return([m EXCEPT !.ready = up \/ want = mem.backends], TRUE)
           /\ conf' = [conf EXCEPT ![found.id] = IF up /\ want # mem.backends THEN want ELSE @]
    /\ Inside /\ KeepsKeys /\ UNCHANGED <<cloudVars, found, script, secret>>

\* UpdateBackends is called when the machines differ from status.backends; it
\* needs a running instance that has these keys.  The machines may not be listed.
UpdateBackends ==
    /\ pc = "backends"
    /\ LET differs == want # mem.backends
           up == istatus[found.id] = "running" /\ ikeys[found.id] = keys
           set == conf' = [conf EXCEPT ![found.id] = want]
           m == [mem EXCEPT !.provisioned = TRUE]
       IN  \/ ~differs /\ NoFault /\ UNCHANGED conf /\ Return([m EXCEPT !.ready = TRUE], TRUE)
           \/ differs /\ up /\ NoFault /\ set /\ Return([m EXCEPT !.backends = want, !.ready = TRUE], TRUE)
           \/ differs /\ ~up /\ NoFault /\ UNCHANGED conf /\ Return(NotReady(m), TRUE)
           \/ /\ differs /\ ReturnError(NotReady(m))
              /\ UNCHANGED conf \/ (up /\ set)
           \/ ReturnError(mem) /\ UNCHANGED conf
    /\ Inside /\ KeepsKeys /\ UNCHANGED <<cloudVars, found, script, secret>>

\* publishServiceLoadBalancerSecret writes the address and the keys if they differ.
PublishSecret ==
    /\ pc = "publish"
    /\ LET data == [id |-> found.id, keys |-> keys]
       IN  \/ NoFault /\ secret' = data /\ Return([mem EXCEPT !.ready = TRUE], FALSE)
           \/ ReturnError(NotReady(mem)) /\ secret' \in {secret, data}
    /\ Inside /\ KeepsKeys /\ UNCHANGED <<cloudVars, found, script, conf>>

-----------------------------------------------------------------------------
(* reconcileDelete and deleteServiceLoadBalancer                           *)

DeleteFindsInstance(elapsed) ==
    /\ pc = "delFind"
    /\ \/ /\ NoFault
          /\ \E r \in findLoadBalancer :
                /\ found' = r
                /\ IF instanceGone(r.status)
                   THEN Continue(IF r.status = "notfound" THEN "delScript" ELSE "purge", mem)
                   ELSE IF r.status # "deleting" /\ DeleteRequestDue(r.status, elapsed)
                        THEN Continue("delInstance", [mem EXCEPT !.delReq = r.status])
                        ELSE Return(mem, TRUE)
       \/ ReturnError(mem) /\ UNCHANGED found
    /\ Inside /\ KeepsKeys /\ UNCHANGED <<cloudVars, script, conf, secret>>

DeleteRequestsInstance ==
    /\ pc = "delInstance"
    /\ RequestDelete(NotReady(mem))
    /\ Inside /\ KeepsKeys /\ UNCHANGED <<found, script, conf, secret>>

DeletePurgesVolumes ==
    /\ pc = "purge"
    /\ PurgeVolumes
    /\ Inside /\ KeepsKeys /\ UNCHANGED <<found, script, conf, secret>>

\* Mutant: the finalizer goes without the script.
KeepScript ==
    /\ pc = "delScript"
    /\ NoFault /\ Return([mem EXCEPT !.finalizer = ~mem.deleting], FALSE)
    /\ Inside /\ KeepsKeys /\ UNCHANGED <<cloudVars, found, script, conf, secret>>

\* The script by its ID, else by hostname; then what comes after this instance.
DeleteScript ==
    /\ pc = "delScript"
    /\ LET S == IF mem.scriptID # None THEN {mem.scriptID} ELSE IF role = "user" THEN {} ELSE Present
           m == [mem EXCEPT !.scriptID = None]
       IN  \/ /\ NoFault /\ DeleteScripts(S)
              /\ IF role # "servicelb" THEN Return([m EXCEPT !.finalizer = FALSE], FALSE)
                 ELSE Continue(IF mem.deleting THEN "delOther" ELSE "unpublish", m)
           \/ \E T \in SUBSET S : DeleteScripts(T) /\ ReturnError(mem)
    /\ Inside /\ KeepsKeys /\ UNCHANGED <<found, script, conf, secret>>

\* The cluster is deleted: after the service load balancer the other one.
DeleteOther ==
    /\ pc = "delOther"
    /\ \/ NoFault /\ other /\ Return(mem, TRUE)
       \/ NoFault /\ ~other /\ Return([mem EXCEPT !.finalizer = FALSE], FALSE)
       \/ ReturnError(mem)
    /\ Inside /\ KeepsKeys /\ UNCHANGED <<cloudVars, found, script, conf, secret>>

\* Mutant: only the status is cleared.
ClearStatusOnly ==
    /\ pc = "unpublish"
    /\ NoFault /\ Return([NotReady(mem) EXCEPT !.instanceID = None, !.scriptID = None], FALSE)
    /\ Inside /\ KeepsKeys /\ UNCHANGED <<cloudVars, found, script, conf, secret>>

\* The service load balancer was switched off: removeServiceLoadBalancerSecret
\* ignores errors, then its status is cleared.
RemoveSecret ==
    /\ pc = "unpublish"
    /\ (NoFault /\ secret' = NoSecret) \/ (Fault /\ UNCHANGED secret)
    /\ Return([NotReady(mem) EXCEPT !.instanceID = None, !.scriptID = None], FALSE)
    /\ Inside /\ KeepsKeys /\ UNCHANGED <<cloudVars, found, script, conf>>

-----------------------------------------------------------------------------
(* patchVerdaCluster: up to three requests, each with the fields that      *)
(* differ from the object as it was read.  A change of the object is an    *)
(* event that queues it again.                                             *)

Patched(F) ==
    LET o == [f \in DOMAIN obj |-> IF f \in F /\ mem[f] # base[f] THEN mem[f] ELSE obj[f]]
    IN  [o EXCEPT !.exists = o.finalizer \/ ~o.deleting]

\* Request F is accepted, or rejected (refused), or fails.
PatchRequest(here, next, F, refused) ==
    /\ pc = here /\ pc' = next
    /\ \/ /\ NoFault /\ ~refused
          /\ obj' = IF obj.exists THEN Patched(F) ELSE obj
          /\ queued' = (queued \/ obj' # obj)
       \/ ((refused /\ NoFault) \/ Fault) /\ UNCHANGED obj /\ queued' = TRUE
    /\ UNCHANGED <<cloudVars, around, outside, crashes>>

PatchConditions ==
    /\ PatchRequest("patchConditions", "patchMeta", {"ready"}, FALSE)
    /\ UNCHANGED <<mem, base, found, script, keys>>

\* validateClusterSpecUpdate: an endpoint that is set stays.
EndpointChanges == obj.exists /\ obj.endpoint # None /\ mem.endpoint \notin {base.endpoint, obj.endpoint}

PatchMeta ==
    /\ PatchRequest("patchMeta", "patchStatus", {"endpoint", "delReq", "finalizer"}, EndpointChanges)
    /\ UNCHANGED <<mem, base, found, script, keys>>

PatchStatus ==
    /\ PatchRequest("patchStatus", "idle", {"instanceID", "scriptID", "backends", "provisioned"}, FALSE)
    /\ mem' = NewCluster /\ base' = NewCluster /\ found' = NoInstance /\ script' = None /\ keys' = 0

-----------------------------------------------------------------------------
(* The surroundings (external).                                            *)

Outside == UNCHANGED <<cloudVars, scope, role, outside, faults, crashes>>

UserDeletes ==
    /\ obj.exists /\ ~obj.deleting
    /\ obj' = IF obj.finalizer THEN [obj EXCEPT !.deleting = TRUE] ELSE [obj EXCEPT !.exists = FALSE]
    /\ queued' = TRUE
    /\ Outside /\ UNCHANGED around

\* spec.serviceLoadBalancer.enabled; that of the control plane is immutable.
UserSwitches ==
    /\ role = "servicelb" /\ changes > 0 /\ obj.exists
    /\ obj' = [obj EXCEPT !.enabled = ~@]
    /\ changes' = changes - 1 /\ queued' = TRUE
    /\ Outside /\ UNCHANGED <<held, other, want, host>>

\* An event of a VerdaMachine queues the cluster it belongs to.
verdaMachineToVerdaCluster == queued' = TRUE

\* controlPlaneAddresses: the control plane machines that are not being deleted
\* and have an address become others.
MachinesChange ==
    /\ role = "lb" /\ changes > 0
    /\ want' \in SUBSET Nodes \ {want}
    /\ changes' = changes - 1 /\ verdaMachineToVerdaCluster
    /\ Outside /\ UNCHANGED <<obj, held, other, host>>

OwnerAppears ==
    /\ held = "owner" /\ held' = "no" /\ queued' = TRUE
    /\ Outside /\ UNCHANGED <<obj, other, want, changes, host>>

PauseToggles ==
    /\ "pause" \in Env /\ changes > 0
    /\ \/ held = "no" /\ held' = "paused"
       \/ held = "paused" /\ held' = "no"
    /\ changes' = changes - 1 /\ queued' = TRUE
    /\ Outside /\ UNCHANGED <<obj, other, want, host>>

OtherGone ==
    /\ other /\ obj.deleting /\ other' = FALSE
    /\ Outside /\ UNCHANGED <<obj, queued, held, want, changes, host>>

\* The endpoint of the Cluster is set.  Of Cluster events only a change of paused
\* queues the VerdaCluster.
ClusterGetsEndpoint ==
    /\ role = "user" /\ host = None /\ host' \in Hosts
    /\ Outside /\ UNCHANGED <<obj, queued, held, other, want, changes>>

\* The user sets an endpoint, in the object before it is first reconciled or
\* later.  validateClusterSpec accepts that for a cluster with a load balancer, too.
UserSetsEndpoint ==
    /\ role # "servicelb" /\ obj.exists /\ obj.endpoint = None
    /\ \E h \in Hosts : obj' = [obj EXCEPT !.endpoint = h]
    /\ queued' = TRUE
    /\ Outside /\ UNCHANGED around

\* Somebody deletes the Secret with the SSH keys of haproxy, which is not watched.
KeySecretLost ==
    /\ "keyloss" \in Env /\ role = "lb" /\ changes > 0 /\ keySecret # 0
    /\ keySecret' = 0 /\ changes' = changes - 1
    /\ UNCHANGED <<cloudVars, obj, queued, scope, role, held, other, want, host, conf, secret, made, ikeys,
                   faults, crashes>>

Crash ==
    /\ crashes > 0 /\ pc # "idle"
    /\ crashes' = crashes - 1
    /\ pc' = "idle" /\ mem' = NewCluster /\ base' = NewCluster /\ found' = NoInstance /\ script' = None /\ keys' = 0
    /\ queued' = TRUE
    /\ UNCHANGED <<cloudVars, obj, around, outside, faults>>

CloudMoves == CloudStep /\ UNCHANGED <<obj, queued, scope, around, outside, faults, crashes>>

-----------------------------------------------------------------------------
Normal == ensureKeys \/ FindInstance \/ CreateRemovesScripts \/ CreateAddsScript \/ CreateInstance \/ RecordInstance
          \/ UpdateBackends \/ PublishSecret

Delete == \/ \E elapsed \in BOOLEAN : DeleteFindsInstance(elapsed)
          \/ DeleteRequestsInstance \/ DeletePurgesVolumes \/ DeleteScript \/ DeleteOther \/ RemoveSecret

Controller == ReconcileWaits \/ EnsureFinalizer \/ ReconcileStarts \/ Normal \/ Delete
              \/ PatchConditions \/ PatchMeta \/ PatchStatus

Surroundings == UserDeletes \/ UserSwitches \/ MachinesChange \/ OwnerAppears \/ PauseToggles
                \/ OtherGone \/ ClusterGetsEndpoint \/ UserSetsEndpoint \/ KeySecretLost \/ Crash \/ CloudMoves

Next == Controller \/ Surroundings

Spec == Init /\ [][Next]_vars

\* The fairness of VerdaMachine: the queue and the running reconcile go on, a
\* delete request falls due again and again, and the surroundings finish what they
\* have begun: the owner appears, the other instance gets deleted, the cloud
\* provisions, shuts down and deletes.
InstanceSettles(i) == istatus[i] \in {"provisioning", "deleting"} /\ InstanceMoves(i)

CloudFinishes ==
    /\ \E i \in InstanceIDs : InstanceSettles(i) \/ InstanceShutsDown(i) \/ VolumeReleased(i)
    /\ UNCHANGED <<obj, queued, scope, around, outside, faults, crashes>>

Settles == OwnerAppears \/ OtherGone \/ CloudFinishes

Fairness == WF_vars(Controller) /\ WF_vars(Settles) /\ SF_vars(DeleteFindsInstance(TRUE))

FairSpec == Spec /\ Fairness

-----------------------------------------------------------------------------
(* Properties.                                                             *)

\* The user has set the endpoint of this cluster.
UserEndpoint == obj.endpoint \in Hosts

\* "the provider fills this in with the address of the load balancer instance
\* it creates": a load balancer that is reported ready is the one the endpoint
\* names (reconcileLoadBalancer sets both).  Not so when the user has set another
\* endpoint, which is immutable: the webhook then refuses the one of the load
\* balancer in every reconcile, and what is left of the patch goes through.  A
\* request of the patch that is lost is repeated, so this is while no call fails.
EndpointNamesLoadBalancer ==
    Undisturbed /\ role = "lb" /\ pc = "idle" /\ obj.exists /\ obj.ready
       => UserEndpoint \/ obj.endpoint = obj.instanceID

\* The endpoint and the ID of the instance are written by two requests, and each
\* may be lost: the instance that is recorded is never another one than the
\* endpoint names for good, since the first is found again by its tag.  Only if
\* the cloud has discontinued and forgotten it in between is a second created.
EndpointKeepsInstance ==
    /\ "evict" \notin Env /\ role = "lb" /\ obj.exists
    /\ obj.endpoint \in InstanceIDs /\ obj.instanceID # None
    => obj.endpoint = obj.instanceID

\* "LoadBalancerReadyCondition reports whether the ... instance is running and
\* its backends are in sync": it is never forever true while haproxy has other
\* backends than the control plane machines (UpdateBackends, status.backends),
\* unless the cluster is paused.
BackendsInSync ==
    []<>(held # "paused" /\ obj.exists /\ obj.ready /\ obj.instanceID # None => conf[obj.instanceID] = want)

\* A call has failed, and status.backends is not what haproxy has.
BackendsMisrecorded == ~Undisturbed /\ conf[obj.instanceID] # obj.backends

\* The same with its exception: as long as status.backends is what haproxy has,
\* every change of the machines reaches it, or the load balancer is not reported
\* ready, as when its keys are lost and no update succeeds any more.
BackendsFollow ==
    []<>(held # "paused" /\ obj.exists /\ obj.ready /\ obj.instanceID # None
           => conf[obj.instanceID] = want \/ BackendsMisrecorded)

\* "Setting enabled back to false deletes the envoy instance and its volume":
\* no service load balancer that stays switched off has an instance forever.  An
\* instance that is not recorded is not looked for: this holds while no call fails.
SwitchedOffIsDeleted == []<>(~Undisturbed \/ obj.enabled \/ held = "paused" \/ NoLive)

\* "... and removes the Secret from the workload cluster": neither does the
\* Secret outlive it (removeServiceLoadBalancerSecret, which ignores errors, so
\* again while no call fails).
SwitchedOffIsUnpublished ==
    []<>(\/ ~Undisturbed \/ obj.enabled \/ ~obj.exists \/ obj.deleting \/ held = "paused"
         \/ secret = NoSecret)

\* ServiceLoadBalancerReady says that the address was handed to the workload
\* cluster: when no reconcile is due the Secret names the instance the status
\* names, also after the load balancer was switched off and on and another
\* instance was created.
SecretNamesLoadBalancer ==
    role = "servicelb" /\ pc = "idle" /\ ~queued /\ held = "no" /\ obj.enabled /\ ~obj.deleting
       => (obj.ready /\ obj.instanceID # None
             => secret.id = obj.instanceID /\ ("keyloss" \notin Env => secret.keys = ikeys[obj.instanceID]))

\* Whenever an instance was created, with whatever failed or crashed around it,
\* its SSH keys are the ones in the Secret (ensureKeys stores them before
\* createLoadBalancer uses them): it can always be configured, as long as nobody
\* deletes the Secret.
KeysOpenInstance == "keyloss" \notin Env => \A i \in InstanceIDs : Live(i) => ikeys[i] = keySecret

\* A cluster that is reported as ready and provisioned has an endpoint when no
\* reconcile is due or held back: the three are written by three requests, each of
\* which may be lost or, when a user sets another endpoint in between, refused.
ProvisionedHasEndpoint ==
    obj.exists /\ pc = "idle" /\ ~queued /\ held = "no" /\ obj.ready /\ obj.provisioned => obj.endpoint # None

\* "the controller either surfaces a user-provided control plane endpoint ...":
\* a cluster whose user has set one becomes provisioned, also if a request of the
\* patch fails.
EndpointSurfaced ==
    []<>(role = "user" /\ obj.exists /\ ~obj.deleting /\ obj.endpoint # None => obj.provisioned \/ held = "paused")

\* "Both instances are deleted with the cluster": a cluster that is deleted goes
\* away, the two-phase delete reaches its end and the instance that is served
\* second is not forgotten.
ClusterDeletionCompletes == []<>(obj.exists /\ obj.deleting => held = "paused")

\* While no call fails and the manager does not crash, a deleted cluster leaves
\* neither an instance nor a script behind.
ClusterLeavesNothing == Undisturbed /\ ~obj.exists => NoLive /\ Present = {}

-----------------------------------------------------------------------------
(* What the controller promises of each of the two instances.  A cluster   *)
(* is never too far along for another: the service load balancer may be    *)
(* switched off and on again.                                              *)

Phase == IF ~obj.exists THEN "gone" ELSE IF obj.deleting THEN "deleting" ELSE "present"

Owner == INSTANCE InstanceOwner
         WITH object <- Phase, provisioned <- FALSE,
              live <- {i \in InstanceIDs : Live(i)}, used <- {i \in InstanceIDs : istatus[i] # "none"}

\* Every step is a step of an owner of at most one instance: switching the
\* service load balancer off and on, a lost reply or a crash never leads to a
\* second instance or to one that outlives the cluster.
ImplementsOwner == Owner!Spec

=============================================================================
