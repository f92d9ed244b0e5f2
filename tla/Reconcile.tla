------------------------------ MODULE Reconcile ------------------------------
(***************************************************************************)
(* What the reconcilers of VerdaMachine and VerdaCluster have in common: a *)
(* work queue with the object's key, a reconcile that runs as a sequence   *)
(* of calls on a copy of the object, and the calls both make to create and *)
(* to delete an instance.                                                  *)
(*                                                                         *)
(* pc says which call of the running reconcile comes next.  Each call may  *)
(* fail, and may have taken effect although it is reported as failed.      *)
(***************************************************************************)
EXTENDS VerdaCloud

CONSTANTS
    MaxFaults,    \* bound on transient failures of calls
    MaxCrashes    \* bound on crashes of the manager

ASSUME BoundsAssumption == MaxFaults \in Nat /\ MaxCrashes \in Nat

VARIABLES
    obj,      \* the object in the API server
    queued,   \* the work queue holds the object's key
    pc,       \* the next call of the running reconcile, "idle" if none runs
    mem,      \* the copy the reconcile works on
    base,     \* the copy patch.NewHelper remembers
    found,    \* the instance that was found or created
    script,   \* the startup script CreateInstance has added
    faults,   \* failures left
    crashes   \* crashes left

NoInstance == [id |-> None, status |-> "notfound"]

-----------------------------------------------------------------------------
(* How a call ends.                                                        *)

Fault == faults > 0 /\ faults' = faults - 1
NoFault == UNCHANGED faults

\* Mutant: RequeueAfter is dropped and errors are swallowed.
ReturnWithoutRequeue(m, again) ==
    /\ pc' = "patchConditions"
    /\ mem' = m
    /\ UNCHANGED queued

\* The body of reconcileNormal or reconcileDelete returns; the deferred patch
\* runs.  again: the result asks for a requeue or is an error.
Return(m, again) ==
    /\ pc' = "patchConditions"
    /\ mem' = m
    /\ queued' = (queued \/ again)

\* The call fails and its error is returned.
ReturnError(m) == Fault /\ Return(m, TRUE)

Continue(next, m) ==
    /\ pc' = next
    /\ mem' = m
    /\ UNCHANGED queued

\* No call has failed yet and the manager has not crashed.
Undisturbed == faults = MaxFaults /\ crashes = MaxCrashes

\* Mutant: the condition is not reset.
StillReady(m) == m

NotReady(m) == [m EXCEPT !.ready = FALSE]

\* Mutant: an instance that is shut down counts as gone.
OfflineIsGone(status) == status \in GoneStatus \cup {"notfound", "offline"}

instanceGone(status) == status \in GoneStatus \cup {"notfound"}

-----------------------------------------------------------------------------
(* CreateInstance of the client.                                           *)

\* Up to the first change: the hostname must not belong to an unmanaged
\* instance; older scripts of that name are removed.
RemoveOldScripts(blocked) ==
    \/ blocked /\ NoFault /\ Return(NotReady(mem), TRUE) /\ UNCHANGED cloudVars
    \/ ~blocked /\ NoFault /\ DeleteScripts(Present) /\ Continue("addScript", mem)
    \/ \E S \in SUBSET Present : DeleteScripts(S) /\ ReturnError(NotReady(mem))

AddScript ==
    \/ \E s \in ScriptIDs : AddStartupScript(s) /\ script' = s /\ NoFault /\ Continue("create", mem)
    \/ \E s \in ScriptIDs : AddStartupScript(s) /\ UNCHANGED script /\ ReturnError(NotReady(mem))
    \/ /\ Fault \/ (NoFault /\ \A s \in ScriptIDs : scripts[s] # "none")
       /\ Return(NotReady(mem), TRUE)
       /\ UNCHANGED <<cloudVars, script>>

\* Instances.Create with one of the volumes V.  When it fails the script is
\* deleted, best effort.
Instantiate(V) ==
    \/ \E i \in InstanceIDs, v \in V :
          /\ InstancesCreate(i, script, v, {})
          /\ found' = [id |-> i, status |-> "provisioning"]
          /\ NoFault /\ Continue("record", mem)
    \/ \E i \in InstanceIDs, v \in V, S \in SUBSET {script} :
          /\ InstancesCreate(i, script, v, S)
          /\ UNCHANGED found
          /\ ReturnError(NotReady(mem))
    \/ /\ \/ \E S \in SUBSET {script} : DeleteScripts(S) /\ Fault
          \/ /\ V = {} \/ \A i \in InstanceIDs : istatus[i] # "none"
             /\ DeleteScripts({script}) /\ NoFault
       /\ UNCHANGED found
       /\ Return(NotReady(mem), TRUE)

-----------------------------------------------------------------------------
(* Deleting an instance.                                                   *)

\* Mutant: a request is never repeated while the state stays the same.
DeleteRequestedOnce(status, elapsed) == mem.delReq # status

\* deleteRequestDue: the annotation holds the state at the last request; a
\* request is due when the state has changed or when 20s have passed.
DeleteRequestDue(status, elapsed) == mem.delReq # status \/ elapsed

RequestDelete(m) ==
    \/ NoFault /\ DeleteInstance(found.id) /\ Return(m, TRUE)
    \/ ReturnError(mem) /\ (UNCHANGED cloudVars \/ DeleteInstance(found.id))

\* PurgeInstanceVolumes, and its answer how many volumes are still pending.
PurgeVolumes ==
    \/ /\ NoFault
       /\ PurgeInstanceVolumes(found.id)
       /\ IF PendingVolume(found.id) THEN Return(mem, TRUE) ELSE Continue("delScript", mem)
    \/ ReturnError(mem) /\ (UNCHANGED cloudVars \/ PurgeInstanceVolumes(found.id))

-----------------------------------------------------------------------------
(* What both promise.                                                      *)

\* However calls fail, replies are lost, the manager crashes between any two
\* calls and reconciles read old copies, the object never has two instances:
\* "a create whose result was never persisted is recovered rather than
\* duplicated" (findInstance by tag before createInstance).
AtMostOneLive == \A i, j \in InstanceIDs : Live(i) /\ Live(j) => i = j

\* The finalizer stays until the instance is gone: reconcileDelete removes it
\* only after findInstance has seen no instance, and none appears between that
\* answer and the patch, nor from a create that another reconcile began.
FinalizerGuardsInstance == ~obj.exists => NoLive

=============================================================================
