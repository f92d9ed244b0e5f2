# TLA+ model of cluster-api-provider-verda

The provider turns Cluster API objects into instances, volumes and startup
scripts of a Verda account. Nothing is transactional: a reconcile is a sequence
of calls to the cloud, followed by a patch of the object in up to three requests.
The manager may die between any two of them, replies get lost, and the cloud
changes by itself. These specifications describe the controllers call by call
and check and prove what they keep and what they reach.

## 1. Inventory

| Part | State | Operations | Interacts with |
|---|---|---|---|
| VerdaMachine controller (`internal/controller/verdamachine_controller.go`) | the object: finalizer, providerID, recorded instance, script and clone, Provisioned, the delete annotation | reconcileNormal, reconcileDelete, reconcileOrphanDelete, resyncInstance, deferred patch | Verda API, API server, webhook, CAPI objects |
| VerdaCluster controller (`verdacluster_controller.go`) | the object: endpoint, recorded load balancer, backends; the Secret with the SSH keys | reconcileNormal, reconcileEndpoint, reconcileLoadBalancer, ensureKeys, reconcileDelete | Verda API, haproxy over SSH, VerdaMachines |
| Service load balancer (`verdacluster_servicelb.go`) | the object; the Secret in the workload cluster | reconcileServiceLoadBalancer, deleteServiceLoadBalancer, publish and remove the Secret | Verda API, workload cluster |
| Verda client (`internal/cloud/client.go`) | none; the account behind it | create, two-phase delete, purge, clone, tag, lookups | Verda API |
| Client factory (`internal/cloud/factory.go`) | the cache of clients | ClientFor | identity Secrets |
| CCM load balancer (`internal/ccm/loadbalancer.go`) | the mutex; envoy's two files | Ensure, Update, EnsureDeleted, sync, Frontends | service controller, Nodes, Services, envoy over SSH |
| CCM instances (`internal/ccm/provider.go`) | none; the Nodes | InstanceExists, InstanceShutdown, InstanceMetadata | Verda API, node controllers |
| Bootstrap conversion (`internal/bootstrap`) | none | ToStartupScript, fit | createInstance, the host that runs the script |
| Webhooks (`internal/webhook`) | none | validate create and update | every patch of spec |
| Template controller, credentials, `cmd` | none that is read back | | |

What is hard to get right:

* an instance that was created and not recorded: it has to be found again by its
  tag, on every path;
* the delete has two phases (shut down, then delete what is offline) and several
  minutes between them, in which the user and the cloud go on;
* the patch is three requests (conditions; metadata and spec, which a webhook may
  refuse; status), each of which can be the last;
* what the status says was done, and what was done: backends of haproxy, the
  Secret of the workload cluster, tags of clones;
* Services that share one address, served by overlapping calls, on an instance
  that may be replaced meanwhile;
* a Node is found by hostname only, and hostnames are used again;
* a startup script is made here and fails, if it does, on the host;
* credentials that are rotated while they are used.

What correct means: at most one instance per object; no instance left when the
object is gone; no instance replaced once it is provisioned; deletion and
provisioning come to an end; what is reported as ready is; a port has one owner;
rotated credentials take effect; a live instance keeps its Node and a gone one
loses it; accepted bootstrap data boots. `PROJECT.json` lists each hazard with its line.

## 2. Modules

| Module | Models |
|---|---|
| `VerdaCloud` | the account as one owner sees it, the client's calls as operators on it, the moves of the cloud (external) |
| `Reconcile` | extends `VerdaCloud`: the work queue, how a call returns or fails, CreateInstance and the delete calls that both controllers make; `AtMostOneLive`, `FinalizerGuardsInstance` |
| `VerdaMachine` | extends `Reconcile`: the machine controller and its surroundings |
| `VerdaCluster` | extends `Reconcile`: the cluster controller; `role`, chosen once, says which of its two instances is followed, or that the user provides the endpoint |
| `InstanceOwner` | what both controllers promise about their instances, without reconciles, calls, faults or crashes |
| `ServiceLB` | the CCM load balancer, with a thread for each Service and kind of worker |
| `ClientFactory` | ClientFor with concurrent callers |
| `Bootstrap` | ToStartupScript as an operator, and what bash does with the result (external) |
| `NodeLifecycle` | extends `Bootstrap`: one hostname from bootstrap data to Node and back; composes an `InstanceOwner`, the host, the CCM's Provider and its callers |
| `MCVerdaMachine`, `MCVerdaCluster`, `MCNodeLifecycle` | symmetry sets and inputs for TLC |
| `VerdaMachineProofs`, `ClientFactoryProofs`, `NodeLifecycleProofs` | the theorems about the module each is named after |
| `VerdaClusterTypes`, `VerdaClusterProofs`, `VerdaClusterReports` | the theorems about `VerdaCluster`, each module extending the one before |
| `ServiceLBSteps`, `ServiceLBProofs` | the theorems about `ServiceLB`, the second module extending the first |

How the state corresponds to the code. `obj` is the object in the API server,
`mem` the Go struct a reconcile works on and `base` the copy that
`patch.NewHelper` keeps. `pc` names the next call: one action is one call with
the code up to the next one, so that a crash (`Crash` drops `mem`, `base` and the
locals) or a move of anybody else can come between any two calls. A call fails
with `Fault`; a failed create, clone, delete or update may have taken effect
nevertheless. `Return(m, again)` is the end of reconcileNormal or
reconcileDelete: the deferred patch comes next, and `again` says that the result
has a RequeueAfter or an error. The three `Patch...` actions send only fields
that differ from `base`. controller-runtime runs one reconcile of an object at a
time, which is why a controller is one sequential process.

The account (`VerdaCloud`) has a state for each identifier: an instance goes from
`none` through `provisioning` and `running` to `offline`, `deleting`,
`discontinued` or `deleted`, and is `purged` when the API no longer knows it. A
shutdown that was requested happens later (`ishut`). A lookup is the set of
answers the API may give: the list has no promised order, and a volume in the
trash is reported as deleted or not at all.

`Env` switches disturbances on: `evict` (the cloud discontinues an instance),
`nocap`, `pause`, `orphan` (the owners disappear), `foreign` (an unmanaged
instance has the hostname), `stale` (a reconcile may read any older copy),
`identity` (own credentials), `keepDetached`, `tagRefused`, `keyloss` (somebody
deletes the Secret with the SSH keys).

`InstanceOwner` has the four things an owner of instances is judged by: whether
the object exists, whether it has reported Provisioned, its live instances, and
those it ever had. `VerdaMachine` and `VerdaCluster` instantiate it at their end
(`Owner == INSTANCE InstanceOwner WITH ...`): `object` is the state of the object
in the API server, `live` and `used` are read off the account. A cluster maps
`provisioned` to FALSE: the service load balancer may be switched off and on
again, so a second instance after the first is allowed. Everything else, all of
a reconcile, the crashes and faults, are steps in which the owner does nothing.

In `ServiceLB`, sync is three steps, the listing under the mutex, the clusters
file and the listeners file, because the script that installs the files stops at
the first error. The service controller calls EnsureLoadBalancer and
EnsureLoadBalancerDeleted from one kind of worker and UpdateLoadBalancer from
another, so a Service has two threads. It repeats a failed UpdateLoadBalancer
unless GetLoadBalancer finds no load balancer for the Service; then the call is
given up (`missed`). config is read before the mutex is taken,
and the VerdaCluster controller replaces the envoy instance meanwhile
(`EnvoyDeleted`, `SecretRemoved`, `SecretPublished`). `Frontends` is the loop of
the code as a recursive function over the Services in order of age.

In `Bootstrap`, a script is the sequence of its commands and a length; `Exec`
says what each command does to a host, and that the first to fail is the last
(`set -euo pipefail`). `NodeLifecycle` has one step for each call of the
Provider together with what its caller does with the answer. Where several
instances have the hostname the answer is any of them that
FindInstanceByHostname may return. An instance gets its IP some time after it was
created (`ips`); until then InstanceMetadata has the hostname only.

In `VerdaMachine`, `gate` is the first of the things the early returns of
Reconcile wait for. "lost" is a Machine whose Cluster, or a VerdaMachine whose
Machine, is gone while it is still referred to: the one case that is an error and
is repeated.

Simplifications are named at the head of each module. The larger ones: an
instance has one volume; the read with which DeleteInstance begins and the call
it decides on are one step; the address of a load balancer comes with the state
running; `VerdaCluster` reads the current object, and follows one instance at a
time with the other as one bit.

Operators that a comment calls a *mutant* are not used by any specification. Each
is a plausible mistake in the definition after it, and shows that a property
would notice it (`PROJECT.json`, "mutants").

## 3. Runs

Every run is `tlc -config <run>.cfg <module>`. The system may stop (an object
that is gone needs no reconcile), so deadlock is not checked.

| Run | Checks | Bounds | States |
|---|---|---|---|
| machine_safety | TypeOK, AtMostOneLive, FinalizerGuardsInstance, ProvisionedNeverRecreated, ImplementsOwner | boots from an image; 2 of each identifier, 1 fault, 1 crash; nocap, evict | 1.4 M |
| machine_nothing_left | NothingLeft, ProviderIDMatchesNode, SafetyInv | boots from a clone; no fault, no crash; nocap, evict, pause, foreign, orphan | 2.3 M |
| machine_progress | ProvisioningCompletes, DeletionCompletes | clone; 1 instance, 2 scripts, 1 volume, 1 fault; stale, evict, keepDetached, tagRefused | 0.7 M |
| cluster_safety | TypeOK, SecretNamesLoadBalancer, EndpointNamesLoadBalancer, EndpointKeepsInstance, ClusterLeavesNothing, KeysOpenInstance, ProvisionedHasEndpoint, ImplementsOwner | all roles; 2 of each, 2 endpoints, 1 fault, 1 crash, 2 changes; pause, foreign | 2.0 M |
| cluster_progress | BackendsFollow, SwitchedOffIsDeleted, SwitchedOffIsUnpublished, ClusterDeletionCompletes, EndpointSurfaced | all roles; 1 instance, 1 script, 2 endpoints, 1 fault, 2 changes; keyloss | 0.5 M |
| servicelb | TypeOK, OldestServiceWins, OneOwnerPerSlot, QuietMeansInSync, BecomesQuiet | 2 Services, 2 ports and one of an unsupported protocol, 1 node, 1 fault, 3 changes | 0.35 M |
| client_factory | TypeOK, FreshCredentials, SettlesOnCurrent | 2 Secrets, 2 callers, 3 writes, 1 fault | 61 k |
| node_lifecycle | TypeOK, JoinedNodeKept, ScriptFits, BootsAsAsked, GoneNodeRemoved, AddressesFollow | 2 instances, an instance of another owner, about 600 different bootstrap data | 0.12 M |

A change is one act of the user or of the machines: switching the service load
balancer, another set of control plane addresses, the loss of the key Secret, a
pause of the cluster, a Service created, edited or
deleted, a node that comes or goes.

Why the bounds are enough to be interesting. Two instances are what a duplicate
needs; two scripts and volumes let a create be repeated once. Two changes switch
a load balancer off and on, let the machines change back, or let the keys be lost
while the machines change. Two endpoints let the user set another one than the
Cluster has. Three Services are what it takes for a Service to be
exposed because the one that would block it is blocked itself; servicelb
interleaves two, and OldestServiceWins also evaluates Frontends for any three.
The bootstrap data of node_lifecycle has up to two files and two users, lengths on
both sides of each limit of fit, and everything a field can be told apart by. Evictions are
left out of cluster_safety to make room for a fault; the theorems about the
cluster cover them, in combination with everything else. A
second fault or crash mostly starts the same reconcile again from a state one of
them reaches already; the theorems of section 5 hold for every number of them. In
the liveness runs the faults are finite because a call that fails forever
justifies no promise. When the identifiers run out a create fails like any other call that
fails, without ending the run.

Some properties are stated for behaviours in which no call has failed yet and the
manager has not crashed (`Undisturbed`): NothingLeft, ProviderIDMatchesNode,
EndpointNamesLoadBalancer, ClusterLeavesNothing and the two SwitchedOff
properties, and BackendsFollow where haproxy and the status differ. Section 4 says
what happens otherwise.

## 4. Where the code and its documentation disagree

Four runs end with a counterexample; the finding in `PROJECT.json` quotes the
sentence and gives the line.

| Run | What happens |
|---|---|
| v_identity | Orphaned machines are looked up with the global credentials; the finalizer goes while the instance stays. |
| v_no_capacity | An instance without capacity is shut down, found again by its tag, and polled forever. |
| v_backends | A backend update that worked but was reported as failed is not undone when the machines change back. |
| v_bootstrap | A file with encoding gz is accepted; in the script its here-document is the input of gunzip instead of base64, and the boot ends there. |

The model shows more of what the code leaves behind or leaves waiting. A property
that would be violated by it names its exception, in the definition given in the
first column.

| Exception | What happens |
|---|---|
| `Undisturbed` in NothingLeft | A clone whose ID was not persisted is not looked for by name on the delete path and stays (`verdamachine_controller.go:495`). A second script of the same name stays when the first is recorded (:609). |
| `Undisturbed` in ProviderIDMatchesNode | An instance that vanishes while its providerID is not persisted makes it the bare `verda://` (:276). |
| `Blocked` in DeletionCompletes | A clone that could not be tagged (:514), or a volume that stays detached (`client.go:402`), blocks the deletion of its machine. |
| no stale copies for ProvisionedNeverRecreated and ImplementsOwner: `"stale" \notin Env` in the theorems, and none in machine_safety | The instance of a provisioned machine is discontinued, and a reconcile that was started for another reason (the retry after a failed call, the end of a pause) reads a copy from before the instance was recorded: resyncInstance is not reached, what the tag finds is gone, and a second instance is created (`verdamachine_controller.go:220`, `:371`). |
| no property | A VerdaMachine that is deleted while its Machine exists and the Cluster does not fails at GetClusterFromMetadata in every reconcile (:143), and keeps its instance until the Machine goes, too, or the Cluster comes back. |
| `UserEndpoint` in EndpointNamesLoadBalancer | The webhook accepts an endpoint of the user together with a control plane load balancer (`validation.go:87`). The endpoint is immutable (`validation.go:115`), so the one of the load balancer (`verdacluster_controller.go:275`) is refused in every reconcile, while the conditions and the status are written: the load balancer is ready, and nothing leads to it. `verdacluster_types.go:73` says "Either enable controlPlaneLoadBalancer, ... or supply it". |
| `Undisturbed` in EndpointNamesLoadBalancer | The conditions are written before the endpoint and the status after it, so that after a lost request a load balancer is ready whose endpoint or ID is not there yet; the next reconcile repeats it. |
| `"evict" \notin Env` in EndpointKeepsInstance | An unrecorded load balancer that is evicted and forgotten by the API is replaced, and the new one cannot become the endpoint (`verdacluster_controller.go:275`). |
| `BackendsMisrecorded` in BackendsFollow | The case of v_backends. |
| `Undisturbed` in SwitchedOffIsDeleted | A service load balancer that was not recorded survives being switched off (:173). |
| `Undisturbed` in SwitchedOffIsUnpublished | The Secret stays after one failed removal (`verdacluster_servicelb.go:159`). |
| `"keyloss" \notin Env` in KeysOpenInstance | When the key Secret is lost ensureKeys generates others, which the running instance does not have: it can never be updated again. It is then not reported as in sync once the machines change (BackendsFollow). |
| no property | Switched off and on during the shutdown, the service load balancer stays offline and is polled forever (`verdacluster_servicelb.go:100`). |
| no property | An endpoint that the user sets in the Cluster after the VerdaCluster was reconciled causes no event (`verdacluster_controller.go:570`): it is noticed at the next one. |
| `old` in QuietMeansInSync | UpdateLoadBalancer renders the object it was given, which may have changed or be deleted by then; nothing repeats what it undid (`ccm/loadbalancer.go:161`). |
| `Left` in QuietMeansInSync | A Service that comes into conflict keeps the listeners it had, because the error comes before UpdateFiles (:167). A Service that is deleted before its status has an address keeps them too, because GetLoadBalancer says that there is nothing to delete (:73). |
| `missed` in QuietMeansInSync | A node comes or goes while a Service has no address in its status, and the update fails: as GetLoadBalancer finds nothing (:73) the service controller does not repeat it, and the listeners have the old nodes until the next change. |
| comment at `NodesChange` | Listeners also forward to nodes that are not Ready, which README.md:28 excludes (:188). |
| `Plain` in BootsAsAsked | Besides gzip: the key file of a user is given to a group of the user's name, which does not exist if they have another primary group; the boot ends there (`bootstrap/cloudconfig.go:274`). |
| `Sensible` in AcceptedDataBoots | Data that names groups the image does not have is left out. For supplementary groups cloud-init would create them and the script does not. |
| `~attempt.data.shell` in ScriptFits | Bootstrap data that is a shell script is passed on as it is, however long (:126). |

## 5. Theorems

About `VerdaMachine`, for all sets of identifiers and all numbers of faults and
crashes, for machines with and without a clone:

* `TypeCorrect`: Spec => []TypeOK.
* `OneInstance`: Spec => []AtMostOneLive, in every environment, stale caches and
  foreign accounts included. AtMostOneLive is not inductive: a state in which
  a reconcile is about to create while an instance is live satisfies it. The
  strengthening is `CreatesOnlyWhenNone`: the lookup before a create is made in
  the machine's own account, and from its answer until the create nothing is
  live. It rests on one fact about the cloud, the lemmas that end in `Keeps`:
  only Instances.Create makes an instance live.
* `Safety`: Spec => []SafetyInv, if "stale" and "identity" are not in Env.
  SafetyInv adds that whatever is recorded names the only instance that can be
  live, that the copy a reconcile works on agrees with the object in what matters
  (only this controller changes it), and that the finalizer goes last.
* `InstanceGoneFirst` ([]FinalizerGuardsInstance) and `NeverRecreated`
  (ProvisionedNeverRecreated) follow, under the same assumptions. Both are
  needed: `v_identity` is a counterexample without the second.
* `Implements`: Spec => ImplementsOwner, under the same assumptions. SafetyInv
  does most of it: it says that nothing is live when an instance is created or the
  finalizer is removed. What is added is `ProvisionedStays`: no reconcile takes
  Provisioned back in its copy, so that no patch does. Then every step is `Begin`,
  `End`, `Provision`, `Ask` or `Release` of the owner, or leaves its four variables
  alone.
* `ProviderIDStaysNode` ([]ProviderIDMatchesNode) and `MachineLeaves` ([]NothingLeft),
  under the same assumptions; both are about behaviours without faults and crashes.
  They follow from SafetyInv and `CalmInv`, which says between any two calls or
  requests what has been written down, in the copy or in the object. The bare
  providerID is for an instance that is recorded and not found; the object got the
  providerID one request before the record, so the webhook refuses the other
  (`CalmProvider`). Whatever names a script, the copy, the object or an instance that
  can still be recorded, names the only one there is, so that deleting the script by
  its recorded ID leaves none (`CalmScripts`). The same holds of the clone, and the
  next is made only when there is none (`CalmClone`). Behind it stands a lemma for each
  call (those that end in `Marks`): what it writes into the copy and leaves in the
  account.

About `VerdaCluster`, for all sets of identifiers, roles and endpoints and in every
environment; every safety property that a run checks is proved:

* `TypeCorrect` (`VerdaClusterTypes`): Spec => []TypeOK. The module also has a
  lemma for each call, which says what the call changes; the other proofs use
  these lemmas rather than the definitions.
* `ClusterHasOne` ([]AtMostOneLive) and `Implements` (ImplementsOwner) in
  `VerdaClusterProofs`. Both follow from `OwnerInv`: what is recorded or was found
  names the only instance that can be live (`RecordsLive`), nothing is live from
  the answer "none" until the create, nor once the deletion of the instance is done
  (`CreatesOnlyWhenNone`), and the finalizer goes last.
* `KeysOpen` ([]KeysOpenInstance). It is not inductive: a reconcile might create
  with keys it does not share with the Secret. `KeyInv` follows the keys: those a
  running reconcile has and those every instance was created with are the ones in
  the Secret, because ensureKeys stores before it returns and overwrites nothing.
* `SecretFollows` ([]SecretNamesLoadBalancer) and `EndpointSet`
  ([]ProvisionedHasEndpoint) in `VerdaClusterReports`, whatever fails. What is
  reported was written by three requests, so both need an invariant about the copies
  (`CopyInv`): while no other reconcile is due, every request so far was accepted
  and had nothing to change. Then what is reported is what the reconcile had in its
  hands when it decided not to come back (`ToldInv`, `EndpointInv`), and a reconcile
  that does not come back has found the load balancer not ready, has published the
  Secret, or has removed the finalizer (lemma `Arrives`).
* `EndpointLasts` ([]EndpointKeepsInstance), whatever fails, if "evict" is not in
  Env. The endpoint and the recorded ID are written by different requests of
  different reconciles, so an invariant about one patch is not enough. `KeptInv` is
  about the account: until the deletion no instance of a control plane load balancer
  ends (`Untouched`), the tag therefore finds the first one from its creation on, and
  there has never been a second. Then two names of instances are the same name.
* `EndpointFollows` ([]EndpointNamesLoadBalancer, with its exception for an endpoint
  of the user) and `ClusterLeaves` ([]ClusterLeavesNothing), which are about
  behaviours without faults and crashes.
  The invariants say what has reached the object between two requests of a patch:
  the endpoint goes one request before the instance (`CalmLB`), and an instance and
  its script are recorded by the same one, so that no script is there whose name
  neither the object nor the running reconcile has (`CalmNames`).

About `ServiceLB`, for every finite set of Services and all sets of ports, nodes
and bounds:

* `FrontendsDocumented`: Frontends, which takes the Services one after the other in
  the order of their age, gives each port to the oldest Service that asks for it and
  leaves out exactly those that are in conflict (`AsDocumented`). The loop is a
  recursive function over sets; the proof is an induction over the subsets of a
  finite set. The induction theorems of the library take an operator, so it is
  derived from the least-number principle for *sets* of natural numbers: the lemmas
  `LeastNatural`, `SetInduction` and `SubsetInduction`. `OldestAlwaysWins`
  ([]OldestServiceWins) follows.
* `TypeCorrect`, `OneOwnerAlways` ([]OneOwnerPerSlot) and `QuietInSync`
  ([]QuietMeansInSync) from the inductive `IInv` (`ServiceLBSteps`). QuietMeansInSync
  speaks of moments at which nothing is due; in between a file lags behind. `TrueOf`
  says how far: it is right about every Service except those for which a call is
  queued or runs, and about the nodes except where a call that brings them is still
  to come. A call holds the mutex from the listing to the second file, so what it
  has rendered is as true as what is written, its own Service included, and it
  cannot write to an envoy that was replaced since, because no address is used again
  (`EnvoyInv`). About the nodes of a Service whose call was given up (`missed`)
  nothing is said, about its ports everything is.

`ClientFactoryProofs`: `TypeCorrect`, `CacheHonest` (the inductive
`CacheIsHonest`: a client is recorded with the version it was built from, and a
call has the client of the version it has read) and, from it,
`RotationTakesEffect` (FreshCredentials), for all sets of Secrets and callers.

`NodeLifecycleProofs`, for all sets of instances and all bootstrap data:

* `TypeCorrect` and `NodeKept`: Spec => []JoinedNodeKept. With the type invariant and
  `OneLive` (an owner has one instance at a time, which `Implements` is about) it is
  inductive; the step that matters is MonitorNode, and the lemma `LiveExists` says
  that InstanceExists never answers FALSE while one instance of the hostname lives.
* `ScriptsFit`: Spec => []ScriptFits, from `AttemptConverted` (a script is what
  ToStartupScript made of some data) and the lemma `FitFits` about all lengths.

The assumptions are those in the modules: bounds are natural numbers, `None` is
no identifier, Services are finitely many numbers each of which asks for a port, the
hosts of users are no instances, and `DataAssumption` that lengths are natural
numbers.

Only model-checked: BootsAsAsked (what a host does is a fold with an operator
argument over a script of any length, and the provers cannot instantiate what the
library says about folds), and all liveness properties (the prover does no reasoning
about fairness).

## 6. Fairness

* The queue is served and a running reconcile goes on (`WF Controller`): a worker
  of controller-runtime takes the key, and calls end. An SSH session has a deadline
  only if the context has one (`ssh.go:85`, which also holds the mutex of the CCM):
  that a peer does not stay silent forever is an assumption.
* The informer cache catches up, owners and bootstrap data appear, the other
  instance of a cluster gets deleted. In `VerdaCluster` this and the moves of the
  cloud are one fair action (`Settles`): each of its steps leads nearer to an end, so
  that none of them can be taken forever at the cost of another.
* `deleteRequestDue` compares the clock with 20 s; the polls come every few
  seconds, so among infinitely many of them infinitely many find the time elapsed
  (`SF DeleteFindsInstance(TRUE)`).
* The cloud finishes what it has begun, each instance and volume by itself. It is
  not assumed to evict, nor to have capacity.
* In `ServiceLB` the workers of the service controller serve what is queued, also
  a failed call that is queued again (but not one that is given up), the
  thread that has the mutex goes on, and one that waits for it gets it in the end
  (sync.Mutex hands over after 1 ms), hence `SF SyncLists`.
* In `NodeLifecycle` a live instance gets its IP, a Node whose instance is gone
  loses contact, and the
  controllers of the CCM go over the Nodes again and again. Hosts, owners and the
  other instance of the hostname have no fairness.
* In `ClientFactory` every Secret is asked for again and again (resync).

Users, pauses, crashes and faults have no fairness. Deletion is promised unless
the object is paused again and again.

## 7. Not modelled

* Generated deep copies, the fake cloud, wiring and flags, reading credentials: no
  behaviour of their own. Leader election is trusted to exclude a second manager.
* The template controller: one call and one patch of a status that no other part
  reads.
* The text of scripts and proxy configurations, quoting included; the conversions
  of API structures in `client.go`; catalog calls; conditions and their wording.
* Webhook rules that only validate what a user enters. The rules a patch of a
  controller can run into are modelled.
* Tags and hostnames that are cut to their maximal length, where two long names
  may become one: names are model values. What an instance of another owner with
  the same hostname does to a Node is in node_lifecycle.
* Data volumes and their attachment, addresses apart from whose they are.
* Instances in the state deleted in the list of the API. FindInstanceByTag passes
  over discontinued ones only (`client.go:245`) and would prefer one that is deleted
  to a live one. That the list has none is an assumption (`Listed`); without it a
  service load balancer that is switched off and on and not recorded would be created
  twice.
* The resync of the informers, which repeats a reconcile after hours and would
  hide lost wake-ups.
* A stale cache in `VerdaCluster`. Its create is protected by the same lookup as
  that of `VerdaMachine`, for which stale copies are modelled and `OneInstance` is
  proved.
