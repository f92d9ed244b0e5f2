------------------------------ MODULE ServiceLB ------------------------------
(***************************************************************************)
(* internal/ccm/loadbalancer.go: the cloud controller manager of a         *)
(* workload cluster, which renders one envoy listener for every port of    *)
(* every Service of type LoadBalancer.                                     *)
(*                                                                         *)
(* The service controller (external) has two kinds of workers.  One serves *)
(* the Services that changed: EnsureLoadBalancer, or GetLoadBalancer and   *)
(* EnsureLoadBalancerDeleted, on the current object.  The other serves all *)
(* Services when the nodes changed: UpdateLoadBalancer, on the object the  *)
(* first kind has seen last.  Both may call for one Service at the same    *)
(* time.  A call of the first kind that fails is repeated, one of the      *)
(* second only if GetLoadBalancer finds a load balancer for that object.   *)
(* sync runs under a mutex and has three steps: listing (Services and then *)
(* nodes, in one step), writing the clusters (CDS), writing the listeners  *)
(* (LDS).  The two files are written by one script that stops at the first *)
(* error.                                                                  *)
(*                                                                         *)
(* A Service is named by a number, numbers ordered like namespace/name.  A *)
(* slot is a port with its protocol.  The envoy instances of the cluster   *)
(* are numbered; address is the one the Secret names.  Left out: the proxy *)
(* protocol and health check settings of a listener, node port numbers     *)
(* (a slot without one counts as unsupported).                             *)
(***************************************************************************)
EXTENDS Naturals, FiniteSets

CONSTANTS
    Services,     \* the names of Services
    Asked,        \* the sets of slots they ask for
    Unsupported,  \* the slots of another protocol or without a node port
    Workers,      \* the addresses of nodes
    MaxFaults,    \* bound on failures of calls
    MaxChanges    \* bound on changes by users and nodes

ASSUME ServicesAssumption == Services \subseteq Nat \ {0} /\ IsFiniteSet(Services)
ASSUME AskedAssumption == {} \notin Asked /\ Unsupported \subseteq UNION Asked
ASSUME BoundsAssumption == MaxFaults \in Nat /\ MaxChanges \in Nat

VARIABLES
    svc,        \* Service -> its object
    seen,       \* Service -> the object the service controller has seen last
    nodes,      \* the nodes that are neither excluded nor being deleted
    address,    \* the envoy instance the Secret names, 0 if there is no Secret
    envoy,      \* the last envoy instance, and whether it runs
    cds, lds,   \* the clusters and the listeners it has
    queue,      \* the calls the service controller has to make
    thread,     \* call -> how far it is
    lock,       \* the call that holds serviceLB.mu, or NoCall
    missed,     \* the Services for which a call for the nodes of this envoy was given up
    faults, changes

objects == <<svc, seen, nodes, address, envoy>>
vars == <<objects, cds, lds, queue, thread, lock, missed, faults, changes>>

Calls == Services \X {"service", "node"}
NoCall == <<0, "service">>

Slots == UNION Asked

\* created: the creation time.  ingress: the address in the status, 0 if there is
\* none.
Addresses == 0..(MaxChanges + 1)
Objects == [state: {"absent", "present", "deleting"}, ports: Asked \cup {{}}, created: 0..MaxChanges,
            ingress: Addresses, finalizer: BOOLEAN]
Absent == [state |-> "absent", ports |-> {}, created |-> 0, ingress |-> 0, finalizer |-> FALSE]

Frontend == [owner: Services, slot: Slots, backends: SUBSET Workers]

\* What a file holds; old: it was rendered by UpdateLoadBalancer from an object
\* that was not the current one.
Files == [fronts: SUBSET Frontend, old: BOOLEAN]
NoFile == [fronts |-> {}, old |-> FALSE]

\* copy: the object the call was given; Absent for EnsureLoadBalancerDeleted.
\* lb: the address from config.
Idle == [pc |-> "idle", copy |-> Absent, lb |-> 0, file |-> NoFile]
Threads == [pc: {"idle", "lock", "clusters", "listeners"}, copy: Objects, lb: Addresses, file: Files]

\* Every variable holds a value of its type, and a thread that writes the files
\* is the one that holds the mutex.
TypeOK ==
    /\ svc \in [Services -> Objects] /\ seen \in [Services -> Objects]
    /\ nodes \subseteq Workers
    /\ address \in Addresses /\ envoy \in [id: Addresses, runs: BOOLEAN]
    /\ cds \in Files /\ lds \in Files
    /\ queue \subseteq Calls
    /\ thread \in [Calls -> Threads]
    /\ lock \in Calls \cup {NoCall} /\ missed \subseteq Services
    /\ \A c \in Calls : thread[c].pc \in {"clusters", "listeners"} => lock = c
    /\ faults \in 0..MaxFaults /\ changes \in 0..MaxChanges

Init ==
    /\ svc = [s \in Services |-> Absent] /\ seen = svc
    /\ nodes = Workers
    /\ address = 0 /\ envoy = [id |-> 0, runs |-> FALSE]
    /\ cds = NoFile /\ lds = NoFile
    /\ queue = {} /\ thread = [c \in Calls |-> Idle] /\ lock = NoCall /\ missed = {}
    /\ faults = MaxFaults /\ changes = MaxChanges

-----------------------------------------------------------------------------
(* Frontends: the older Service keeps a slot.                              *)

Older(o, s, t) == o[s].created < o[t].created \/ (o[s].created = o[t].created /\ s < t)

\* A Service with one port that cannot be exposed is not exposed at all.
Conflicted(o, s, taken) == o[s].ports \cap (Unsupported \cup taken) # {}

SlotsOf(F) == {f.slot : f \in F}

\* The listeners of Service s with the nodes N behind them.
Mine(o, s, N) == {[owner |-> s, slot |-> p, backends |-> N] : p \in o[s].ports}

Youngest(o, T) == CHOOSE s \in T : \A t \in T \ {s} : Older(o, t, s)

\* Mutant: the ports that are free are exposed all the same.
FrontendsPartial(o, S, N) ==
    LET F[T \in SUBSET S] ==
            IF T = {} THEN {}
            ELSE LET s == Youngest(o, T)
                     G == F[T \ {s}]
                 IN  G \cup {m \in Mine(o, s, N) : m.slot \notin Unsupported \cup SlotsOf(G)}
    IN  F[S]

\* One round of the loop: Service s, after the older ones have got the listeners G.
Expose(o, s, N, G) == IF Conflicted(o, s, SlotsOf(G)) THEN G ELSE G \cup Mine(o, s, N)

\* The loop over the Services S, whose objects are o, from the oldest to the
\* youngest.
Frontends(o, S, N) ==
    LET F[T \in SUBSET S] ==
            IF T = {} THEN {} ELSE LET s == Youngest(o, T) IN Expose(o, s, N, F[T \ {s}])
    IN  F[S]

\* A Service without a listener is in the map of conflicts.
Exposed(F, o, s) == o[s].ports \subseteq {f.slot : f \in {g \in F : g.owner = s}}

-----------------------------------------------------------------------------
(* The calls of the service controller, and sync                           *)

Fault == faults > 0 /\ faults' = faults - 1
NoFault == UNCHANGED faults

Go(c, t) == thread' = [thread EXCEPT ![c] = t]

\* There is one if the Secret exists and the status of the object has an address.
GetLoadBalancer(o) == address # 0 /\ o.ingress # 0

\* The call for object o returns an error and is made again, or, if it was for the
\* nodes and GetLoadBalancer finds none, is given up.  GetLoadBalancer may fail, too.
\* Q are the other calls that are queued.
Retry(c, o, Q) ==
    \/ /\ c[2] = "service" \/ GetLoadBalancer(o) \/ faults' # faults
       /\ queue' = Q \cup {c} /\ UNCHANGED missed
    \/ /\ c[2] = "node" /\ ~GetLoadBalancer(o)
       /\ queue' = Q /\ missed' = missed \cup {c[1]}

Fails(c) == Go(c, Idle) /\ Retry(c, thread[c].copy, queue)

\* The finalizer of the service controller goes, and with it the Service.
Released(s) ==
    /\ svc' = [svc EXCEPT ![s] = [Absent EXCEPT !.ingress = svc[s].ingress]]
    /\ seen' = [seen EXCEPT ![s] = Absent]

\* After EnsureLoadBalancer the address is put into the status, after
\* EnsureLoadBalancerDeleted the finalizer is removed.
Succeeds(c) ==
    LET s == c[1]
    IN  /\ Go(c, Idle)
        /\ CASE c[2] = "node" -> UNCHANGED <<svc, seen>>
             [] c[2] = "service" /\ thread[c].copy = Absent -> Released(s)
             [] OTHER -> /\ svc' = [svc EXCEPT ![s].ingress = IF @ # thread[c].copy.ingress THEN @ ELSE thread[c].lb]
                         /\ UNCHANGED seen

\* config is read before the mutex is taken.
Start(c, copy) == Go(c, [Idle EXCEPT !.pc = "lock", !.copy = copy, !.lb = address])
Due(c) == c \in queue /\ thread[c] = Idle
ConfigFrame == UNCHANGED <<nodes, address, envoy, cds, lds, lock, changes>>

\* EnsureLoadBalancer, for an object that by now has the finalizer.
EnsureLoadBalancer(s) ==
    /\ Due(<<s, "service">>) /\ svc[s].state = "present"
    /\ LET o == [svc[s] EXCEPT !.finalizer = TRUE]
       IN  /\ svc' = [svc EXCEPT ![s] = o] /\ seen' = [seen EXCEPT ![s] = o]
           /\ \/ /\ NoFault /\ address # 0
                 /\ Start(<<s, "service">>, o) /\ queue' = queue \ {<<s, "service">>}
              \/ NoFault /\ address = 0 /\ UNCHANGED <<queue, thread>>
              \/ Fault /\ UNCHANGED <<queue, thread>>
    /\ UNCHANGED missed /\ ConfigFrame

\* Not called when GetLoadBalancer finds none.
EnsureLoadBalancerDeleted(s) ==
    /\ Due(<<s, "service">>) /\ svc[s].state # "present"
    /\ \/ /\ NoFault /\ svc[s].state = "deleting" /\ GetLoadBalancer(svc[s])
          /\ Start(<<s, "service">>, Absent) /\ queue' = queue \ {<<s, "service">>}
          /\ seen' = [seen EXCEPT ![s] = svc[s]] /\ UNCHANGED svc
       \/ /\ NoFault /\ ~(svc[s].state = "deleting" /\ GetLoadBalancer(svc[s]))
          /\ Released(s) /\ queue' = queue \ {<<s, "service">>} /\ UNCHANGED thread
       \/ Fault /\ UNCHANGED <<queue, thread, svc, seen>>
    /\ UNCHANGED missed /\ ConfigFrame

\* UpdateLoadBalancer: the object is taken as one to expose, whatever it says.
UpdateLoadBalancer(s) ==
    /\ Due(<<s, "node">>)
    /\ \/ /\ NoFault /\ seen[s] = Absent
          /\ queue' = queue \ {<<s, "node">>} /\ UNCHANGED <<thread, missed>>
       \/ /\ NoFault /\ seen[s] # Absent /\ address # 0
          /\ Start(<<s, "node">>, [seen[s] EXCEPT !.state = "present"])
          /\ queue' = queue \ {<<s, "node">>} /\ UNCHANGED missed
       \/ /\ seen[s] # Absent /\ (Fault \/ (NoFault /\ address = 0))
          /\ Retry(<<s, "node">>, seen[s], queue \ {<<s, "node">>}) /\ UNCHANGED thread
    /\ UNCHANGED <<svc, seen>> /\ ConfigFrame

\* Mutant: only the Service of the call is rendered.
ListedAlone(c) == {t \in {c[1]} : thread[c].copy # Absent}

\* sync exposes the Services that are listed, without the one it was called for
\* if that is to be deleted, with the given copy of it if not.
Listed(c) ==
    {t \in Services \ {c[1]} : svc[t].state = "present"} \cup {t \in {c[1]} : thread[c].copy # Absent}

Given(c) == [svc EXCEPT ![c[1]] = thread[c].copy]

\* What the call is going to write.
Rendered(c) ==
    LET s == c[1]
    IN  [fronts |-> Frontends(Given(c), Listed(c), nodes),
         old |-> c[2] = "node" /\ (svc[s].state # "present" \/ svc[s].ports # thread[c].copy.ports)]

\* Mutant: the mutex is not taken.
SyncListsUnlocked(c) ==
    /\ thread[c].pc = "lock" /\ NoFault
    /\ Go(c, [thread[c] EXCEPT !.pc = "clusters", !.file = Rendered(c)])
    /\ UNCHANGED <<objects, cds, lds, queue, lock, missed, changes>>

\* sync up to UpdateFiles.
SyncLists(c) ==
    /\ thread[c].pc = "lock" /\ lock = NoCall
    /\ LET F == Rendered(c)
           conflict == c[1] \in Listed(c) /\ ~Exposed(F.fronts, Given(c), c[1])
       IN  \/ NoFault /\ conflict /\ Fails(c) /\ UNCHANGED lock
           \/ /\ NoFault /\ ~conflict
              /\ Go(c, [thread[c] EXCEPT !.pc = "clusters", !.file = F])
              /\ lock' = c /\ UNCHANGED <<queue, missed>>
           \/ Fault /\ Fails(c) /\ UNCHANGED lock
    /\ UNCHANGED <<objects, cds, lds, changes>>

\* The instance at the address of the call still runs.
Reachable(c) == envoy.runs /\ thread[c].lb = envoy.id

\* Mutant: an error leaves the mutex locked.
WriteClustersKeepsLock(c) ==
    /\ thread[c].pc = "clusters"
    /\ \/ /\ NoFault /\ Reachable(c) /\ cds' = thread[c].file
          /\ Go(c, [thread[c] EXCEPT !.pc = "listeners"]) /\ UNCHANGED <<queue, missed>>
       \/ (Fault \/ (NoFault /\ ~Reachable(c))) /\ UNCHANGED cds /\ Fails(c)
    /\ UNCHANGED <<objects, lds, lock, changes>>

\* Mutant: the new clusters are added to the old ones.
WriteClustersAdds(c) ==
    /\ thread[c].pc = "clusters" /\ NoFault /\ Reachable(c)
    /\ cds' = [thread[c].file EXCEPT !.fronts = @ \cup cds.fronts]
    /\ Go(c, [thread[c] EXCEPT !.pc = "listeners"])
    /\ UNCHANGED <<objects, lds, queue, lock, missed, changes>>

\* InstallScript: the clusters first.
WriteClusters(c) ==
    /\ thread[c].pc = "clusters"
    /\ \/ /\ NoFault /\ Reachable(c) /\ cds' = thread[c].file
          /\ Go(c, [thread[c] EXCEPT !.pc = "listeners"]) /\ UNCHANGED <<queue, lock, missed>>
       \/ NoFault /\ ~Reachable(c) /\ UNCHANGED cds /\ Fails(c) /\ lock' = NoCall
       \/ /\ Fault /\ cds' \in {cds} \cup (IF Reachable(c) THEN {thread[c].file} ELSE {})
          /\ Fails(c) /\ lock' = NoCall
    /\ UNCHANGED <<objects, lds, changes>>

WriteListeners(c) ==
    /\ thread[c].pc = "listeners" /\ lock' = NoCall
    /\ \/ NoFault /\ Reachable(c) /\ lds' = thread[c].file /\ Succeeds(c) /\ UNCHANGED <<queue, missed>>
       \/ NoFault /\ ~Reachable(c) /\ UNCHANGED <<lds, svc, seen>> /\ Fails(c)
       \/ /\ Fault /\ lds' \in {lds} \cup (IF Reachable(c) THEN {thread[c].file} ELSE {})
          /\ Fails(c) /\ UNCHANGED <<svc, seen>>
    /\ UNCHANGED <<nodes, address, envoy, cds, changes>>

-----------------------------------------------------------------------------
(* Users, nodes and the VerdaCluster controller (external).                *)

Outside == UNCHANGED <<seen, thread, lock, faults>>
Change == changes > 0 /\ changes' = changes - 1

Latest == CHOOSE c \in 0..MaxChanges : /\ \E s \in Services : svc[s].created = c
                                       /\ \A s \in Services : svc[s].created <= c

\* A new Service is as old as the youngest one (times have seconds) or younger.
CreateService(s) ==
    /\ Change /\ svc[s].state = "absent" /\ seen[s] = Absent
    /\ \E P \in Asked, c \in {Latest, Latest + 1} \cap (0..MaxChanges) :
          svc' = [svc EXCEPT ![s] = [Absent EXCEPT !.state = "present", !.ports = P, !.created = c]]
    /\ queue' = queue \cup {<<s, "service">>}
    /\ Outside /\ UNCHANGED <<nodes, address, envoy, cds, lds, missed>>

EditService(s) ==
    /\ Change /\ svc[s].state = "present"
    /\ \E P \in Asked : svc' = [svc EXCEPT ![s].ports = P]
    /\ queue' = queue \cup {<<s, "service">>}
    /\ Outside /\ UNCHANGED <<nodes, address, envoy, cds, lds, missed>>

\* A Service that was never served has no finalizer.
DeleteService(s) ==
    /\ Change /\ svc[s].state = "present"
    /\ svc' = [svc EXCEPT ![s] = IF svc[s].finalizer THEN [@ EXCEPT !.state = "deleting"] ELSE Absent]
    /\ queue' = queue \cup {<<s, "service">>}
    /\ Outside /\ UNCHANGED <<nodes, address, envoy, cds, lds, missed>>

\* Nodes come or go: every Service is served again.  Whether a node is Ready makes
\* no difference to backendNodes.
NodesChange ==
    /\ Change
    /\ nodes' \in SUBSET Workers \ {nodes}
    /\ queue' = queue \cup {<<s, "node">> : s \in {t \in Services : seen[t] # Absent}}
    /\ Outside /\ UNCHANGED <<svc, address, envoy, cds, lds, missed>>

\* The VerdaCluster controller: the envoy instance is deleted when the service load
\* balancer is switched off; then the Secret is, if the call goes through; when it
\* is switched on another instance is published.
EnvoyDeleted ==
    /\ Change /\ envoy.runs
    /\ envoy' = [envoy EXCEPT !.runs = FALSE] /\ cds' = NoFile /\ lds' = NoFile
    /\ Outside /\ UNCHANGED <<svc, nodes, address, queue, missed>>

SecretRemoved ==
    /\ ~envoy.runs /\ address # 0 /\ address' = 0
    /\ Outside /\ UNCHANGED <<svc, nodes, envoy, cds, lds, queue, missed, changes>>

SecretPublished ==
    /\ ~envoy.runs
    /\ envoy' = [id |-> envoy.id + 1, runs |-> TRUE] /\ address' = envoy.id + 1 /\ missed' = {}
    /\ Outside /\ UNCHANGED <<svc, nodes, cds, lds, queue, changes>>

-----------------------------------------------------------------------------
Sync(c) == SyncLists(c) \/ WriteClusters(c) \/ WriteListeners(c)
Service(s) == EnsureLoadBalancer(s) \/ EnsureLoadBalancerDeleted(s) \/ UpdateLoadBalancer(s)

Next == \/ \E c \in Calls : Sync(c)
        \/ \E s \in Services : Service(s) \/ CreateService(s) \/ EditService(s) \/ DeleteService(s)
        \/ NodesChange \/ EnvoyDeleted \/ SecretRemoved \/ SecretPublished

Spec == Init /\ [][Next]_vars

\* The workers of the service controller serve what is queued, a thread that waits
\* for the mutex gets it in the end (sync.Mutex does not starve), and the one that
\* has it goes on.
Fairness == /\ \A s \in Services : /\ WF_vars(EnsureLoadBalancer(s) \/ EnsureLoadBalancerDeleted(s))
                                   /\ WF_vars(UpdateLoadBalancer(s))
            /\ \A c \in Calls : SF_vars(SyncLists(c))
            /\ WF_vars(\E c \in Calls : WriteClusters(c) \/ WriteListeners(c))

FairSpec == Spec /\ Fairness

-----------------------------------------------------------------------------
(* Properties.                                                             *)

Present == {s \in Services : svc[s].state = "present"}
Now == Frontends(svc, Present, nodes)
InConflict == {s \in Present : ~Exposed(Now, svc, s)}

\* What a user would say of the listeners F for the Services S: a Service is exposed
\* exactly if each of its ports can be and no older exposed Service has one of them,
\* and what is exposed has all nodes N behind it.
AsDocumented(F, o, S, N) ==
    /\ \A s \in S : Exposed(F, o, s) <=>
          /\ o[s].ports \cap Unsupported = {}
          /\ \A t \in S : Older(o, t, s) /\ Exposed(F, o, t) => o[t].ports \cap o[s].ports = {}
    /\ F = UNION {Mine(o, s, N) : s \in {t \in S : Exposed(F, o, t)}}

\* Every three Services with two creation times: the chains of conflicts that two
\* Services do not have.
ThreeServices ==
    \A o \in [1..3 -> [ports: Asked, created: 0..1]] :
        AsDocumented(Frontends(o, 1..3, {"n"}), o, 1..3, {"n"})

\* The older of two Services that ask for a slot keeps it, a Service that is itself
\* in conflict takes nothing from a younger one, and no Service is exposed in part:
\* the loop of Frontends computes what AsDocumented says, for the Services as they
\* are and for any three.
OldestServiceWins == ThreeServices /\ AsDocumented(Now, svc, Present, nodes)

\* "All Services share the instance's IP, so two Services cannot use the same
\* port": whatever calls overlap or fail, neither file ever gives a slot to two
\* Services (taken in Frontends, and one list per update).
OneOwnerPerSlot == \A F \in {cds, lds} : \A f, g \in F.fronts : f.slot = g.slot => f = g

\* Nothing is due: only calls for Services in conflict are repeated.
Quiet == /\ envoy.runs /\ lock = NoCall
         /\ {c[1] : c \in queue \cup {d \in Calls : thread[d] # Idle}} \subseteq InConflict

\* Nobody takes back the listeners of a Service whose calls fail before UpdateFiles
\* because it has come into conflict, and of one that was deleted before its status
\* had an address.
Left(f) == f.owner \in InConflict \/ (svc[f.owner].state = "absent" /\ svc[f.owner].ingress = 0)

\* The updates of overlapping calls are not lost or undone by one another: when
\* nothing is due, no Service that had an address when it was deleted has listeners
\* or clusters, and every Service that was served since the load balancer has its
\* address has its own, except where others are left behind, and with the current
\* nodes, unless a failed call for these was given up (sync lists under the mutex and
\* writes all Services each time; a call with the address of an envoy that was
\* replaced fails).  Not so after UpdateLoadBalancer has used an object that had
\* changed: nothing repeats what it undid.
QuietMeansInSync ==
    Quiet => \A F \in {cds, lds} : ~F.old =>
                /\ \A f \in F.fronts : svc[f.owner].state = "absent" => Left(f)
                /\ \A s \in Present \ InConflict :
                      LET its == {f \in F.fronts : f.owner = s}
                      IN  svc[s].ingress = address /\ (\A f \in F.fronts : ~Left(f))
                             => its = Mine(svc, s, nodes) \/ (s \in missed /\ SlotsOf(its) = svc[s].ports)

\* Every change gets through: the calls end, errors are repeated, and nobody
\* waits for the mutex forever, a Service in conflict that is retried again and
\* again notwithstanding, unless the load balancer stays switched off.
BecomesQuiet == <>[]Quiet \/ []<>~envoy.runs

=============================================================================
