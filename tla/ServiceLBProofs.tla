--------------------------- MODULE ServiceLBProofs ---------------------------
(***************************************************************************)
(* Proofs about ServiceLB, concluded.  The loop of Frontends computes what *)
(* AsDocumented says; the induction is over the Services that have been    *)
(* served, written with the least number principle of the naturals.  With  *)
(* that every step keeps the invariant, and the properties follow from it. *)
(***************************************************************************)
EXTENDS ServiceLBSteps, FiniteSetTheorems, WellFoundedInduction

-----------------------------------------------------------------------------
(* Induction, with a set in the place of a predicate.                      *)

\* Every set of naturals has a least element.
LEMMA LeastNatural == ASSUME NEW P \in SUBSET Nat, P # {} PROVE \E n \in P : \A m \in P : n <= m
<1> DEFINE R == {q \in Nat \X Nat : q[1] < q[2]}
<1>1. IsWellFoundedOn(R, Nat)
  BY NatLessThanWellFounded, Zenon DEF OpToRel
<1> HIDE DEF R
<1>2. PICK n \in P : \A m \in P : <<m, n>> \notin R
  BY <1>1, WFMin, Zenon
<1>3. \A m \in P : ~ (m < n)
  BY <1>2, Zenon DEF R
<1> QED BY <1>3

\* A set of naturals with 0 and the successor of each of its members is Nat.
LEMMA SetInduction == ASSUME NEW P \in SUBSET Nat, 0 \in P, \A n \in P : n + 1 \in P PROVE P = Nat
<1> SUFFICES ASSUME P # Nat PROVE FALSE
  BY Zenon
<1>1. PICK n \in Nat \ P : \A m \in Nat \ P : n <= m
  BY LeastNatural, Zenon
<1>2. n - 1 \in P
  BY <1>1
<1> QED BY <1>1, <1>2

\* A set of subsets of a finite S that has T whenever it has T without any one
\* element has all subsets of S.
LEMMA SubsetInduction ==
    ASSUME NEW S, IsFiniteSet(S), NEW P \in SUBSET SUBSET S,
           \A T \in SUBSET S : (\A x \in T : T \ {x} \in P) => T \in P
    PROVE  P = SUBSET S
<1> DEFINE Q == {n \in Nat : \A T \in SUBSET S : Cardinality(T) = n => T \in P}
<1>1. 0 \in Q
  <2>1. \A T \in SUBSET S : Cardinality(T) = 0 => T = {}
    BY FS_Subset, FS_EmptySet, Zenon
  <2>2. {} \in P
    BY Zenon
  <2> QED BY <2>1, <2>2, Zenon
<1>2. ASSUME NEW n \in Q PROVE n + 1 \in Q
  <2> SUFFICES ASSUME NEW T \in SUBSET S, Cardinality(T) = n + 1 PROVE T \in P
    OBVIOUS
  <2>1. ASSUME NEW x \in T PROVE T \ {x} \in P
    <3>1. IsFiniteSet(T)
      BY FS_Subset, Zenon
    <3>2. Cardinality(T \ {x}) = n
      BY <3>1, FS_RemoveElement
    <3> QED BY <3>2, Zenon
  <2> QED BY <2>1, Zenon
<1> HIDE DEF Q
<1>3. Q = Nat
  <2>1. Q \in SUBSET Nat
    BY Zenon DEF Q
  <2> QED BY <1>1, <1>2, <2>1, SetInduction, Zenon
<1>4. ASSUME NEW T \in SUBSET S PROVE T \in P
  <2>1. Cardinality(T) \in Nat
    BY FS_Subset, FS_CardinalityType, Zenon
  <2> QED BY <1>3, <2>1 DEF Q
<1> QED BY <1>4, Zenon

-----------------------------------------------------------------------------
(* The loop of Frontends.                                                  *)

\* Any Services that can be ordered by age have a youngest, which Frontends takes
\* last.
LEMMA YoungestIsLast ==
    ASSUME NEW o, NEW S, Ordered(o, S), NEW T \in SUBSET S, T # {}
    PROVE  Youngest(o, T) \in T /\ \A t \in T \ {Youngest(o, T)} : Older(o, t, Youngest(o, T))
<1> DEFINE Last(U, s) == s \in U /\ \A t \in U \ {s} : Older(o, t, s)
           P == {U \in SUBSET S : U # {} => \E s \in U : Last(U, s)}
<1>1. ASSUME NEW U \in SUBSET S, \A x \in U : U \ {x} \in P PROVE U \in P
  <2> SUFFICES ASSUME U # {} PROVE \E s \in U : Last(U, s)
    BY Zenon
  <2>1. PICK x \in U : TRUE
    BY Zenon
  <2>2. CASE U \ {x} = {}
    BY <2>2, Zenon
  <2>3. CASE U \ {x} # {}
    <3>1. PICK y \in U \ {x} : Last(U \ {x}, y)
      BY <1>1, <2>3, Zenon
    <3>2. x \in S /\ y \in S /\ S \in SUBSET Nat /\ \A s \in S : o[s].created \in Nat
      BY Zenon DEF Ordered
    <3>3. CASE Older(o, x, y)
      BY <3>1, <3>3, Zenon
    <3>4. CASE ~Older(o, x, y)
      <4>1. Older(o, y, x)
        BY <3>2, <3>4 DEF Older
      <4>2. ASSUME NEW t \in U \ {x} PROVE Older(o, t, x)
        <5>1. t = y \/ Older(o, t, y)
          BY <3>1, Zenon
        <5>2. t \in S
          BY Zenon
        <5> QED BY <3>2, <4>1, <5>1, <5>2 DEF Older
      <4> QED BY <4>2, Zenon
    <3> QED BY <3>3, <3>4, Zenon
  <2> QED BY <2>2, <2>3, Zenon
<1>2. P = SUBSET S
  <2>1. P \in SUBSET SUBSET S /\ IsFiniteSet(S)
    BY Zenon DEF Ordered
  <2> HIDE DEF P
  <2> QED BY <1>1, <2>1, SubsetInduction, Zenon
<1>3. \E s \in T : \A t \in T \ {s} : Older(o, t, s)
  BY <1>2, Zenon
<1> QED BY <1>3, Zenon DEF Youngest

\* f is the function that Frontends defines, as far as sets of up to n Services go.
Round(o, N, f, T) ==
    IF T = {} THEN {} ELSE LET s == Youngest(o, T) IN Expose(o, s, N, f[T \ {s}])
IsLoop(o, S, N, f, n) ==
    /\ f = [T \in SUBSET S |-> f[T]]
    /\ \A T \in SUBSET S : Cardinality(T) <= n => f[T] = Round(o, N, f, T)

Loops(o, S, N, f) == \A T \in SUBSET S : f[T] = Round(o, N, f, T)

\* The loop ends: the recursion of Frontends has a solution, which one finds by
\* serving sets of more and more Services.
LEMMA LoopExists ==
    ASSUME NEW o, NEW S, NEW N, Ordered(o, S), NEW n \in Nat PROVE \E f : IsLoop(o, S, N, f, n)
<1> DEFINE P == {m \in Nat : \E f : IsLoop(o, S, N, f, m)}
<1>0. IsFiniteSet(S) /\ \A T \in SUBSET S : IsFiniteSet(T) /\ Cardinality(T) \in Nat
  BY FS_Subset, FS_CardinalityType, Zenon DEF Ordered
<1>1. 0 \in P
  <2> DEFINE f == [T \in SUBSET S |-> {}]
  <2>1. \A T \in SUBSET S : Cardinality(T) <= 0 => T = {}
    BY <1>0, FS_EmptySet
  <2>2. IsLoop(o, S, N, f, 0)
    BY <2>1, Zenon DEF IsLoop, Round
  <2> QED BY <2>2, Zenon
<1>2. ASSUME NEW m \in P PROVE m + 1 \in P
  <2>1. PICK f : IsLoop(o, S, N, f, m)
    BY Zenon
  <2> DEFINE g == [T \in SUBSET S |-> IF Cardinality(T) <= m THEN f[T] ELSE Round(o, N, f, T)]
  <2>2. ASSUME NEW T \in SUBSET S, Cardinality(T) <= m + 1 PROVE g[T] = Round(o, N, g, T)
    <3>1. g[T] = Round(o, N, f, T)
      BY <2>1, Zenon DEF IsLoop
    <3>2. ASSUME T # {} PROVE g[T \ {Youngest(o, T)}] = f[T \ {Youngest(o, T)}]
      <4>1. Youngest(o, T) \in T
        BY <3>2, YoungestIsLast, Zenon
      <4>2. Cardinality(T \ {Youngest(o, T)}) <= m
        BY <1>0, <2>2, <4>1, FS_RemoveElement
      <4> QED BY <4>2, Zenon
    <3> HIDE DEF g
    <3> QED BY <3>1, <3>2, Zenon DEF Round
  <2>3. g = [T \in SUBSET S |-> g[T]]
    BY Zenon
  <2> HIDE DEF g
  <2>4. IsLoop(o, S, N, g, m + 1)
    BY <2>2, <2>3, Zenon DEF IsLoop
  <2> QED BY <2>4
<1> HIDE DEF P
<1>3. P = Nat
  <2>1. P \in SUBSET Nat
    BY Zenon DEF P
  <2> QED BY <1>1, <1>2, <2>1, SetInduction, Zenon
<1> QED BY <1>3, Zenon DEF P

\* What Frontends returns is what such a function has for all Services.
LEMMA FrontendsIsLoop ==
    ASSUME NEW o, NEW S, NEW N, Ordered(o, S)
    PROVE  \E f : Frontends(o, S, N) = f[S] /\ Loops(o, S, N, f)
<1> DEFINE f == CHOOSE f : f = [T \in SUBSET S |-> Round(o, N, f, T)]
<1>1. Cardinality(S) \in Nat /\ \A T \in SUBSET S : Cardinality(T) <= Cardinality(S)
  BY FS_Subset, FS_CardinalityType, Zenon DEF Ordered
<1>2. PICK g : IsLoop(o, S, N, g, Cardinality(S))
  BY <1>1, LoopExists, Zenon
<1>3. g = [T \in SUBSET S |-> Round(o, N, g, T)]
  BY <1>1, <1>2, Zenon DEF IsLoop
<1>4. f = [T \in SUBSET S |-> Round(o, N, f, T)]
  BY <1>3, Zenon
<1>5. Frontends(o, S, N) = f[S]
  BY Zenon DEF Frontends, Round
<1> HIDE DEF f
<1>6. Loops(o, S, N, f)
  BY <1>4, Zenon DEF Loops
<1> QED BY <1>5, <1>6, Zenon

\* One round keeps what AsDocumented says, when the Service s that is served is
\* younger than all others.
LEMMA RoundDocumented ==
    ASSUME NEW o, NEW T, NEW s \in T, NEW N, NEW G,
           T \in SUBSET Nat, \A t \in T : o[t].created \in Nat /\ o[t].ports # {},
           \A t \in T \ {s} : Older(o, t, s),
           AsDocumented(G, o, T \ {s}, N)
    PROVE  AsDocumented(Expose(o, s, N, G), o, T, N)
<1> DEFINE F == Expose(o, s, N, G)
<1>1. \A g \in G : g.owner \in T \ {s} /\ Exposed(G, o, g.owner) /\ g \in Mine(o, g.owner, N)
  BY DEF AsDocumented, Mine
<1>2. \A t, p : [owner |-> t, slot |-> p, backends |-> N].owner = t
             /\ [owner |-> t, slot |-> p, backends |-> N].slot = p
  BY Zenon
<1>3. \A m \in Mine(o, s, N) : m.owner = s
  BY DEF Mine
<1>4. \A t \in T \ {s} : {g \in F : g.owner = t} = {g \in G : g.owner = t}
  BY <1>3, Zenon DEF Expose
<1>5. \A t \in T \ {s} : Exposed(F, o, t) <=> Exposed(G, o, t)
  BY <1>4, Zenon DEF Exposed
<1>6. Exposed(F, o, s) <=> ~Conflicted(o, s, SlotsOf(G))
  <2>1. CASE Conflicted(o, s, SlotsOf(G))
    <3>1. F = G
      BY <2>1, Zenon DEF Expose
    <3>2. {g \in F : g.owner = s} = {}
      BY <1>1, <3>1, Zenon
    <3> QED BY <2>1, <3>2, Zenon DEF Exposed
  <2>2. CASE ~Conflicted(o, s, SlotsOf(G))
    <3>1. ASSUME NEW p \in o[s].ports PROVE \E g \in {h \in F : h.owner = s} : g.slot = p
      <4> DEFINE m == [owner |-> s, slot |-> p, backends |-> N]
      <4>1. m \in F
        BY <2>2, Zenon DEF Expose, Mine
      <4> QED BY <4>1
    <3> QED BY <2>2, <3>1, Zenon DEF Exposed
  <2> QED BY <2>1, <2>2, Zenon
<1>7. \A p : p \in SlotsOf(G) <=> \E t \in T \ {s} : Exposed(G, o, t) /\ p \in o[t].ports
  <2>1. ASSUME NEW g \in G PROVE \E t \in T \ {s} : Exposed(G, o, t) /\ g.slot \in o[t].ports
    <3>1. g.slot \in o[g.owner].ports
      BY <1>1 DEF Mine
    <3> QED BY <1>1, <3>1, Zenon
  <2>2. ASSUME NEW t \in T \ {s}, Exposed(G, o, t), NEW p \in o[t].ports PROVE p \in SlotsOf(G)
    BY <2>2, Zenon DEF Exposed, SlotsOf
  <2> QED BY <2>1, <2>2, Zenon DEF SlotsOf
<1>8. Conflicted(o, s, SlotsOf(G)) <=>
        \/ o[s].ports \cap Unsupported # {}
        \/ \E t \in T \ {s} : Exposed(G, o, t) /\ o[t].ports \cap o[s].ports # {}
  BY <1>7, Zenon DEF Conflicted
<1>9. \A t \in T : ~Older(o, s, t)
  BY DEF Older
<1> HIDE DEF F
<1>10. ASSUME NEW u \in T
       PROVE  Exposed(F, o, u) <=>
                /\ o[u].ports \cap Unsupported = {}
                /\ \A t \in T : Older(o, t, u) /\ Exposed(F, o, t) => o[t].ports \cap o[u].ports = {}
  <2>1. CASE u = s
    BY <1>5, <1>6, <1>8, <1>9, <2>1, Zenon
  <2>2. CASE u # s
    BY <1>5, <1>9, <2>2, ZenonT(30) DEF AsDocumented
  <2> QED BY <2>1, <2>2, Zenon
<1>11. F = UNION {Mine(o, t, N) : t \in {u \in T : Exposed(F, o, u)}}
  <2>1. G = UNION {Mine(o, t, N) : t \in {u \in T \ {s} : Exposed(F, o, u)}}
    BY <1>5, Zenon DEF AsDocumented
  <2>2. F = G \cup (IF Exposed(F, o, s) THEN Mine(o, s, N) ELSE {})
    BY <1>6, Zenon DEF F, Expose
  <2> QED BY <2>1, <2>2
<1> QED BY <1>10, <1>11, Zenon DEF AsDocumented, F

\* Frontends exposes what AsDocumented says: the older of two Services keeps a
\* slot, one in conflict takes nothing from a younger one, and none is exposed in
\* part, for any number of Services.
THEOREM FrontendsDocumented ==
    ASSUME NEW o, NEW S, NEW N, Ordered(o, S), \A s \in S : o[s].ports # {}
    PROVE  AsDocumented(Frontends(o, S, N), o, S, N)
<1>1. PICK f : Frontends(o, S, N) = f[S] /\ Loops(o, S, N, f)
  BY FrontendsIsLoop, Zenon
<1> DEFINE P == {T \in SUBSET S : AsDocumented(f[T], o, T, N)}
<1>2. ASSUME NEW T \in SUBSET S, \A x \in T : T \ {x} \in P PROVE T \in P
  <2>1. CASE T = {}
    <3>1. f[T] = {}
      BY <1>1, <2>1, Zenon DEF Loops, Round
    <3> QED BY <2>1, <3>1, Zenon DEF AsDocumented
  <2>2. CASE T # {}
    <3> DEFINE s == Youngest(o, T)
    <3>1. s \in T /\ \A t \in T \ {s} : Older(o, t, s)
      BY <2>2, YoungestIsLast, Zenon
    <3>2. f[T] = Expose(o, s, N, f[T \ {s}])
      BY <1>1, <2>2, Zenon DEF Loops, Round
    <3>3. AsDocumented(f[T \ {s}], o, T \ {s}, N)
      BY <1>2, <3>1, Zenon
    <3>4. T \in SUBSET Nat /\ \A t \in T : o[t].created \in Nat /\ o[t].ports # {}
      BY Zenon DEF Ordered
    <3> HIDE DEF s
    <3>5. AsDocumented(f[T], o, T, N)
      BY <3>1, <3>2, <3>3, <3>4, RoundDocumented, Zenon
    <3> QED BY <3>5, Zenon
  <2> QED BY <2>1, <2>2, Zenon
<1>3. P = SUBSET S
  <2>1. P \in SUBSET SUBSET S /\ IsFiniteSet(S)
    BY Zenon DEF Ordered
  <2> HIDE DEF P
  <2> QED BY <1>2, <2>1, SubsetInduction, Zenon
<1>4. S \in P
  BY <1>3, Zenon
<1> QED BY <1>1, <1>4, Zenon

-----------------------------------------------------------------------------
(* The theorems.                                                           *)

\* Nothing is served at first.
LEMMA Starts == Init => IInv
<1> SUFFICES ASSUME Init PROVE IInv
  BY Zenon
<1>1. NoCall \notin Calls /\ 0 \in Addresses /\ 0 \in Nat /\ MaxChanges \in Nat /\ MaxFaults \in Nat
      /\ Absent.ingress = 0 /\ Absent.state = "absent" /\ Idle.lb = 0 /\ Idle.pc = "idle"
  BY BoundsAssumption, ServicesAssumption DEF NoCall, Calls, Addresses, Absent, Idle
<1>2. TypeOK
  <2>1. svc \in [Services -> Objects] /\ seen \in [Services -> Objects] /\ thread \in [Calls -> Threads]
    BY Defaults, Zenon DEF Init
  <2>2. \A c \in Calls : thread[c].pc = "idle"
    BY <1>1, Zenon DEF Init
  <2>3. faults \in 0..MaxFaults /\ changes \in 0..MaxChanges
    BY <1>1 DEF Init
  <2> QED BY <1>1, <2>1, <2>2, <2>3, Defaults, Zenon DEF Init, TypeOK
<1>3. EnvoyInv
  BY <1>1 DEF Init, EnvoyInv
<1>4. ASSUME NEW s \in Services PROVE ServiceInv(s)
  <2>1. <<s, "service">> \in Calls
    BY Zenon DEF Calls
  <2> QED BY <1>1, <2>1, Zenon DEF Init, ServiceInv
<1>5. ASSUME NEW c \in Calls PROVE CallInv(c)
  BY Zenon DEF Init, CallInv, Idle, Writing, OneOwner, NoFile
<1>6. FilesInv
  BY Zenon DEF Init, FilesInv, Idle, Writing, OneOwner, NoFile
<1> QED BY <1>2, <1>3, <1>4, <1>5, <1>6, Zenon DEF IInv

\* What sync renders is what is documented, by the loop of Frontends.
LEMMA RendersAsDocumented == ASSUME IInv, NEW c \in Calls PROVE RendersDocumented(c)
<1>1. /\ Listed(c) \subseteq Services
      /\ \A r \in Listed(c) : Given(c)[r].ports # {} /\ Given(c)[r].created \in Nat
  BY ListedServices, Zenon
<1>2. Ordered(Given(c), Listed(c))
  BY <1>1, ServicesAssumption, FS_Subset, Zenon DEF Ordered
<1>3. Rendered(c).fronts = Frontends(Given(c), Listed(c), nodes)
  BY Zenon DEF Rendered
<1> QED BY <1>1, <1>2, <1>3, FrontendsDocumented, Zenon DEF RendersDocumented

\* Every step of the service controller, of sync, of the users, the nodes and the
\* VerdaCluster controller keeps the invariant.
LEMMA EveryStep == IInv /\ [Next]_vars => IInv'
<1> SUFFICES ASSUME IInv, [Next]_vars PROVE IInv'
  BY Zenon
<1>1. faults \in 0..MaxFaults
  BY Zenon DEF IInv, TypeOK
<1>2. CASE UNCHANGED vars
  BY <1>1, <1>2, FailureKeeps, Zenon DEF vars
<1>3. ASSUME NEW c \in Calls, Sync(c) PROVE IInv'
  BY <1>3, RendersAsDocumented, SyncListsKeeps, WriteClustersKeeps, WriteListenersKeeps, Zenon DEF Sync
<1>4. ASSUME NEW s \in Services, EnsureLoadBalancerDeleted(s) PROVE IInv'
  <2>1. CASE /\ NoFault /\ svc[s].state = "deleting" /\ GetLoadBalancer(svc[s])
             /\ Start(<<s, "service">>, Absent) /\ queue' = queue \ {<<s, "service">>}
             /\ seen' = [seen EXCEPT ![s] = svc[s]] /\ UNCHANGED svc
    BY <1>4, <2>1, EnsureDeletedKeeps, Zenon DEF NoFault
  <2>2. CASE /\ NoFault /\ ~(svc[s].state = "deleting" /\ GetLoadBalancer(svc[s]))
             /\ Released(s) /\ queue' = queue \ {<<s, "service">>} /\ UNCHANGED thread
    BY <1>4, <2>2, ReleaseKeeps, Zenon DEF NoFault
  <2>3. CASE Fault /\ UNCHANGED <<queue, thread, svc, seen>>
    <3>1. faults' \in 0..MaxFaults
      BY <1>1, <2>3, BoundsAssumption DEF Fault
    <3>2. UNCHANGED <<objects, cds, lds, queue, thread, lock, missed, changes>>
      BY <1>4, <2>3, Zenon DEF EnsureLoadBalancerDeleted, ConfigFrame, objects
    <3> QED BY <3>1, <3>2, FailureKeeps, Zenon
  <2> QED BY <1>4, <2>1, <2>2, <2>3, Zenon DEF EnsureLoadBalancerDeleted
<1>5. ASSUME NEW s \in Services, Service(s) \/ CreateService(s) \/ EditService(s) \/ DeleteService(s) PROVE IInv'
  BY <1>4, <1>5, EnsureKeeps, UpdateKeeps, UserKeeps, Zenon DEF Service
<1>6. CASE NodesChange \/ EnvoyDeleted \/ SecretRemoved \/ SecretPublished
  BY <1>6, NodesChangeKeeps, EnvoyKeeps, Zenon
<1> QED BY <1>2, <1>3, <1>5, <1>6, Zenon DEF Next

\* Whatever calls overlap or fail, what the files of the running envoy say is true
\* of every Service and node but those a call is still to come for.
THEOREM ServiceInvariant == Spec => []IInv
BY Starts, EveryStep, PTL DEF Spec

\* Every variable has its type, and who writes the files holds the mutex (sync).
THEOREM TypeCorrect == Spec => []TypeOK
<1>1. IInv => TypeOK
  BY Zenon DEF IInv
<1> QED BY <1>1, ServiceInvariant, PTL

\* Neither file ever gives a slot to two Services (Frontends and UpdateFiles).
THEOREM OneOwnerAlways == Spec => []OneOwnerPerSlot
<1>1. IInv => OneOwnerPerSlot
  BY Zenon DEF IInv, FilesInv, OneOwner, OneOwnerPerSlot
<1> QED BY <1>1, ServiceInvariant, PTL

\* The Services that exist, with their ports and creation times, are among those
\* Frontends exposes as documented.
LEMMA NowDocumented ==
    ASSUME IInv
    PROVE  /\ Ordered(svc, Present) /\ \A s \in Present : svc[s].ports # {}
           /\ AsDocumented(Now, svc, Present, nodes)
<1>1. ASSUME NEW s \in Present PROVE svc[s].ports # {} /\ svc[s].created \in Nat
  <2>1. svc[s].created \in 0..MaxChanges /\ ServiceInv(s) /\ svc[s].state = "present"
    BY Zenon DEF IInv, TypeOK, Objects, Present
  <2> QED BY <2>1, AskedAssumption DEF ServiceInv
<1>2. Present \subseteq Services
  BY Zenon DEF Present
<1>3. Ordered(svc, Present)
  BY <1>1, <1>2, ServicesAssumption, FS_Subset, Zenon DEF Ordered
<1> QED BY <1>1, <1>3, FrontendsDocumented, Zenon DEF Now

\* The older of two Services keeps a slot both ask for, and none is exposed in
\* part: the loop of Frontends computes what is documented, for the Services as they
\* are at any time and for any three.
THEOREM OldestAlwaysWins == Spec => []OldestServiceWins
<1>1. ThreeServices
  <2> SUFFICES ASSUME NEW o \in [1..3 -> [ports: Asked, created: 0..1]]
               PROVE  AsDocumented(Frontends(o, 1..3, {"n"}), o, 1..3, {"n"})
    BY Zenon DEF ThreeServices
  <2>1. \A s \in 1..3 : o[s].ports # {} /\ o[s].created \in Nat
    BY AskedAssumption
  <2>2. Ordered(o, 1..3)
    <3>1. IsFiniteSet(1..3)
      <4>1. 1 \in Int /\ 3 \in Int
        OBVIOUS
      <4> QED BY <4>1, FS_Interval, Zenon
    <3>2. 1..3 \in SUBSET Nat
      OBVIOUS
    <3> QED BY <2>1, <3>1, <3>2, Zenon DEF Ordered
  <2> QED BY <2>1, <2>2, FrontendsDocumented, Zenon
<1>2. IInv => OldestServiceWins
  BY <1>1, NowDocumented, Zenon DEF OldestServiceWins
<1> QED BY <1>2, ServiceInvariant, PTL

\* A file that is true when nothing is due says what QuietMeansInSync asks of it.
LEMMA QuietFile ==
    ASSUME IInv, Quiet, NEW F \in {cds, lds}, ~F.old
    PROVE  /\ \A f \in F.fronts : svc[f.owner].state = "absent" => Left(f)
           /\ \A s \in Present \ InConflict :
                 svc[s].ingress = address /\ (\A f \in F.fronts : ~Left(f))
                    => \/ {f \in F.fronts : f.owner = s} = Mine(svc, s, nodes)
                       \/ s \in missed /\ SlotsOf({f \in F.fronts : f.owner = s}) = svc[s].ports
<1>1. /\ F \in Files /\ address = envoy.id /\ address # 0
      /\ \A s \in Services : svc[s].state = "absent" /\ svc[s].ingress # 0 => Of(F, s) = {}
      /\ \A s \in Services \ Busy(NoCall) : svc[s].state = "present" => Shown(F, s, svc[s], envoy.id)
      /\ \A f \in F.fronts : f.backends = nodes \/ f.owner \in Awaited(NoCall)
  BY Zenon DEF IInv, TypeOK, FilesInv, TrueNow, TrueOf, Quiet, EnvoyInv
<1>2. \A f \in F.fronts : f.owner \in Services /\ f \in Of(F, f.owner) /\ f = [owner |-> f.owner, slot |-> f.slot, backends |-> f.backends]
  BY <1>1 DEF Files, Frontend, Of
<1>3. \A f \in F.fronts : svc[f.owner].state = "absent" => Left(f)
  BY <1>1, <1>2, Zenon DEF Left
\* No call is under way for a Service that is not in conflict.
<1>4. ASSUME NEW s \in Services, s \notin InConflict
      PROVE  /\ \A k \in Kinds : ~Calling(NoCall, s, k)
             /\ s \notin Busy(NoCall) /\ (seen[s] # Absent /\ s \notin missed => s \notin Awaited(NoCall))
             /\ svc[s].state # "deleting"
  <2>1. ASSUME NEW k \in Kinds PROVE <<s, k>> \notin queue /\ thread[<<s, k>>].pc = "idle"
    <3>1. <<s, k>> \in Calls /\ <<s, k>>[1] = s
      BY Zenon DEF Calls, Kinds
    <3>2. <<s, k>> \notin queue \cup {d \in Calls : thread[d] # Idle}
      BY <1>4, <3>1, Zenon DEF Quiet
    <3> QED BY <3>1, <3>2 DEF Idle
  <2>2. \A k \in Kinds : ~Calling(NoCall, s, k)
    BY <2>1, Zenon DEF Calling
  <2>3. s \notin Busy(NoCall) /\ (seen[s] # Absent /\ s \notin missed => s \notin Awaited(NoCall))
    BY <2>2, Zenon DEF Busy, Awaited, Kinds
  <2>4. svc[s].state # "deleting"
    BY <2>1, Zenon DEF IInv, ServiceInv, Kinds
  <2> QED BY <2>2, <2>3, <2>4, Zenon
<1>5. ASSUME NEW s \in Present \ InConflict, svc[s].ingress = address, \A f \in F.fronts : ~Left(f)
      PROVE  Of(F, s) = Mine(svc, s, nodes) \/ (s \in missed /\ SlotsOf(Of(F, s)) = svc[s].ports)
  <2>1. s \in Services /\ svc[s].state = "present" /\ s \notin Busy(NoCall) /\ (s \notin missed => s \notin Awaited(NoCall))
        /\ Shown(F, s, svc[s], envoy.id)
    <3>1. s \in Services /\ svc[s].state = "present" /\ seen[s] # Absent
      BY <1>1, <1>5, Zenon DEF Present, IInv, ServiceInv
    <3> QED BY <1>1, <1>4, <1>5, <3>1, ZenonT(60)
  <2>2. CASE Of(F, s) # {} /\ SlotsOf(Of(F, s)) = svc[s].ports
    <3> SUFFICES ASSUME s \notin missed PROVE Of(F, s) = Mine(svc, s, nodes)
      BY <2>2, Zenon
    <3>1. ASSUME NEW f \in Of(F, s) PROVE f = [owner |-> s, slot |-> f.slot, backends |-> nodes] /\ f.slot \in svc[s].ports
      <4>1. f \in F.fronts /\ f.owner = s /\ f.slot \in svc[s].ports
        BY <2>2, Zenon DEF Of, SlotsOf
      <4> QED BY <1>1, <1>2, <2>1, <4>1, Zenon
    <3>2. Of(F, s) \subseteq Mine(svc, s, nodes)
      BY <3>1, Zenon DEF Mine
    <3>3. ASSUME NEW m \in Mine(svc, s, nodes) PROVE m \in Of(F, s)
      <4>1. PICK q \in svc[s].ports : m = [owner |-> s, slot |-> q, backends |-> nodes]
        BY Zenon DEF Mine
      <4>2. PICK f \in Of(F, s) : f.slot = q
        BY <2>2, Zenon DEF SlotsOf
      <4> QED BY <3>1, <4>1, <4>2, Zenon
    <3> QED BY <3>2, <3>3, Zenon
  \* A Service that is not in conflict is not kept from its slots by another.
  <2>3. CASE svc[s].ports \cap (Unsupported \cup SlotsOf(F.fronts)) # {}
    <3>1. Exposed(Now, svc, s)
      BY <1>5, Zenon DEF InConflict
    <3>2. svc[s].ports \cap Unsupported = {}
      BY <1>5, <3>1, NowDocumented, Zenon DEF AsDocumented
    <3>3. PICK f \in F.fronts : f.slot \in svc[s].ports
      BY <2>3, <3>2, Zenon DEF SlotsOf
    <3>4. CASE f.owner = s
      <4>1. Of(F, s) # {}
        BY <3>4, Zenon DEF Of
      <4> QED BY <2>1, <2>2, <4>1, Zenon DEF Shown
    <3>5. CASE f.owner # s
      <4> DEFINE r == f.owner
      <4>1. r \in Services /\ r \notin InConflict /\ svc[r].state # "absent" /\ f \in Of(F, r)
        BY <1>2, <1>3, <1>5, Zenon DEF Left
      <4>2. svc[r].state = "present" /\ r \notin Busy(NoCall) /\ r \in Present
        <5>1. svc[r].state \in {"absent", "present", "deleting"}
          BY <4>1, Zenon DEF IInv, TypeOK, Objects
        <5> QED BY <1>4, <4>1, <5>1, Zenon DEF Present
      <4>3. f.slot \in svc[r].ports
        BY <1>1, <4>1, <4>2, Zenon DEF Shown, SlotsOf
      <4>4. Exposed(Now, svc, r)
        BY <4>1, <4>2, Zenon DEF InConflict
      <4>5. PICK g \in Now : g.owner = s /\ g.slot = f.slot
        BY <3>1, <3>3, Zenon DEF Exposed
      <4>6. PICK h \in Now : h.owner = r /\ h.slot = f.slot
        BY <4>3, <4>4, Zenon DEF Exposed
      <4> QED BY <3>5, <4>5, <4>6, NowDocumented, DocumentedOneOwner, Zenon
    <3> QED BY <3>4, <3>5, Zenon
  <2> QED BY <1>1, <1>5, <2>1, <2>2, <2>3, ZenonT(60) DEF Shown
<1> QED BY <1>3, <1>5, Zenon DEF Of

\* The updates of overlapping calls are not lost or undone by one another: once
\* nothing is due, both files say what the Services and the nodes call for (sync
\* lists and writes under the mutex, and what fails is repeated).
THEOREM QuietInSync == Spec => []QuietMeansInSync
<1>1. IInv => QuietMeansInSync
  BY QuietFile, Zenon DEF QuietMeansInSync
<1> QED BY <1>1, ServiceInvariant, PTL

=============================================================================
