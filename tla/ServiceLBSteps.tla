--------------------------- MODULE ServiceLBSteps ----------------------------
(***************************************************************************)
(* Proofs about ServiceLB, for any finite set of Services, any slots and   *)
(* nodes and any number of faults and changes: the inductive invariant,    *)
(* and the steps of the calls and of their surroundings, which keep it if  *)
(* what sync renders is what is documented (ServiceLBProofs).              *)
(*                                                                         *)
(* The invariant follows the two files through the steps of overlapping    *)
(* calls: what a file says of a Service is true of it unless a call for    *)
(* that Service is still to come, or one for its nodes was given up.       *)
(***************************************************************************)
EXTENDS ServiceLB, TLAPS

-----------------------------------------------------------------------------
(* The inductive invariant.                                                *)

Kinds == {"service", "node"}
Writing == {"clusters", "listeners"}

\* A call of kind k for s is still to come, or runs, call c left aside.
Calling(c, s, k) == <<s, k>> \in queue \/ (<<s, k>> # c /\ thread[<<s, k>>].pc # "idle")

\* The Services whose listeners may have to change, and those whose nodes may.
Busy(c) == {s \in Services : Calling(c, s, "service")}
Awaited(c) ==
    {s \in Services : seen[s] = Absent \/ s \in missed \/ Calling(c, s, "service") \/ Calling(c, s, "node")}

Of(F, s) == {f \in F.fronts : f.owner = s}

\* File F has the listeners of Service s whose object is o, or has none because s
\* is in conflict with the others or was not served since envoy has the address id.
Shown(F, s, o, id) ==
    \/ Of(F, s) # {} /\ SlotsOf(Of(F, s)) = o.ports
    \/ Of(F, s) = {} /\ (o.ports \cap (Unsupported \cup SlotsOf(F.fronts)) # {} \/ o.ingress # id)

\* What file F says is true of the Services o except B, with the nodes N except for A.
TrueOf(F, o, id, N, B, A) ==
    ~F.old => /\ \A s \in Services : o[s].state = "absent" /\ o[s].ingress # 0 => Of(F, s) = {}
              /\ \A s \in Services \ B : o[s].state = "present" => Shown(F, s, o[s], id)
              /\ \A f \in F.fronts : f.backends = N \/ f.owner \in A

\* ... and what it would say if call c ended now.
TrueNow(F, c) == TrueOf(F, svc, envoy.id, nodes, Busy(c), Awaited(c))

OneOwner(F) == \A f, g \in F.fronts : f.slot = g.slot => f = g

\* An envoy that does not run has no files, and no address is used again.
EnvoyInv ==
    /\ envoy.id + changes <= MaxChanges + 1 /\ (~envoy.runs => envoy.id + changes <= MaxChanges)
    /\ address \in {0, envoy.id}
    /\ envoy.runs => address = envoy.id /\ address # 0
    /\ ~envoy.runs => cds = NoFile /\ lds = NoFile
    /\ \A s \in Services : svc[s].ingress <= envoy.id
    /\ \A c \in Calls : thread[c].lb <= envoy.id

\* A Service that is served has the finalizer, one that was served has been seen,
\* and a deleted one is served until it is released.
ServiceInv(s) ==
    LET c == <<s, "service">>
    IN  /\ svc[s].state # "absent" => svc[s].ports \in Asked
        /\ seen[s] # Absent => seen[s].ports \in Asked
        /\ svc[s].state = "present" /\ svc[s].ingress # 0 => seen[s] # Absent
        /\ svc[s].state = "deleting" => c \in queue \/ (thread[c].pc # "idle" /\ thread[c].copy = Absent)
        /\ thread[c].pc # "idle" /\ thread[c].copy = Absent => svc[s].state = "deleting"
        /\ thread[c].pc # "idle" /\ thread[c].copy # Absent =>
              /\ svc[s].finalizer /\ svc[s].state # "absent" /\ seen[s] # Absent
              /\ c \notin queue => svc[s].state = "present" /\ svc[s].ports = thread[c].copy.ports

\* What a call has been given and has rendered.
CallInv(c) ==
    /\ thread[c].pc = "idle" => thread[c] = Idle
    /\ thread[c].copy # Absent => thread[c].copy.ports \in Asked
    /\ thread[c].pc # "idle" /\ c[2] = "node" => thread[c].copy # Absent
    /\ OneOwner(thread[c].file)
    /\ thread[c].pc \in Writing => /\ SlotsOf(Of(thread[c].file, c[1])) = thread[c].copy.ports
                                   /\ c[2] = "service" => ~thread[c].file.old
    /\ thread[c].pc = "listeners" /\ Reachable(c) => cds = thread[c].file

\* The files that are written and the one that is going to be are true.
FilesInv ==
    /\ OneOwner(cds) /\ OneOwner(lds)
    /\ envoy.runs => TrueNow(cds, NoCall) /\ TrueNow(lds, NoCall)
    /\ \A c \in Calls : thread[c].pc \in Writing /\ Reachable(c) => TrueNow(thread[c].file, c)

IInv ==
    /\ TypeOK
    /\ EnvoyInv
    /\ \A s \in Services : ServiceInv(s)
    /\ \A c \in Calls : CallInv(c)
    /\ FilesInv

-----------------------------------------------------------------------------
(* Steps that write no file.                                               *)

\* A file stays true while no more is said of the Services it is about.
LEMMA TrueStays ==
    ASSUME NEW F \in Files, NEW o, NEW id, NEW N, NEW B, NEW A, TrueOf(F, o, id, N, B, A),
           NEW p, NEW jd, NEW M, NEW C, NEW D,
           \A s \in Services : p[s].state = "absent" /\ p[s].ingress # 0 => o[s].state = "absent" /\ o[s].ingress # 0,
           \A s \in Services \ C : p[s].state = "present" =>
                /\ s \notin B /\ o[s].state = "present" /\ o[s].ports = p[s].ports
                /\ p[s].ingress = jd => o[s].ingress = id,
           A \subseteq D, M = N \/ Services \subseteq D
    PROVE  TrueOf(F, p, jd, M, C, D)
<1> SUFFICES ASSUME ~F.old PROVE TrueOf(F, p, jd, M, C, D)
  BY Zenon DEF TrueOf
<1>1. \A s \in Services : p[s].state = "absent" /\ p[s].ingress # 0 => Of(F, s) = {}
  BY Zenon DEF TrueOf
<1>2. ASSUME NEW s \in Services \ C, p[s].state = "present" PROVE Shown(F, s, p[s], jd)
  <2>1. Shown(F, s, o[s], id) /\ o[s].ports = p[s].ports /\ (p[s].ingress = jd => o[s].ingress = id)
    BY <1>2, Zenon DEF TrueOf
  <2> QED BY <2>1, Zenon DEF Shown
<1>3. \A f \in F.fronts : f.owner \in Services
  BY Zenon DEF Files, Frontend
<1>4. \A f \in F.fronts : f.backends = M \/ f.owner \in D
  BY <1>3, Zenon DEF TrueOf
<1> QED BY <1>1, <1>2, <1>4, Zenon DEF TrueOf

\* A step after which no more is said, call c left aside.
Stays(c) ==
    /\ \A s \in Services : svc'[s].state = "absent" /\ svc'[s].ingress # 0
                              => svc[s].state = "absent" /\ svc[s].ingress # 0
    /\ \A s \in Services \ Busy(c)' : svc'[s].state = "present" =>
          /\ s \notin Busy(c) /\ svc[s].state = "present"
          /\ svc[s].ports = svc'[s].ports /\ svc[s].ingress = svc'[s].ingress
    /\ Awaited(c) \subseteq Awaited(c)'
    /\ nodes' = nodes \/ Services \subseteq Awaited(c)'

\* Such a step keeps the files true.
LEMMA FilesStay ==
    ASSUME IInv, UNCHANGED <<cds, lds, envoy>>,
           \A c \in Calls : thread'[c].pc \in Writing => thread'[c] = thread[c],
           envoy.runs => Stays(NoCall) /\ \A c \in Calls : thread[c].pc \in Writing => Stays(c)
    PROVE  FilesInv'
<1>1. ASSUME NEW F \in Files, NEW c, Stays(c), TrueNow(F, c)
      PROVE  TrueOf(F, svc', envoy.id, nodes', Busy(c)', Awaited(c)')
  BY <1>1, TrueStays DEF Stays, TrueNow
<1>2. cds \in Files /\ lds \in Files /\ \A c \in Calls : thread[c].file \in Files
  BY Zenon DEF IInv, TypeOK, Threads
<1>3. OneOwner(cds)' /\ OneOwner(lds)'
  BY Zenon DEF IInv, FilesInv, OneOwner
<1>4. ASSUME envoy'.runs PROVE TrueNow(cds, NoCall)' /\ TrueNow(lds, NoCall)'
  BY <1>1, <1>2, <1>4, Zenon DEF IInv, FilesInv, TrueNow
<1>5. ASSUME NEW c \in Calls, thread'[c].pc \in Writing, Reachable(c)' PROVE TrueNow(thread[c].file, c)'
  <2>1. thread'[c] = thread[c] /\ envoy.runs /\ Reachable(c)
    BY <1>5, Zenon DEF Reachable
  <2> QED BY <1>1, <1>2, <1>5, <2>1, Zenon DEF IInv, FilesInv, TrueNow
<1> QED BY <1>3, <1>4, <1>5, ZenonT(60) DEF FilesInv

\* The values that stand for no object, no file and no call have their types.
LEMMA Defaults == Absent \in Objects /\ NoFile \in Files /\ Idle \in Threads
<1>1. 0 \in Addresses /\ 0 \in 0..MaxChanges
  BY BoundsAssumption DEF Addresses
<1>2. Absent \in Objects
  BY <1>1, Zenon DEF Absent, Objects
<1>3. NoFile \in Files
  BY Zenon DEF NoFile, Files
<1> QED BY <1>1, <1>2, <1>3, Zenon DEF Idle, Threads

\* NoCall is no call, and neither is it, nor one that writes, a call that is idle.
LEMMA OtherCall ==
    /\ NoCall \notin Calls
    /\ \A c, d : c \in Calls /\ thread[c] = Idle /\ (d = NoCall \/ thread[d].pc \in Writing) => d # c
<1>1. NoCall \notin Calls
  BY ServicesAssumption, Zenon DEF NoCall, Calls
<1>2. Idle.pc \notin Writing
  BY Zenon DEF Idle, Writing
<1> QED BY <1>1, <1>2, Zenon

\* A call that does not move keeps what it has rendered.
LEMMA CallStays ==
    ASSUME IInv, NEW d \in Calls, UNCHANGED <<cds, envoy>>, thread'[d] = thread[d] PROVE CallInv(d)'
BY Zenon DEF IInv, CallInv, Reachable

\* A call that begins has rendered nothing.
LEMMA CallStarts ==
    ASSUME NEW d \in Calls, thread'[d].pc = "lock", thread'[d].file = NoFile,
           IF thread'[d].copy = Absent THEN d[2] = "service" ELSE thread'[d].copy.ports \in Asked
    PROVE  CallInv(d)'
BY DEF Calls, CallInv, Writing, OneOwner, NoFile

\* EnsureLoadBalancer takes a Service from the queue to the mutex, or leaves it.
LEMMA EnsureKeeps == ASSUME IInv, NEW s \in Services, EnsureLoadBalancer(s) PROVE IInv'
<1> DEFINE c == <<s, "service">>
           o == [svc[s] EXCEPT !.finalizer = TRUE]
           t == [Idle EXCEPT !.pc = "lock", !.copy = o, !.lb = address]
<1>0. /\ c \in Calls /\ c \in queue /\ thread[c] = Idle /\ svc[s].state = "present"
      /\ svc' = [svc EXCEPT ![s] = o] /\ seen' = [seen EXCEPT ![s] = o]
      /\ \/ address # 0 /\ thread' = [thread EXCEPT ![c] = t] /\ queue' = queue \ {c}
         \/ UNCHANGED <<queue, thread>>
      /\ UNCHANGED <<nodes, address, envoy, cds, lds, lock, missed, changes>>
      /\ faults' \in 0..MaxFaults
  BY BoundsAssumption DEF EnsureLoadBalancer, Due, Start, Go, ConfigFrame, Calls, Fault, NoFault, IInv, TypeOK
<1>1. o \in Objects /\ o.ports = svc[s].ports /\ o.ports \in Asked /\ o # Absent /\ o.state = "present"
      /\ o.ingress = svc[s].ingress /\ o.finalizer
  BY <1>0, ZenonT(60) DEF IInv, TypeOK, Objects, Absent, ServiceInv
<1>2. t \in Threads /\ t.pc = "lock" /\ t.copy = o /\ t.lb = address /\ t.file = NoFile
  BY <1>0, <1>1, Defaults, Zenon DEF IInv, TypeOK, Threads, Idle
<1> HIDE DEF o, t
<1>3. TypeOK'
  BY <1>0, <1>1, <1>2, Zenon DEF IInv, TypeOK, Writing
<1>4. EnvoyInv'
  <2>1. \A d \in Calls : thread'[d].lb \in {thread[d].lb, address}
    BY <1>0, <1>2, Zenon DEF IInv, TypeOK
  <2>2. \A r \in Services : svc'[r].ingress = svc[r].ingress
    BY <1>0, <1>1, Zenon DEF IInv, TypeOK
  <2> QED BY <1>0, <2>1, <2>2 DEF IInv, TypeOK, EnvoyInv, Addresses
<1>5. ASSUME NEW r \in Services PROVE ServiceInv(r)'
  BY <1>0, <1>1, <1>2 DEF IInv, TypeOK, ServiceInv, Calls, Idle
<1>6. ASSUME NEW d \in Calls PROVE CallInv(d)'
  <2>1. CASE thread'[d] = thread[d]
    BY <1>0, <2>1, CallStays, Zenon
  <2>2. CASE thread'[d] # thread[d]
    <3>1. d = c /\ thread'[d] = t
      BY <1>0, <2>2, Zenon DEF IInv, TypeOK
    <3> QED BY <1>0, <1>1, <1>2, <2>2, <3>1, CallStarts, Zenon
  <2> QED BY <2>1, <2>2, Zenon
<1>7. FilesInv'
  <2>1. \A d \in Calls : thread'[d].pc \in Writing => thread'[d] = thread[d]
    BY <1>0, <1>2, Zenon DEF Writing, IInv, TypeOK
  <2>2. ASSUME NEW d, d = NoCall \/ (d \in Calls /\ thread[d].pc \in Writing) PROVE Stays(d)
    <3>1. d # c
      BY <1>0, <2>2, OtherCall, Zenon
    <3>2. \A r \in Services, k \in Kinds : Calling(d, r, k)' <=> Calling(d, r, k)
      BY <1>0, <1>2, <3>1 DEF Calling, Kinds, IInv, TypeOK, Calls, Idle
    <3>3. s \in Awaited(d)'
      BY <1>0, <1>2, <3>1, <3>2, Zenon DEF Awaited, Calling, Kinds
    <3> QED BY <1>0, <1>1, <3>2, <3>3, Zenon DEF Stays, Busy, Awaited, Kinds, IInv, TypeOK
  <2> QED BY <1>0, <2>1, <2>2, FilesStay, Zenon
<1> QED BY <1>3, <1>4, <1>5, <1>6, <1>7, Zenon DEF IInv

\* EnsureLoadBalancerDeleted, when there is a load balancer to take the Service from.
LEMMA EnsureDeletedKeeps ==
    ASSUME IInv, NEW s \in Services, EnsureLoadBalancerDeleted(s), svc[s].state = "deleting",
           Start(<<s, "service">>, Absent), queue' = queue \ {<<s, "service">>}, seen' = [seen EXCEPT ![s] = svc[s]],
           UNCHANGED <<svc, faults>>
    PROVE  IInv'
<1> DEFINE c == <<s, "service">>
           t == [Idle EXCEPT !.pc = "lock", !.copy = Absent, !.lb = address]
<1>0. /\ c \in Calls /\ c \in queue /\ thread[c] = Idle
      /\ thread' = [thread EXCEPT ![c] = t]
      /\ UNCHANGED <<nodes, address, envoy, cds, lds, lock, missed, changes>>
  BY Zenon DEF EnsureLoadBalancerDeleted, Due, Start, Go, ConfigFrame, Calls
<1>1. svc[s] \in Objects /\ svc[s].ports \in Asked /\ svc[s] # Absent
  BY DEF IInv, TypeOK, Absent, ServiceInv
<1>2. t \in Threads /\ t.pc = "lock" /\ t.copy = Absent /\ t.lb = address /\ t.file = NoFile
  BY Defaults, Zenon DEF IInv, TypeOK, Threads, Idle
<1> HIDE DEF t
<1>3. TypeOK'
  BY <1>0, <1>1, <1>2, Zenon DEF IInv, TypeOK, Writing
<1>4. EnvoyInv'
  <2>1. \A d \in Calls : thread'[d].lb \in {thread[d].lb, address}
    BY <1>0, <1>2, Zenon DEF IInv, TypeOK
  <2>2. \A r \in Services : svc'[r].ingress = svc[r].ingress
    BY <1>0, <1>1, Zenon DEF IInv, TypeOK
  <2> QED BY <1>0, <2>1, <2>2 DEF IInv, TypeOK, EnvoyInv, Addresses
<1>5. ASSUME NEW r \in Services PROVE ServiceInv(r)'
  BY <1>0, <1>1, <1>2, Zenon DEF IInv, TypeOK, ServiceInv, Calls, Idle
<1>6. ASSUME NEW d \in Calls PROVE CallInv(d)'
  <2>1. CASE thread'[d] = thread[d]
    BY <1>0, <2>1, CallStays, Zenon
  <2>2. CASE thread'[d] # thread[d]
    <3>1. d = c /\ thread'[d] = t
      BY <1>0, <2>2, Zenon DEF IInv, TypeOK
    <3> QED BY <1>0, <1>1, <1>2, <2>2, <3>1, CallStarts, Zenon
  <2> QED BY <2>1, <2>2, Zenon
<1>7. FilesInv'
  <2>1. \A d \in Calls : thread'[d].pc \in Writing => thread'[d] = thread[d]
    BY <1>0, <1>2, Zenon DEF Writing, IInv, TypeOK
  <2>2. ASSUME NEW d, d = NoCall \/ (d \in Calls /\ thread[d].pc \in Writing) PROVE Stays(d)
    <3>1. d # c
      BY <1>0, <2>2, OtherCall, Zenon
    <3>2. \A r \in Services, k \in Kinds : Calling(d, r, k)' <=> Calling(d, r, k)
      BY <1>0, <1>2, <3>1, Zenon DEF Calling, Kinds, IInv, TypeOK, Calls, Idle
    <3>3. s \in Awaited(d)'
      BY <1>0, <1>2, <3>1, <3>2, Zenon DEF Awaited, Calling, Kinds
    <3> QED BY <1>0, <1>1, <3>2, <3>3, Zenon DEF Stays, Busy, Awaited, Kinds, IInv, TypeOK
  <2> QED BY <1>0, <2>1, <2>2, FilesStay, Zenon
<1> QED BY <1>3, <1>4, <1>5, <1>6, <1>7, Zenon DEF IInv

\* A Service that has no load balancer, because there is no Secret or because its
\* status has no address, is released at once.
LEMMA ReleaseKeeps ==
    ASSUME IInv, NEW s \in Services, EnsureLoadBalancerDeleted(s), ~(svc[s].state = "deleting" /\ GetLoadBalancer(svc[s])),
           Released(s), queue' = queue \ {<<s, "service">>}, UNCHANGED <<thread, faults>>
    PROVE  IInv'
<1> DEFINE c == <<s, "service">>
           o == [Absent EXCEPT !.ingress = svc[s].ingress]
<1>0. /\ c \in Calls /\ c \in queue /\ thread[c] = Idle /\ svc[s].state # "present"
      /\ svc' = [svc EXCEPT ![s] = o] /\ seen' = [seen EXCEPT ![s] = Absent]
      /\ UNCHANGED <<nodes, address, envoy, cds, lds, lock, missed, changes>>
  BY Zenon DEF EnsureLoadBalancerDeleted, Due, Released, ConfigFrame, Calls
<1>1. o \in Objects /\ o.state = "absent" /\ o.ingress = svc[s].ingress /\ Absent \in Objects
  <2>1. svc[s].ingress \in Addresses
    BY Zenon DEF IInv, TypeOK, Objects
  <2> QED BY <2>1, Defaults, Zenon DEF Objects, Absent
<1> HIDE DEF o
<1>3. TypeOK'
  BY <1>0, <1>1, Zenon DEF IInv, TypeOK, Writing
<1>4. EnvoyInv'
  BY <1>0, <1>1, Zenon DEF IInv, TypeOK, EnvoyInv
<1>5. ASSUME NEW r \in Services PROVE ServiceInv(r)'
  BY <1>0, <1>1 DEF IInv, TypeOK, ServiceInv, Calls, Idle
<1>6. ASSUME NEW d \in Calls PROVE CallInv(d)'
  BY <1>0, <1>1, Zenon DEF IInv, TypeOK, CallInv, Writing, OneOwner, Reachable
<1>7. FilesInv'
  <2>1. \A d \in Calls : thread'[d].pc \in Writing => thread'[d] = thread[d]
    BY Zenon
  <2>2. ASSUME NEW d, d = NoCall \/ (d \in Calls /\ thread[d].pc \in Writing), envoy.runs PROVE Stays(d)
    <3>1. o.ingress # 0 => svc[s].state = "absent"
      <4>1. address # 0
        BY <2>2, Zenon DEF IInv, EnvoyInv
      <4>2. svc[s].state \in {"absent", "deleting"}
        BY <1>0, Zenon DEF IInv, TypeOK, Objects
      <4> QED BY <1>1, <4>1, <4>2, Zenon DEF GetLoadBalancer
    <3>2. \A r \in Services, k \in Kinds : r # s => (Calling(d, r, k)' <=> Calling(d, r, k))
      BY <1>0, Zenon DEF Calling, Kinds
    <3>3. s \in Awaited(d)'
      BY <1>0, Zenon DEF Awaited, IInv, TypeOK
    <3> QED BY <1>0, <1>1, <3>1, <3>2, <3>3, Zenon DEF Stays, Busy, Awaited, Kinds, IInv, TypeOK
  <2> QED BY <1>0, <2>1, <2>2, FilesStay, Zenon
<1> QED BY <1>3, <1>4, <1>5, <1>6, <1>7, Zenon DEF IInv

\* A call that fails before it has done anything stays in the queue.
LEMMA FailureKeeps ==
    ASSUME IInv, UNCHANGED <<objects, cds, lds, queue, thread, lock, missed, changes>>, faults' \in 0..MaxFaults PROVE IInv'
<1>1. TypeOK' /\ EnvoyInv'
  BY Zenon DEF IInv, TypeOK, EnvoyInv, objects
<1>2. ASSUME NEW r \in Services PROVE ServiceInv(r)'
  BY Zenon DEF IInv, ServiceInv, objects
<1>3. ASSUME NEW d \in Calls PROVE CallInv(d)'
  BY Zenon DEF IInv, CallInv, objects, OneOwner, Reachable
<1>4. ASSUME NEW d PROVE Stays(d)
  BY Zenon DEF Stays, Busy, Awaited, Calling, objects
<1>5. FilesInv'
  BY <1>4, FilesStay, Zenon DEF objects
<1> QED BY <1>1, <1>2, <1>3, <1>5, Zenon DEF IInv

\* UpdateLoadBalancer starts a call with the object that was seen last, or drops the
\* Service if that is gone.
LEMMA UpdateKeeps == ASSUME IInv, NEW s \in Services, UpdateLoadBalancer(s) PROVE IInv'
<1> DEFINE c == <<s, "node">>
           o == [seen[s] EXCEPT !.state = "present"]
           t == [Idle EXCEPT !.pc = "lock", !.copy = o, !.lb = address]
<1>0. /\ c \in Calls /\ c \in queue /\ thread[c] = Idle
      /\ \/ (seen[s] = Absent \/ s \in missed') /\ queue' = queue \ {c} /\ UNCHANGED thread
         \/ seen[s] # Absent /\ thread' = [thread EXCEPT ![c] = t] /\ queue' = queue \ {c}
         \/ UNCHANGED <<queue, thread>>
      /\ missed \subseteq missed' /\ missed' \subseteq Services
      /\ UNCHANGED <<svc, seen, nodes, address, envoy, cds, lds, lock, changes>>
      /\ faults' \in 0..MaxFaults
  <2>1. faults' \in 0..MaxFaults
    BY BoundsAssumption DEF UpdateLoadBalancer, Fault, NoFault, IInv, TypeOK
  <2>2. c \in Calls /\ c[1] = s /\ missed \subseteq Services
    BY Zenon DEF Calls, IInv, TypeOK
  <2>3. c \in queue => (queue \ {c}) \cup {c} = queue
    OBVIOUS
  <2> QED BY <2>1, <2>2, <2>3 DEF UpdateLoadBalancer, Retry, Due, Start, Go, ConfigFrame
<1>1. seen[s] # Absent => o \in Objects /\ o.ports \in Asked /\ o # Absent
  <2>1. o \in Objects /\ o.state = "present" /\ o.ports = seen[s].ports
    BY ZenonT(60) DEF IInv, TypeOK, Objects
  <2> QED BY <2>1, Zenon DEF IInv, ServiceInv, Absent
<1>2. seen[s] # Absent => t \in Threads /\ t.pc = "lock" /\ t.copy = o /\ t.lb = address /\ t.file = NoFile
  BY <1>0, <1>1, Defaults, Zenon DEF IInv, TypeOK, Threads, Idle
<1> HIDE DEF o, t
<1>3. TypeOK'
  BY <1>0, <1>1, <1>2, Zenon DEF IInv, TypeOK, Writing
<1>4. EnvoyInv'
  <2>1. \A d \in Calls : thread'[d].lb \in {thread[d].lb, address}
    BY <1>0, <1>2, Zenon DEF IInv, TypeOK
  <2>2. \A r \in Services : svc'[r].ingress = svc[r].ingress
    BY <1>0, <1>1, Zenon DEF IInv, TypeOK
  <2> QED BY <1>0, <2>1, <2>2 DEF IInv, TypeOK, EnvoyInv, Addresses
<1>5. ASSUME NEW r \in Services PROVE ServiceInv(r)'
  BY <1>0, <1>1, <1>2 DEF IInv, TypeOK, ServiceInv, Calls, Idle
<1>6. ASSUME NEW d \in Calls PROVE CallInv(d)'
  <2>1. CASE thread'[d] = thread[d]
    BY <1>0, <2>1, CallStays, Zenon
  <2>2. CASE thread'[d] # thread[d]
    <3>1. d = c /\ thread'[d] = t
      BY <1>0, <2>2, Zenon DEF IInv, TypeOK
    <3> QED BY <1>0, <1>1, <1>2, <2>2, <3>1, CallStarts, Zenon
  <2> QED BY <2>1, <2>2
<1>7. FilesInv'
  <2>1. \A d \in Calls : thread'[d].pc \in Writing => thread'[d] = thread[d]
    BY <1>0, <1>2, Zenon DEF Writing, IInv, TypeOK
  <2>2. ASSUME NEW d, d = NoCall \/ (d \in Calls /\ thread[d].pc \in Writing) PROVE Stays(d)
    <3>1. d # c
      BY <1>0, <2>2, OtherCall, Zenon
    <3>2. \A r \in Services, k \in Kinds : 
                \/ Calling(d, r, k)' <=> Calling(d, r, k)
                \/ r = s /\ k = "node" /\ (seen[s] = Absent \/ s \in missed')
      BY <1>0, <1>2, <3>1 DEF Calling, Kinds, IInv, TypeOK, Calls, Idle
    <3> QED BY <1>0, <3>2, Zenon DEF Stays, Busy, Awaited, Kinds, IInv, TypeOK
  <2> QED BY <1>0, <2>1, <2>2, FilesStay, Zenon
<1> QED BY <1>3, <1>4, <1>5, <1>6, <1>7 DEF IInv

-----------------------------------------------------------------------------
(* Users, nodes and the VerdaCluster controller.                           *)

\* The bounds are natural numbers, and a change uses one up.
LEMMA Numbers ==
    ASSUME IInv
    PROVE  /\ MaxChanges \in Nat /\ changes \in Nat /\ changes <= MaxChanges /\ envoy.id \in Nat
           /\ \A s \in Services : svc[s].ingress \in Nat
           /\ \A c \in Calls : thread[c].lb \in Nat
           /\ Change => changes' \in 0..MaxChanges /\ changes' = changes - 1 /\ changes' <= changes
<1>1. MaxChanges \in Nat /\ changes \in 0..MaxChanges /\ envoy.id \in Addresses /\ Addresses \subseteq Nat
  BY BoundsAssumption DEF IInv, TypeOK, Addresses
<1>2. \A s \in Services : svc[s].ingress \in Addresses
  BY Zenon DEF IInv, TypeOK, Objects
<1>3. \A c \in Calls : thread[c].lb \in Addresses
  BY Zenon DEF IInv, TypeOK, Threads
<1>4. Change => changes' \in 0..MaxChanges /\ changes' = changes - 1 /\ changes' <= changes
  BY <1>1 DEF Change
<1>5. changes \in Nat /\ changes <= MaxChanges
  BY <1>1
<1>6. /\ envoy.id \in Nat
      /\ \A s \in Services : svc[s].ingress \in Nat
      /\ \A c \in Calls : thread[c].lb \in Nat
  BY <1>1, <1>2, <1>3, Zenon
<1> QED BY <1>1, <1>4, <1>5, <1>6, Zenon

\* A user creates, edits or deletes a Service, which is queued.
LEMMA UserKeeps ==
    ASSUME IInv, NEW s \in Services, CreateService(s) \/ EditService(s) \/ DeleteService(s) PROVE IInv'
<1> DEFINE c == <<s, "service">>
<1>0. /\ c \in Calls /\ queue' = queue \cup {c}
      /\ UNCHANGED <<seen, thread, lock, faults, nodes, address, envoy, cds, lds, missed>>
      /\ changes' \in 0..MaxChanges /\ changes' <= changes
  BY Numbers, ZenonT(60) DEF CreateService, EditService, DeleteService, Outside, Calls
<1>1. PICK o \in Objects :
         /\ svc' = [svc EXCEPT ![s] = o]
         /\ o.ingress \in {0, svc[s].ingress}
         /\ \/ o.state = "present" /\ o.ports \in Asked /\ svc[s].state = "absent" /\ seen[s] = Absent /\ o.ingress = 0
            \/ /\ svc[s].state = "present" /\ o.state \in {"present", "deleting"} /\ o.ports \in Asked
               /\ o.ingress = svc[s].ingress /\ (o.finalizer <=> svc[s].finalizer)
            \/ o = Absent /\ svc[s].state = "present" /\ ~svc[s].finalizer
  <2>0. svc[s] \in Objects /\ Absent \in Objects
    BY Defaults, Zenon DEF IInv, TypeOK
  <2>1. CASE CreateService(s)
    <3>1. PICK P \in Asked, n \in 0..MaxChanges :
             svc' = [svc EXCEPT ![s] = [Absent EXCEPT !.state = "present", !.ports = P, !.created = n]]
      BY <2>1, Zenon DEF CreateService
    <3> DEFINE o == [Absent EXCEPT !.state = "present", !.ports = P, !.created = n]
    <3>2. o \in Objects /\ o.state = "present" /\ o.ports = P /\ o.ingress = 0
      BY <2>0, Zenon DEF Objects, Absent
    <3> QED BY <2>1, <3>1, <3>2, ZenonT(60) DEF CreateService
  <2>2. CASE EditService(s)
    <3>1. PICK P \in Asked : svc' = [svc EXCEPT ![s].ports = P]
      BY <2>2, Zenon DEF EditService
    <3> DEFINE o == [svc[s] EXCEPT !.ports = P]
    <3>2. /\ o \in Objects /\ o.state = "present" /\ o.ports = P /\ o.ingress = svc[s].ingress
          /\ (o.finalizer <=> svc[s].finalizer)
      BY <2>0, <2>2, Zenon DEF EditService, Objects
    <3>3. svc' = [svc EXCEPT ![s] = o]
      BY <3>1, Zenon
    <3> QED BY <2>2, <3>2, <3>3, Zenon DEF EditService
  <2>3. CASE DeleteService(s)
    <3>1. CASE svc[s].finalizer
      <4> DEFINE o == [svc[s] EXCEPT !.state = "deleting"]
      <4>1. /\ o \in Objects /\ o.state = "deleting" /\ o.ports = svc[s].ports /\ o.ingress = svc[s].ingress
            /\ (o.finalizer <=> svc[s].finalizer)
        BY <2>0, Zenon DEF Objects
      <4>2. svc[s].ports \in Asked
        BY <2>3, Zenon DEF DeleteService, IInv, ServiceInv
      <4>3. svc' = [svc EXCEPT ![s] = o]
        BY <2>3, <3>1, Zenon DEF DeleteService, IInv, TypeOK
      <4> QED BY <2>3, <4>1, <4>2, <4>3, Zenon DEF DeleteService
    <3>2. CASE ~svc[s].finalizer
      <4>1. svc' = [svc EXCEPT ![s] = Absent] /\ svc[s].state = "present" /\ Absent.ingress = 0
        BY <2>3, <3>2, Zenon DEF DeleteService, Absent, IInv, TypeOK
      <4> QED BY <2>0, <3>2, <4>1, ZenonT(60)
    <3> QED BY <3>1, <3>2, Zenon
  <2> QED BY <2>1, <2>2, <2>3, Zenon
<1>2. svc[s] \in Objects /\ svc[s].ingress \in Nat /\ o.state \in {"present", "deleting", "absent"} /\ svc'[s] = o
      /\ \A r \in Services : r # s => svc'[r] = svc[r]
  BY <1>1 DEF IInv, TypeOK, Objects, Addresses
<1>3. TypeOK'
  BY <1>0, <1>1, Zenon DEF IInv, TypeOK
<1>4. EnvoyInv'
  <2>1. \A r \in Services : svc'[r].ingress <= envoy.id
    <3>1. svc'[s].ingress \in {0, svc[s].ingress} /\ \A r \in Services : svc[r].ingress <= envoy.id
      BY <1>1, <1>2, Zenon DEF IInv, EnvoyInv
    <3> QED BY <1>2, <3>1, Numbers
  <2>2. /\ envoy.id + changes' <= MaxChanges + 1
        /\ ~envoy.runs => envoy.id + changes' <= MaxChanges
    BY <1>0, Numbers DEF IInv, EnvoyInv
  <2> QED BY <1>0, <2>1, <2>2, Zenon DEF IInv, EnvoyInv
<1>5. ASSUME NEW r \in Services PROVE ServiceInv(r)'
  <2>1. CASE r # s
    BY <1>0, <1>2, <2>1, Zenon DEF IInv, ServiceInv
  <2>2. CASE r = s
    <3>1. ServiceInv(s) /\ c \in queue' /\ svc'[s] = o
      BY <1>0, <1>2, Zenon DEF IInv
    <3>2. thread[c].pc # "idle" => IF thread[c].copy = Absent THEN svc[s].state = "deleting"
                                   ELSE svc[s].finalizer /\ svc[s].state # "absent" /\ seen[s] # Absent
      BY <3>1, Zenon DEF ServiceInv
    <3>3. Absent.state = "absent"
      BY Zenon DEF Absent
    <3>4. thread[c].pc # "idle" => /\ thread[c].copy # Absent
                                   /\ o.finalizer /\ o.state # "absent" /\ seen[s] # Absent
      BY <1>1, <3>2, Zenon
    <3>5. o.state = "present" /\ o.ingress # 0 => seen[s] # Absent
      BY <1>1, <3>1, <3>3, Zenon DEF ServiceInv
    <3>6. o.state # "absent" => o.ports \in Asked
      BY <1>1, <3>3, Zenon
    <3>7. seen[s] # Absent => seen[s].ports \in Asked
      BY <3>1, Zenon DEF ServiceInv
    <3> QED BY <1>0, <2>2, <3>1, <3>4, <3>5, <3>6, <3>7, Zenon DEF ServiceInv
  <2> QED BY <2>1, <2>2, Zenon
<1>6. ASSUME NEW d \in Calls PROVE CallInv(d)'
  BY <1>0, CallStays, Zenon
<1>7. FilesInv'
  <2>1. ASSUME NEW d PROVE Stays(d)
    <3>1. \A r \in Services, k \in Kinds : Calling(d, r, k)' <=> Calling(d, r, k) \/ <<r, k>> = c
      BY <1>0, Zenon DEF Calling, Kinds
    <3>2. o.state = "absent" => o.ingress = 0
      BY <1>1 DEF Absent
    <3>3. \A r \in Services : svc'[r].state = "absent" /\ svc'[r].ingress # 0 => svc[r].state = "absent" /\ svc[r].ingress # 0
      BY <1>2, <3>2, Zenon
    <3>4. Busy(d)' = Busy(d) \cup {s} /\ Awaited(d) \subseteq Awaited(d)'
      BY <1>0, <3>1, Zenon DEF Busy, Awaited, Kinds
    <3> QED BY <1>0, <1>2, <3>3, <3>4, Zenon DEF Stays
  <2> QED BY <1>0, <2>1, FilesStay, ZenonT(60)
<1> QED BY <1>3, <1>4, <1>5, <1>6, <1>7, Zenon DEF IInv

\* When the nodes change every Service that was seen is queued.
LEMMA NodesChangeKeeps == ASSUME IInv, NodesChange PROVE IInv'
<1>0. /\ nodes' \in SUBSET Workers
      /\ queue' = queue \cup {<<s, "node">> : s \in {t \in Services : seen[t] # Absent}}
      /\ UNCHANGED <<svc, seen, thread, lock, faults, address, envoy, cds, lds, missed>>
      /\ changes' \in 0..MaxChanges /\ changes' <= changes
  BY Numbers, Zenon DEF NodesChange, Outside
<1>1. \A r \in Services : <<r, "service">> \in queue' <=> <<r, "service">> \in queue
  BY <1>0, Zenon
<1>3. TypeOK'
  BY <1>0 DEF IInv, TypeOK, Calls
<1>4. EnvoyInv'
  BY <1>0, Numbers DEF IInv, EnvoyInv
<1>5. ASSUME NEW r \in Services PROVE ServiceInv(r)'
  BY <1>0, <1>1, Zenon DEF IInv, ServiceInv
<1>6. ASSUME NEW d \in Calls PROVE CallInv(d)'
  BY <1>0, CallStays, Zenon
<1>7. FilesInv'
  <2>1. ASSUME NEW d PROVE Stays(d)
    <3>1. Busy(d)' = Busy(d) /\ Services \subseteq Awaited(d)' /\ Awaited(d) \subseteq Services
      BY <1>0, <1>1, Zenon DEF Busy, Awaited, Calling
    <3> QED BY <1>0, <3>1, Zenon DEF Stays
  <2> QED BY <1>0, <2>1, FilesStay, Zenon
<1> QED BY <1>3, <1>4, <1>5, <1>6, <1>7, Zenon DEF IInv

\* An envoy instance is deleted with its files, the Secret is removed, or another
\* instance is published under an address that nobody has used.
LEMMA EnvoyKeeps == ASSUME IInv, EnvoyDeleted \/ SecretRemoved \/ SecretPublished PROVE IInv'
<1>0. /\ UNCHANGED <<svc, seen, nodes, queue, thread, lock, faults>> /\ envoy \in [id: Addresses, runs: BOOLEAN]
      /\ missed' \subseteq Services
  BY Zenon DEF EnvoyDeleted, SecretRemoved, SecretPublished, Outside, IInv, TypeOK
<1>1. \/ /\ envoy.runs /\ changes' = changes - 1 /\ changes' \in 0..MaxChanges /\ UNCHANGED address
         /\ envoy' = [id |-> envoy.id, runs |-> FALSE] /\ cds' = NoFile /\ lds' = NoFile
      \/ ~envoy.runs /\ address' = 0 /\ UNCHANGED <<envoy, cds, lds, changes>>
      \/ /\ ~envoy.runs /\ envoy' = [id |-> envoy.id + 1, runs |-> TRUE] /\ address' = envoy.id + 1
         /\ UNCHANGED <<cds, lds, changes>>
  <2>1. CASE EnvoyDeleted
    <3>1. envoy' = [id |-> envoy.id, runs |-> FALSE]
      BY <1>0, <2>1, Zenon DEF EnvoyDeleted
    <3> QED BY <2>1, <3>1, Numbers, Zenon DEF EnvoyDeleted
  <2>2. CASE SecretRemoved \/ SecretPublished
    BY <2>2, Zenon DEF SecretRemoved, SecretPublished
  <2> QED BY <2>1, <2>2, Zenon
<1>2. EnvoyInv
  BY Zenon DEF IInv
<1>3. EnvoyInv'
  BY <1>0, <1>1, <1>2, Numbers DEF EnvoyInv
<1>4. TypeOK'
  <2>1. envoy'.id \in Addresses /\ address' \in Addresses
    BY <1>0, <1>1, <1>2, Numbers DEF EnvoyInv, Addresses
  <2>2. envoy' \in [id: Addresses, runs: BOOLEAN]
    <3>1. CASE envoy' = envoy
      BY <1>0, <3>1, Zenon
    <3>2. ASSUME NEW i, NEW b \in BOOLEAN, envoy' = [id |-> i, runs |-> b]
          PROVE  envoy' \in [id: Addresses, runs: BOOLEAN]
      <4>1. i \in Addresses
        BY <2>1, <3>2, Zenon
      <4> QED BY <3>2, <4>1, Zenon
    <3> QED BY <1>1, <3>1, <3>2, ZenonT(60)
  <2>3. changes' \in 0..MaxChanges
    BY <1>1, Zenon DEF IInv, TypeOK
  <2> QED BY <1>0, <1>1, <2>1, <2>2, <2>3, Defaults, Zenon DEF IInv, TypeOK
<1>5. ASSUME NEW r \in Services PROVE ServiceInv(r)'
  BY <1>0, Zenon DEF IInv, ServiceInv
<1>6. ASSUME NEW d \in Calls PROVE CallInv(d)'
  <2>1. Reachable(d)' => Reachable(d) /\ UNCHANGED cds
    BY <1>0, <1>1, <1>2, Numbers DEF Reachable, EnvoyInv
  <2> QED BY <1>0, <2>1, Zenon DEF IInv, CallInv
<1>7. FilesInv'
  <2>1. \A d \in Calls : ~Reachable(d)'
    BY <1>0, <1>1, <1>2, Numbers DEF Reachable, EnvoyInv
  <2>2. cds' = NoFile /\ lds' = NoFile
    BY <1>1, <1>2, Zenon DEF EnvoyInv
  <2>3. ASSUME envoy'.runs PROVE \A s \in Services : svc'[s].ingress # envoy'.id
    BY <1>0, <1>1, <1>2, <2>3, Numbers DEF EnvoyInv
  <2>4. ASSUME envoy'.runs PROVE TrueOf(NoFile, svc', envoy'.id, nodes', Busy(NoCall)', Awaited(NoCall)')
    BY <2>3, <2>4, Zenon DEF TrueOf, Shown, Of, NoFile
  <2>5. OneOwner(NoFile)
    BY Zenon DEF OneOwner, NoFile
  <2> QED BY <2>1, <2>2, <2>4, <2>5, Zenon DEF FilesInv, TrueNow, OneOwner
<1> QED BY <1>3, <1>4, <1>5, <1>6, <1>7, Zenon DEF IInv

-----------------------------------------------------------------------------
(* What sync renders.                                                      *)

\* The objects o of finitely many Services S that can be ordered by age.
Ordered(o, S) == IsFiniteSet(S) /\ S \in SUBSET Nat /\ \A s \in S : o[s].created \in Nat

\* What is exposed as documented gives no slot to two Services.
LEMMA DocumentedOneOwner ==
    ASSUME NEW F, NEW o, NEW S, NEW N, Ordered(o, S), AsDocumented(F, o, S, N)
    PROVE  \A f, g \in F : f.slot = g.slot => f = g
<1> SUFFICES ASSUME NEW f \in F, NEW g \in F, f.slot = g.slot PROVE f = g
  BY Zenon
<1>1. PICK s \in S : Exposed(F, o, s) /\ f \in Mine(o, s, N)
  BY DEF AsDocumented
<1>2. PICK t \in S : Exposed(F, o, t) /\ g \in Mine(o, t, N)
  BY DEF AsDocumented
<1>3. f.slot \in o[s].ports /\ g.slot \in o[t].ports
  BY <1>1, <1>2 DEF Mine
<1>4. ~Older(o, s, t) /\ ~Older(o, t, s)
  BY <1>1, <1>2, <1>3, Zenon DEF AsDocumented
<1>5. s = t
  BY <1>4 DEF Older, Ordered
<1> QED BY <1>1, <1>2, <1>5 DEF Mine

\* The listeners of a Service are at its ports.
LEMMA MineAtPorts ==
    ASSUME NEW o, NEW s, NEW N PROVE SlotsOf(Mine(o, s, N)) = o[s].ports /\ (o[s].ports # {} => Mine(o, s, N) # {})
<1>1. \A f \in Mine(o, s, N) : f.slot \in o[s].ports
  BY DEF Mine
<1>2. ASSUME NEW q \in o[s].ports PROVE \E f \in Mine(o, s, N) : f.slot = q
  <2>1. [owner |-> s, slot |-> q, backends |-> N] \in Mine(o, s, N)
    BY Zenon DEF Mine
  <2> QED BY <2>1, Zenon
<1>3. SlotsOf(Mine(o, s, N)) = o[s].ports
  BY <1>1, <1>2, Zenon DEF SlotsOf
<1> QED BY <1>2, <1>3, Zenon

\* The listeners of a Service, if Services are exposed as documented: all of its
\* own or none.
LEMMA DocumentedListeners ==
    ASSUME NEW F, NEW o, NEW S, NEW N, AsDocumented(F, o, S, N), \A s \in S : o[s].ports # {}
    PROVE  /\ \A f \in F : f.owner \in S /\ f.slot \in o[f.owner].ports /\ f.backends = N /\ f \in Mine(o, f.owner, N)
           /\ \A s \in S : Exposed(F, o, s) => {f \in F : f.owner = s} = Mine(o, s, N)
           /\ \A s \in S : ~Exposed(F, o, s) =>
                 /\ {f \in F : f.owner = s} = {}
                 /\ o[s].ports \cap (Unsupported \cup SlotsOf(F)) # {}
<1>1. ASSUME NEW f \in F
      PROVE  f.owner \in S /\ Exposed(F, o, f.owner) /\ f \in Mine(o, f.owner, N) /\ f.slot \in o[f.owner].ports
             /\ f.backends = N
  <2>1. PICK s \in S : Exposed(F, o, s) /\ f \in Mine(o, s, N)
    BY DEF AsDocumented
  <2>2. f.owner = s /\ f.slot \in o[s].ports /\ f.backends = N
    BY <2>1 DEF Mine
  <2> QED BY <2>1, <2>2, Zenon
<1>2. ASSUME NEW s \in S, Exposed(F, o, s) PROVE {f \in F : f.owner = s} = Mine(o, s, N)
  <2>1. Mine(o, s, N) \subseteq F
    BY <1>2, Zenon DEF AsDocumented
  <2>2. \A m \in Mine(o, s, N) : m.owner = s
    BY DEF Mine
  <2> QED BY <1>1, <2>1, <2>2, Zenon
<1>3. ASSUME NEW s \in S, ~Exposed(F, o, s)
      PROVE  {f \in F : f.owner = s} = {} /\ o[s].ports \cap (Unsupported \cup SlotsOf(F)) # {}
  <2>1. {f \in F : f.owner = s} = {}
    BY <1>1, <1>3, Zenon
  <2>2. CASE o[s].ports \cap Unsupported # {}
    BY <2>1, <2>2, Zenon
  <2>3. CASE o[s].ports \cap Unsupported = {}
    <3>1. PICK t \in S : Exposed(F, o, t) /\ o[t].ports \cap o[s].ports # {}
      BY <1>3, <2>3, Zenon DEF AsDocumented
    <3>2. o[t].ports \subseteq SlotsOf(F)
      BY <3>1, Zenon DEF Exposed, SlotsOf
    <3> QED BY <2>1, <3>1, <3>2, Zenon
  <2> QED BY <2>2, <2>3, Zenon
<1> QED BY <1>1, <1>2, <1>3, Zenon

\* The Services sync lists have ports and a creation time.
LEMMA ListedServices ==
    ASSUME IInv, NEW c \in Calls
    PROVE  /\ Listed(c) \subseteq Services
           /\ \A r \in Services : Given(c)[r] = (IF r = c[1] THEN thread[c].copy ELSE svc[r])
           /\ \A r \in Listed(c) : Given(c)[r].ports \in Asked /\ Given(c)[r].ports # {} /\ Given(c)[r].created \in Nat
<1> DEFINE o == Given(c)
           S == Listed(c)
           s == c[1]
<1>1. s \in Services
  BY Zenon DEF Calls
<1>2. S \subseteq Services /\ \A r \in Services : o[r] = (IF r = s THEN thread[c].copy ELSE svc[r])
  BY <1>1, Zenon DEF Listed, Given, IInv, TypeOK
<1>3. \A r \in S : o[r].ports \in Asked /\ o[r].created \in Nat
  <2>1. \A r \in Services : svc[r].created \in Nat /\ (svc[r].state = "present" => svc[r].ports \in Asked)
    <3> SUFFICES ASSUME NEW r \in Services
                 PROVE  svc[r].created \in Nat /\ (svc[r].state = "present" => svc[r].ports \in Asked)
      BY Zenon
    <3>1. svc[r].created \in 0..MaxChanges
      BY Zenon DEF IInv, TypeOK, Objects
    <3>2. ServiceInv(r)
      BY Zenon DEF IInv
    <3> QED BY <3>1, <3>2 DEF ServiceInv
  <2>2. thread[c].copy.created \in Nat /\ (thread[c].copy # Absent => thread[c].copy.ports \in Asked)
    BY BoundsAssumption DEF IInv, TypeOK, Objects, Threads, CallInv
  <2> QED BY <1>2, <2>1, <2>2, Zenon DEF Listed
<1> HIDE DEF o, S
<1>4. \A r \in S : o[r].ports # {}
  BY <1>3, AskedAssumption, Zenon
<1> QED BY <1>2, <1>3, <1>4, Zenon DEF o, S

\* The listeners it renders are the documented ones.
RendersDocumented(c) ==
    Ordered(Given(c), Listed(c)) /\ AsDocumented(Rendered(c).fronts, Given(c), Listed(c), nodes)

\* What sync renders while it holds the mutex is a file that is true but for the
\* calls that are still to come.
LEMMA RenderedTrue ==
    ASSUME IInv, NEW c \in Calls, thread[c].pc = "lock", RendersDocumented(c),
           c[1] \in Listed(c) => Exposed(Rendered(c).fronts, Given(c), c[1])
    PROVE  /\ Rendered(c) \in Files /\ OneOwner(Rendered(c))
           /\ SlotsOf(Of(Rendered(c), c[1])) = thread[c].copy.ports
           /\ c[2] = "service" => ~Rendered(c).old
           /\ TrueNow(Rendered(c), c)
<1> DEFINE F == Rendered(c)
           o == Given(c)
           S == Listed(c)
           s == c[1]
<1>1. s \in Services /\ c[2] \in {"service", "node"} /\ c = <<s, c[2]>>
  BY DEF Calls
<1>2. /\ S \subseteq Services
      /\ \A r \in Services : o[r] = (IF r = s THEN thread[c].copy ELSE svc[r])
      /\ \A r \in S : o[r].ports \in Asked /\ o[r].ports # {}
  BY ListedServices, Zenon
<1>3. F.old = (c[2] = "node" /\ (svc[s].state # "present" \/ svc[s].ports # thread[c].copy.ports))
      /\ F = [fronts |-> F.fronts, old |-> F.old]
  BY Zenon DEF Rendered
<1>4. Ordered(o, S) /\ AsDocumented(F.fronts, o, S, nodes)
  BY Zenon DEF RendersDocumented
<1> HIDE DEF F, o, S
<1>8. OneOwner(F)
  BY <1>4, DocumentedOneOwner, Zenon DEF OneOwner
<1>9. /\ \A f \in F.fronts : f.owner \in S /\ f.slot \in o[f.owner].ports /\ f.backends = nodes /\ f \in Mine(o, f.owner, nodes)
      /\ \A r \in S : Exposed(F.fronts, o, r) => Of(F, r) = Mine(o, r, nodes)
      /\ \A r \in S : ~Exposed(F.fronts, o, r) =>
            Of(F, r) = {} /\ o[r].ports \cap (Unsupported \cup SlotsOf(F.fronts)) # {}
  BY <1>2, <1>4, DocumentedListeners DEF Of
<1>10. \A r \in Services : SlotsOf(Mine(o, r, nodes)) = o[r].ports /\ (o[r].ports # {} => Mine(o, r, nodes) # {})
  BY MineAtPorts, Zenon
<1>11. \A r \in S : \/ Of(F, r) # {} /\ SlotsOf(Of(F, r)) = o[r].ports
                    \/ Of(F, r) = {} /\ o[r].ports \cap (Unsupported \cup SlotsOf(F.fronts)) # {}
  <2> SUFFICES ASSUME NEW r \in S, Exposed(F.fronts, o, r)
               PROVE  Of(F, r) # {} /\ SlotsOf(Of(F, r)) = o[r].ports
    BY <1>9, Zenon
  <2>1. Of(F, r) = Mine(o, r, nodes) /\ r \in Services /\ o[r].ports # {}
    BY <1>2, <1>9, Zenon
  <2> QED BY <1>10, <2>1, Zenon
<1>12. s \in S <=> thread[c].copy # Absent
  BY <1>1, Zenon DEF S, Listed
<1>13. s \in S => Of(F, s) # {} /\ SlotsOf(Of(F, s)) = thread[c].copy.ports
  BY <1>1, <1>2, <1>9, <1>10 DEF F, o, S
<1>14. s \notin S => Of(F, s) = {}
  BY <1>9, Zenon DEF Of
<1>15. F \in Files
  <2>1. \A f \in F.fronts : f \in Frontend
    <3> SUFFICES ASSUME NEW f \in F.fronts PROVE f \in Frontend
      BY Zenon
    <3>1. f.owner \in Services /\ f.slot \in Slots /\ nodes \in SUBSET Workers
      BY <1>2, <1>9, Zenon DEF Slots, IInv, TypeOK
    <3>2. PICK q : f = [owner |-> f.owner, slot |-> q, backends |-> nodes]
      BY <1>9, Zenon DEF Mine
    <3>3. f = [owner |-> f.owner, slot |-> f.slot, backends |-> nodes]
      BY <3>2
    <3> QED BY <3>1, <3>3 DEF Frontend
  <2>2. F.old \in BOOLEAN
    BY <1>3, Zenon
  <2> QED BY <1>3, <2>1, <2>2, Zenon DEF Files
<1>16. SlotsOf(Of(F, s)) = thread[c].copy.ports
  BY <1>12, <1>13, <1>14 DEF Absent, SlotsOf
<1>17. c[2] = "service" => ~F.old
  BY <1>3, Zenon
<1>18. ASSUME ~F.old, NEW r \in Services, svc[r].state = "absent" PROVE Of(F, r) = {}
  <2>1. r \notin S
    <3>1. CASE r # s
      BY <1>18, <3>1, Zenon DEF S, Listed
    <3>2. CASE r = s
      BY <1>1, <1>3, <1>12, <1>18, <3>2, Zenon DEF IInv, ServiceInv
    <3> QED BY <3>1, <3>2, Zenon
  <2> QED BY <1>9, <2>1 DEF Of
<1>19. ASSUME ~F.old, NEW r \in Services \ Busy(c), svc[r].state = "present" PROVE Shown(F, r, svc[r], envoy.id)
  <2>1. CASE r # s
    BY <1>2, <1>11, <1>19, <2>1, Zenon DEF S, Listed, Shown
  <2>2. CASE r = s
    <3>1. thread[c].copy # Absent /\ svc[r].ports = thread[c].copy.ports
      BY <1>1, <1>3, <1>19, <2>2, Zenon DEF IInv, ServiceInv, CallInv, Busy, Calling
    <3> QED BY <1>12, <1>13, <2>2, <3>1, Zenon DEF Shown
  <2> QED BY <2>1, <2>2, Zenon
<1>20. TrueNow(F, c)
  BY <1>9, <1>18, <1>19, Zenon DEF TrueNow, TrueOf
<1> QED BY <1>8, <1>15, <1>16, <1>17, <1>20, Zenon DEF F

-----------------------------------------------------------------------------
(* The steps of sync.                                                      *)

\* A call that ends leaves the queue, the other calls and what is awaited as they
\* are, but for itself.
LEMMA CallEnds ==
    ASSUME IInv, NEW c \in Calls, thread' = [thread EXCEPT ![c] = Idle], queue' \in {queue, queue \cup {c}}
    PROVE  /\ \A r \in Services, k \in Kinds : Calling(c, r, k) => Calling(NoCall, r, k)'
           /\ \A r \in Services, k \in Kinds :
                 <<r, k>> # c \/ c \in queue' => (Calling(NoCall, r, k)' <=> Calling(NoCall, r, k) \/ <<r, k>> = c)
           /\ \A d \in Calls : d # c => thread'[d] = thread[d]
           /\ thread'[c] = Idle
<1>1. NoCall \notin Calls
  BY ServicesAssumption, Zenon DEF NoCall, Calls
<1>2. \A d \in Calls : thread'[d] = IF d = c THEN Idle ELSE thread[d]
  BY Zenon DEF IInv, TypeOK
<1>3. \A r \in Services, k \in Kinds : <<r, k>> \in Calls /\ <<r, k>> # NoCall
  BY <1>1 DEF Calls, Kinds
<1> QED BY <1>2, <1>3, Zenon DEF Calling, Idle

\* A call that has ended has nothing.
LEMMA CallEnded == ASSUME NEW d \in Calls, thread'[d] = Idle PROVE CallInv(d)'
<1>1. /\ thread'[d].pc = "idle" /\ thread'[d].copy = Absent /\ thread'[d].file = NoFile
      /\ thread'[d].pc \notin Writing
  BY DEF Idle, Writing
<1>2. OneOwner(NoFile)
  BY Zenon DEF OneOwner, NoFile
<1> QED BY <1>1, <1>2, Zenon DEF CallInv, OneOwner

\* A call that fails is queued again or given up: the files it leaves, the old ones
\* or those it has rendered, are true but for the calls that are still to come.
LEMMA FailsKeeps ==
    ASSUME IInv, NEW c \in Calls, Fails(c), thread[c].pc # "idle",
           UNCHANGED <<objects, changes>>, faults' \in 0..MaxFaults, lock' = NoCall,
           \A d \in Calls : thread[d].pc \in Writing => d = c,
           cds' = cds \/ (cds' = thread[c].file /\ thread[c].pc \in Writing /\ Reachable(c)),
           lds' = lds \/ (lds' = thread[c].file /\ thread[c].pc \in Writing /\ Reachable(c))
    PROVE  IInv'
<1>0. /\ thread' = [thread EXCEPT ![c] = Idle]
      /\ queue' = queue \cup {c} \/ (queue' = queue /\ c[2] = "node" /\ c[1] \in missed')
      /\ missed \subseteq missed' /\ missed' \subseteq Services
      /\ UNCHANGED <<svc, seen, nodes, address, envoy, changes>>
  <2>1. missed \subseteq Services /\ c[1] \in Services
    BY Zenon DEF IInv, TypeOK, Calls
  <2> QED BY <2>1, Zenon DEF Fails, Retry, Go, objects
<1>1. /\ \A d \in Calls : thread'[d] = IF d = c THEN Idle ELSE thread[d]
      /\ \A d \in Calls : thread'[d].pc \notin Writing
  BY <1>0, Zenon DEF IInv, TypeOK, Idle, Writing
<1>2. TypeOK'
  <2>1. thread[c].file \in Files
    BY Zenon DEF IInv, TypeOK, Threads
  <2>2. thread' \in [Calls -> Threads] /\ queue' \subseteq Calls
    BY <1>0, Defaults, Zenon DEF IInv, TypeOK
  <2> QED BY <1>0, <1>1, <2>1, <2>2, Zenon DEF IInv, TypeOK, Writing
<1>3. EnvoyInv'
  <2>1. \A d \in Calls : thread'[d].lb <= envoy.id
    BY <1>1 DEF IInv, TypeOK, EnvoyInv, Idle, Addresses
  <2>2. ~envoy.runs => cds' = cds /\ lds' = lds
    BY Zenon DEF Reachable
  <2> QED BY <1>0, <2>1, <2>2, Zenon DEF IInv, EnvoyInv
<1>4. ASSUME NEW r \in Services PROVE ServiceInv(r)'
  BY <1>0, <1>1 DEF IInv, ServiceInv, Calls, Idle
<1>5. ASSUME NEW d \in Calls PROVE CallInv(d)'
  <2>1. CASE d = c
    BY <1>1, <2>1, CallEnded, Zenon
  <2>2. CASE d # c
    <3>1. CallInv(d) /\ thread'[d] = thread[d] /\ thread'[d].pc \notin Writing
      BY <1>1, <2>2, Zenon DEF IInv
    <3> QED BY <3>1, Zenon DEF CallInv, Writing, OneOwner
  <2> QED BY <2>1, <2>2, Zenon
<1>6. FilesInv'
  <2>1. /\ \A r \in Services, k \in Kinds : Calling(c, r, k) => Calling(NoCall, r, k)'
        /\ \A r \in Services, k \in Kinds :
              Calling(NoCall, r, k) => Calling(NoCall, r, k)' \/ (k = "node" /\ r \in missed')
    <3>1. \A r \in Services, k \in Kinds : <<r, k>> = c => c[1] = r /\ c[2] = k
      OBVIOUS
    <3>2. queue' \in {queue, queue \cup {c}} /\ (c \in queue' \/ (c[2] = "node" /\ c[1] \in missed'))
      BY <1>0, Zenon
    <3> QED BY <1>0, <3>1, <3>2, CallEnds, Zenon
  <2>2. /\ Busy(c) \subseteq Busy(NoCall)' /\ Awaited(c) \subseteq Awaited(NoCall)'
        /\ Busy(NoCall) \subseteq Busy(NoCall)' /\ Awaited(NoCall) \subseteq Awaited(NoCall)'
    BY <1>0, <2>1, Zenon DEF Busy, Awaited, Kinds
  <2>3. ASSUME NEW F \in Files, TrueNow(F, c) \/ TrueNow(F, NoCall)
        PROVE  TrueOf(F, svc, envoy.id, nodes, Busy(NoCall)', Awaited(NoCall)')
    BY <2>2, <2>3, TrueStays, Zenon DEF TrueNow
  <2>4. cds \in Files /\ lds \in Files /\ thread[c].file \in Files
    BY Zenon DEF IInv, TypeOK, Threads
  <2>5. /\ OneOwner(cds) /\ OneOwner(lds) /\ OneOwner(thread[c].file)
        /\ envoy.runs => TrueNow(cds, NoCall) /\ TrueNow(lds, NoCall)
        /\ thread[c].pc \in Writing /\ Reachable(c) => TrueNow(thread[c].file, c)
    BY Zenon DEF IInv, FilesInv, CallInv
  <2>6. OneOwner(cds)' /\ OneOwner(lds)'
    BY <2>5, Zenon DEF OneOwner
  <2>7. ASSUME envoy.runs
        PROVE  /\ TrueOf(cds', svc, envoy.id, nodes, Busy(NoCall)', Awaited(NoCall)')
               /\ TrueOf(lds', svc, envoy.id, nodes, Busy(NoCall)', Awaited(NoCall)')
    BY <2>3, <2>4, <2>5, <2>7, Zenon
  <2> QED BY <1>0, <1>1, <2>6, <2>7, Zenon DEF FilesInv, TrueNow
<1> QED BY <1>2, <1>3, <1>4, <1>5, <1>6, Zenon DEF IInv

\* sync takes the mutex and renders, or fails.
LEMMA SyncListsKeeps == ASSUME IInv, NEW c \in Calls, SyncLists(c), RendersDocumented(c) PROVE IInv'
<1> DEFINE F == Rendered(c)
           t == [thread[c] EXCEPT !.pc = "clusters", !.file = F]
<1>1. lock = NoCall /\ thread[c].pc = "lock" /\ UNCHANGED <<objects, cds, lds, changes>> /\ faults' \in 0..MaxFaults
  BY BoundsAssumption DEF SyncLists, Fault, NoFault, IInv, TypeOK
<1>2. \A d \in Calls : thread[d].pc \notin Writing
  BY <1>1, ServicesAssumption, Zenon DEF IInv, TypeOK, Writing, NoCall, Calls
<1>3. CASE Fails(c) /\ UNCHANGED lock
  BY <1>1, <1>2, <1>3, FailsKeeps, Zenon
<1>4. CASE /\ c[1] \in Listed(c) => Exposed(F.fronts, Given(c), c[1])
           /\ Go(c, t) /\ lock' = c /\ UNCHANGED <<queue, missed>>
  <2>1. /\ F \in Files /\ OneOwner(F) /\ SlotsOf(Of(F, c[1])) = thread[c].copy.ports
        /\ c[2] = "service" => ~F.old
        /\ TrueNow(F, c)
    BY <1>1, <1>4, RenderedTrue, Zenon
  <2>2. t \in Threads /\ t.pc = "clusters" /\ t.file = F /\ t.copy = thread[c].copy /\ t.lb = thread[c].lb
    <3>1. thread[c] \in Threads
      BY Zenon DEF IInv, TypeOK
    <3> QED BY <2>1, <3>1, Zenon DEF Threads
  <2> HIDE DEF F, t
  <2>3. /\ \A d \in Calls : thread'[d] = IF d = c THEN t ELSE thread[d]
        /\ UNCHANGED <<svc, seen, nodes, address, envoy, cds, lds, queue, missed, changes>>
        /\ thread' = [thread EXCEPT ![c] = t]
    BY <1>1, <1>4, Zenon DEF Go, objects, IInv, TypeOK
  <2>4. TypeOK'
    <3>1. thread' \in [Calls -> Threads]
      BY <2>2, <2>3, Zenon DEF IInv, TypeOK
    <3>2. \A d \in Calls : thread'[d].pc \in {"clusters", "listeners"} => lock' = d
      BY <1>2, <1>4, <2>3, Zenon DEF Writing
    <3> QED BY <1>1, <1>4, <2>3, <3>1, <3>2, Zenon DEF IInv, TypeOK
  <2>5. EnvoyInv'
    <3>1. \A d \in Calls : thread'[d].lb = thread[d].lb
      BY <2>2, <2>3, Zenon
    <3> QED BY <2>3, <3>1, Zenon DEF IInv, EnvoyInv
  <2>6. \A d \in Calls : thread'[d].copy = thread[d].copy /\ (thread'[d].pc = "idle" <=> thread[d].pc = "idle")
    BY <1>1, <2>2, <2>3, Zenon
  <2>7. ASSUME NEW r \in Services PROVE ServiceInv(r)'
    <3>1. <<r, "service">> \in Calls
      BY Zenon DEF Calls
    <3> QED BY <2>3, <2>6, <3>1 DEF IInv, ServiceInv
  <2>8. ASSUME NEW d \in Calls PROVE CallInv(d)'
    <3>1. CASE d = c
      <4>1. thread'[d] = t /\ CallInv(d) /\ thread[d].pc = "lock"
        BY <1>1, <2>3, <3>1, Zenon DEF IInv
      <4> QED BY <2>1, <2>2, <3>1, <4>1, Zenon DEF CallInv, OneOwner, Of, Writing
    <3>2. CASE d # c
      BY <2>3, <3>2, CallStays, Zenon
    <3> QED BY <3>1, <3>2, Zenon
  <2>9. \A d, r, k : <<r, k>> \in Calls => (Calling(d, r, k)' <=> Calling(d, r, k))
    BY <2>3, <2>6, Zenon DEF Calling
  <2>10. \A d : Busy(d)' = Busy(d) /\ Awaited(d)' = Awaited(d)
    BY <2>3, <2>9, Zenon DEF Busy, Awaited, Calls
  <2>11. FilesInv'
    <3>1. \A G, d : TrueOf(G, svc', envoy'.id, nodes', Busy(d)', Awaited(d)') <=> TrueNow(G, d)
      BY <2>3, <2>10, Zenon DEF TrueNow
    <3>2. OneOwner(cds)' /\ OneOwner(lds)' /\ (envoy'.runs => TrueNow(cds, NoCall)' /\ TrueNow(lds, NoCall)')
      BY <2>3, <3>1, Zenon DEF IInv, FilesInv, OneOwner, TrueNow
    <3>3. ASSUME NEW d \in Calls, thread'[d].pc \in Writing PROVE TrueNow(thread[d].file, d)'
      <4>1. d = c /\ thread'[d].file = F
        BY <1>2, <2>2, <2>3, <3>3, Zenon
      <4> QED BY <2>1, <3>1, <4>1, Zenon DEF TrueNow
    <3> QED BY <3>2, <3>3, Zenon DEF FilesInv
  <2> QED BY <2>4, <2>5, <2>7, <2>8, <2>11, Zenon DEF IInv
<1> QED BY <1>3, <1>4, Zenon DEF SyncLists

\* The clusters are written, or the call fails.
LEMMA WriteClustersKeeps == ASSUME IInv, NEW c \in Calls, WriteClusters(c) PROVE IInv'
<1> DEFINE t == [thread[c] EXCEPT !.pc = "listeners"]
<1>1. thread[c].pc = "clusters" /\ lock = c /\ UNCHANGED <<objects, lds, changes>> /\ faults' \in 0..MaxFaults
  BY BoundsAssumption DEF WriteClusters, Fault, NoFault, IInv, TypeOK
<1>2. thread[c].pc \in Writing /\ \A d \in Calls : thread[d].pc \in Writing => d = c
  BY <1>1, Zenon DEF IInv, TypeOK, Writing
<1>3. CASE cds' \in {cds} \cup (IF Reachable(c) THEN {thread[c].file} ELSE {}) /\ Fails(c) /\ lock' = NoCall
  <2>1. cds' = cds \/ (cds' = thread[c].file /\ Reachable(c))
    BY <1>3, Zenon
  <2> QED BY <1>1, <1>2, <1>3, <2>1, FailsKeeps, Zenon
<1>4. CASE Reachable(c) /\ cds' = thread[c].file /\ Go(c, t) /\ UNCHANGED <<queue, lock, missed>>
  <2>1. /\ t \in Threads /\ t.pc = "listeners" /\ t.file = thread[c].file /\ t.copy = thread[c].copy
        /\ t.lb = thread[c].lb /\ thread[c].file \in Files
    <3>1. thread[c] \in Threads
      BY Zenon DEF IInv, TypeOK
    <3> QED BY <3>1, Zenon DEF Threads
  <2> HIDE DEF t
  <2>2. /\ \A d \in Calls : thread'[d] = IF d = c THEN t ELSE thread[d]
        /\ UNCHANGED <<svc, seen, nodes, address, envoy, lds, queue, lock, missed, changes>>
        /\ thread' = [thread EXCEPT ![c] = t]
    BY <1>1, <1>4, Zenon DEF Go, objects, IInv, TypeOK
  <2>3. \A d \in Calls : /\ thread'[d].copy = thread[d].copy /\ thread'[d].lb = thread[d].lb
                         /\ thread'[d].file = thread[d].file
                         /\ thread'[d].pc = "idle" <=> thread[d].pc = "idle"
                         /\ thread'[d].pc \in Writing => d = c
    BY <1>1, <1>2, <2>1, <2>2, Zenon
  <2>4. TypeOK'
    <3>1. thread' \in [Calls -> Threads]
      BY <2>1, <2>2, Zenon DEF IInv, TypeOK
    <3>2. \A d \in Calls : thread'[d].pc \in {"clusters", "listeners"} => lock' = d
      BY <1>1, <2>2, <2>3, Zenon DEF Writing
    <3> QED BY <1>1, <1>4, <2>1, <2>2, <3>1, <3>2, Zenon DEF IInv, TypeOK
  <2>5. EnvoyInv'
    BY <1>4, <2>2, <2>3, Zenon DEF IInv, EnvoyInv, Reachable
  <2>6. ASSUME NEW r \in Services PROVE ServiceInv(r)'
    <3>1. <<r, "service">> \in Calls
      BY Zenon DEF Calls
    <3> QED BY <2>2, <2>3, <3>1 DEF IInv, ServiceInv
  <2>7. ASSUME NEW d \in Calls PROVE CallInv(d)'
    <3>1. CallInv(d)
      BY Zenon DEF IInv
    <3>2. CASE d = c
      <4>1. thread'[d].pc = "listeners" /\ thread[d].pc \in Writing /\ cds' = thread'[d].file
        BY <1>2, <1>4, <2>1, <2>2, <3>2, Zenon
      <4> QED BY <2>3, <3>1, <4>1, Zenon DEF CallInv, OneOwner, Of
    <3>3. CASE d # c
      <4>1. thread'[d] = thread[d] /\ thread'[d].pc \notin Writing
        BY <2>2, <2>3, <3>3, Zenon
      <4> QED BY <3>1, <4>1, Zenon DEF CallInv, OneOwner, Writing
    <3> QED BY <3>2, <3>3, Zenon
  <2>8. \A d, r, k : <<r, k>> \in Calls => (Calling(d, r, k)' <=> Calling(d, r, k))
    BY <2>2, <2>3, Zenon DEF Calling
  <2>9. \A d : Busy(d)' = Busy(d) /\ Awaited(d)' = Awaited(d)
    BY <2>2, <2>8, Zenon DEF Busy, Awaited, Calls
  <2>10. \A G, d : TrueOf(G, svc', envoy'.id, nodes', Busy(d)', Awaited(d)') <=> TrueNow(G, d)
    BY <2>2, <2>9, Zenon DEF TrueNow
  <2>11. OneOwner(thread[c].file) /\ TrueNow(thread[c].file, c)
    BY <1>2, <1>4, Zenon DEF IInv, FilesInv, CallInv
  <2>12. TrueNow(thread[c].file, NoCall)
    <3>1. \A r, k : Calling(c, r, k) /\ <<r, k>> # NoCall => Calling(NoCall, r, k)
      BY Zenon DEF Calling
    <3>2. \A r \in Services, k \in Kinds : <<r, k>> # NoCall
      BY ServicesAssumption, Zenon DEF NoCall
    <3>3. Busy(c) \subseteq Busy(NoCall) /\ Awaited(c) \subseteq Awaited(NoCall)
      BY <3>1, <3>2, Zenon DEF Busy, Awaited, Kinds
    <3> QED BY <2>1, <2>11, <3>3, TrueStays, ZenonT(30) DEF TrueNow
  <2>13. FilesInv'
    <3>1. OneOwner(cds)' /\ OneOwner(lds)'
      BY <1>4, <2>2, <2>11, ZenonT(30) DEF IInv, FilesInv, OneOwner
    <3>2. envoy'.runs => TrueNow(cds, NoCall)' /\ TrueNow(lds, NoCall)'
      BY <1>4, <2>2, <2>10, <2>12, Zenon DEF IInv, FilesInv, TrueNow
    <3>3. ASSUME NEW d \in Calls, thread'[d].pc \in Writing PROVE TrueNow(thread[d].file, d)'
      BY <2>3, <2>10, <2>11, <3>3, ZenonT(30) DEF TrueNow
    <3> QED BY <3>1, <3>2, <3>3, Zenon DEF FilesInv
  <2> QED BY <2>4, <2>5, <2>6, <2>7, <2>13, Zenon DEF IInv
<1> QED BY <1>3, <1>4, Zenon DEF WriteClusters

\* A Service that is gone asks for no port.
LEMMA AbsentHasNoPorts == Absent.ports = {}
BY Zenon DEF Absent

\* The listeners are written and the call returns: both files say what it has
\* rendered, and that is true of the Service as the service controller leaves it.
LEMMA SucceedsKeeps ==
    ASSUME IInv, NEW c \in Calls, thread[c].pc = "listeners", Reachable(c), lds' = thread[c].file, Succeeds(c),
           lock' = NoCall, UNCHANGED <<nodes, address, envoy, cds, queue, missed, changes, faults>>
    PROVE  IInv'
<1> DEFINE s == c[1]
           T == thread[c]
           F == thread[c].file
<1>1. s \in Services /\ c[2] \in Kinds /\ c = <<s, c[2]>> /\ c \in Calls
  BY DEF Calls, Kinds
<1>2. lock = c /\ T.pc \in Writing /\ \A d \in Calls : thread[d].pc \in Writing => d = c
  BY Zenon DEF IInv, TypeOK, Writing
<1>3. /\ F \in Files /\ T.copy \in Objects /\ T.lb = envoy.id /\ envoy.runs
      /\ cds' = F /\ lds' = F /\ OneOwner(F) /\ TrueNow(F, c)
      /\ SlotsOf(Of(F, s)) = T.copy.ports
      /\ T.copy # Absent => T.copy.ports \in Asked
  BY <1>2, Zenon DEF IInv, TypeOK, Threads, CallInv, FilesInv, Reachable
<1>4. /\ thread' = [thread EXCEPT ![c] = Idle] /\ thread'[c] = Idle
      /\ \A d \in Calls : d # c => thread'[d] = thread[d]
      /\ \A r \in Services, k \in Kinds : Calling(c, r, k) => Calling(NoCall, r, k)'
  BY CallEnds, Zenon DEF Succeeds, Go
<1>5. \A d \in Calls : thread'[d].pc \notin Writing
  BY <1>2, <1>4 DEF Idle, Writing
<1>6. \/ c[2] = "node" /\ svc' = svc /\ seen' = seen
      \/ /\ c[2] = "service" /\ T.copy = Absent
         /\ \E o \in Objects : /\ o.state = "absent" /\ o.ingress = svc[s].ingress
                             /\ svc' = [svc EXCEPT ![s] = o] /\ seen' = [seen EXCEPT ![s] = Absent]
      \/ /\ c[2] = "service" /\ T.copy # Absent /\ seen' = seen
         /\ \E o \in Objects : /\ o.state = svc[s].state /\ o.ports = svc[s].ports
                             /\ o.finalizer = svc[s].finalizer /\ o.ingress \in {svc[s].ingress, envoy.id}
                             /\ svc' = [svc EXCEPT ![s] = o]
  <2>1. svc[s] \in Objects /\ envoy.id \in Addresses /\ svc[s].ingress \in Addresses
    BY <1>1, Zenon DEF IInv, TypeOK, Objects
  <2>2. CASE c[2] = "node"
    BY <2>2, Zenon DEF Succeeds
  <2>3. CASE c[2] = "service" /\ T.copy = Absent
    <3> DEFINE o == [Absent EXCEPT !.ingress = svc[s].ingress]
    <3>1. o \in Objects /\ o.state = "absent" /\ o.ingress = svc[s].ingress
      BY <2>1, Defaults, Zenon DEF Objects, Absent
    <3>2. svc' = [svc EXCEPT ![s] = o] /\ seen' = [seen EXCEPT ![s] = Absent]
      BY <2>3, Zenon DEF Succeeds, Released
    <3> HIDE DEF o
    <3> QED BY <2>3, <3>1, <3>2, Zenon
  <2>4. CASE c[2] = "service" /\ T.copy # Absent
    <3> DEFINE i == IF svc[s].ingress # T.copy.ingress THEN svc[s].ingress ELSE T.lb
               o == [svc[s] EXCEPT !.ingress = i]
    <3>1. svc' = [svc EXCEPT ![s] = o] /\ seen' = seen
      BY <2>4, Zenon DEF Succeeds
    <3>2. i \in {svc[s].ingress, envoy.id}
      BY <1>3, Zenon
    <3> HIDE DEF i
    <3>3. /\ o \in Objects /\ o.state = svc[s].state /\ o.ports = svc[s].ports
          /\ o.finalizer = svc[s].finalizer /\ o.ingress = i
      BY <2>1, <3>2, Zenon DEF Objects
    <3> HIDE DEF o
    <3> QED BY <2>4, <3>1, <3>2, <3>3, Zenon
  <2> QED BY <1>1, <2>2, <2>3, <2>4, Zenon DEF Kinds
<1>7. svc' \in [Services -> Objects] /\ seen' \in [Services -> Objects]
  BY <1>1, <1>6, Defaults DEF IInv, TypeOK
<1>8. /\ \A r \in Services : r # s => svc'[r] = svc[r] /\ seen'[r] = seen[r]
      /\ c[2] = "node" => svc'[s] = svc[s] /\ seen'[s] = seen[s]
      /\ c[2] = "service" /\ T.copy = Absent =>
            /\ svc'[s].state = "absent" /\ svc'[s].ingress = svc[s].ingress /\ seen'[s] = Absent
      /\ c[2] = "service" /\ T.copy # Absent =>
            /\ svc'[s].state = svc[s].state /\ svc'[s].ports = svc[s].ports /\ svc'[s].finalizer = svc[s].finalizer
            /\ svc'[s].ingress \in {svc[s].ingress, envoy.id} /\ seen'[s] = seen[s]
  BY <1>1, <1>6, Zenon DEF IInv, TypeOK
<1>9. TypeOK'
  <2>1. thread' \in [Calls -> Threads]
    BY <1>4, Defaults, Zenon DEF IInv, TypeOK
  <2> QED BY <1>3, <1>5, <1>7, <2>1, Zenon DEF IInv, TypeOK, Writing
<1>10. EnvoyInv'
  <2>0. envoy.id \in Nat /\ \A r \in Services : svc[r].ingress <= envoy.id
    BY Numbers, Zenon DEF IInv, EnvoyInv
  <2>1. ASSUME NEW d \in Calls PROVE thread'[d].lb <= envoy.id
    <3>1. CASE d # c
      BY <1>4, <3>1, Zenon DEF IInv, EnvoyInv
    <3>2. CASE d = c
      <4>1. Idle.lb = 0
        BY Zenon DEF Idle
      <4>2. 0 <= envoy.id
        BY <2>0
      <4> QED BY <1>4, <3>2, <4>1, <4>2, Zenon
    <3> QED BY <3>1, <3>2, Zenon
  <2>2. ASSUME NEW r \in Services PROVE svc'[r].ingress <= envoy.id
    <3>1. svc[r].ingress <= envoy.id /\ envoy.id <= envoy.id
      BY <2>0
    <3>2. svc'[r].ingress \in {svc[r].ingress, envoy.id}
      BY <1>1, <1>8, Zenon DEF Kinds
    <3> QED BY <3>1, <3>2, Zenon
  <2> QED BY <1>3, <2>1, <2>2, Zenon DEF IInv, EnvoyInv
<1>11. ASSUME NEW r \in Services PROVE ServiceInv(r)'
  <2>1. ServiceInv(r) /\ <<r, "service">> \in Calls
    BY Zenon DEF IInv, Calls
  <2>2. CASE <<r, "service">> # c
    <3>1. thread'[<<r, "service">>] = thread[<<r, "service">>] /\ svc'[r] = svc[r] /\ seen'[r] = seen[r]
      BY <1>1, <1>4, <1>8, <2>1, <2>2, Zenon DEF Kinds
    <3> QED BY <2>1, <3>1, Zenon DEF ServiceInv
  <2>3. CASE <<r, "service">> = c
    <3>1. r = s /\ c[2] = "service" /\ thread'[<<r, "service">>].pc = "idle" /\ T.pc # "idle"
      BY <1>4, <2>3 DEF Idle
    <3>2. CASE T.copy = Absent
      BY <1>8, <3>1, <3>2, Zenon DEF ServiceInv
    <3>3. CASE T.copy # Absent
      <4>1. svc[r].state # "absent" /\ seen[r] # Absent /\ (svc[r].state = "deleting" => c \in queue)
            /\ svc[r].ports \in Asked /\ seen[r].ports \in Asked
        BY <2>1, <2>3, <3>1, <3>3, Zenon DEF ServiceInv
      <4> QED BY <1>8, <2>3, <3>1, <3>3, <4>1, Zenon DEF ServiceInv
    <3> QED BY <3>2, <3>3, Zenon
  <2> QED BY <2>2, <2>3, Zenon
<1>12. ASSUME NEW d \in Calls PROVE CallInv(d)'
  BY <1>4, CallEnded, CallStays, Zenon
<1>13. TrueOf(F, svc', envoy.id, nodes, Busy(NoCall)', Awaited(NoCall)')
  <2> SUFFICES ASSUME ~F.old PROVE TrueOf(F, svc', envoy.id, nodes, Busy(NoCall)', Awaited(NoCall)')
    BY Zenon DEF TrueOf
  <2>1. /\ \A r \in Services : svc[r].state = "absent" /\ svc[r].ingress # 0 => Of(F, r) = {}
        /\ \A r \in Services \ Busy(c) : svc[r].state = "present" => Shown(F, r, svc[r], envoy.id)
        /\ \A f \in F.fronts : f.backends = nodes \/ f.owner \in Awaited(c)
    BY <1>3, Zenon DEF TrueNow, TrueOf
  <2>2. Busy(c) \subseteq Busy(NoCall)' /\ Awaited(c) \subseteq Awaited(NoCall)'
    BY <1>1, <1>4, <1>8, Zenon DEF Busy, Awaited, Kinds
  <2>3. ASSUME NEW r \in Services, svc'[r].state = "absent", svc'[r].ingress # 0 PROVE Of(F, r) = {}
    <3>1. CASE r = s /\ c[2] = "service" /\ T.copy = Absent
      <4>1. SlotsOf(Of(F, r)) = {}
        BY <1>3, <3>1, AbsentHasNoPorts, Zenon
      <4> QED BY <4>1, Zenon DEF SlotsOf
    <3>2. CASE r = s /\ c[2] = "service" /\ T.copy # Absent
      <4>1. svc[s].state # "absent"
        BY <1>1, <3>2, Zenon DEF IInv, ServiceInv
      <4> QED BY <1>8, <2>3, <3>2, <4>1, Zenon
    <3>3. CASE ~(r = s /\ c[2] = "service")
      BY <1>1, <1>8, <2>1, <2>3, <3>3, SMTT(30) DEF Kinds
    <3> QED BY <3>1, <3>2, <3>3, Zenon
  <2>4. ASSUME NEW r \in Services \ Busy(NoCall)', svc'[r].state = "present" PROVE Shown(F, r, svc'[r], envoy.id)
    <3>1. CASE r = s /\ c[2] = "service"
      <4>1. T.copy # Absent
        BY <1>8, <2>4, <3>1, Zenon
      <4>2. c \notin queue
        BY <1>1, <2>4, <3>1, Zenon DEF Busy, Calling, NoCall
      <4>5. svc[s].ports = T.copy.ports
        BY <1>1, <3>1, <4>1, <4>2, Zenon DEF IInv, ServiceInv
      <4>3. SlotsOf(Of(F, s)) = svc'[s].ports /\ svc'[s].ports # {}
        BY <1>3, <1>8, <3>1, <4>1, <4>5, AskedAssumption, ZenonT(60)
      <4>4. Of(F, s) # {}
        BY <4>3, Zenon DEF SlotsOf
      <4> QED BY <3>1, <4>3, <4>4, Zenon DEF Shown
    <3>2. CASE ~(r = s /\ c[2] = "service")
      <4>1. svc'[r] = svc[r] /\ r \notin Busy(c)
        BY <1>1, <1>8, <2>2, <2>4, <3>2, Zenon DEF Kinds
      <4> QED BY <2>1, <2>4, <4>1, ZenonT(30)
    <3> QED BY <3>1, <3>2, Zenon
  <2> QED BY <2>1, <2>2, <2>3, <2>4, Zenon DEF TrueOf
<1>14. FilesInv'
  BY <1>3, <1>5, <1>13, ZenonT(60) DEF FilesInv, TrueNow, OneOwner
<1> QED BY <1>9, <1>10, <1>11, <1>12, <1>14, Zenon DEF IInv

\* The listeners are written, or the call fails.
LEMMA WriteListenersKeeps == ASSUME IInv, NEW c \in Calls, WriteListeners(c) PROVE IInv'
<1>1. thread[c].pc = "listeners" /\ lock' = NoCall /\ UNCHANGED <<nodes, address, envoy, cds, changes>>
      /\ faults' \in 0..MaxFaults
  BY BoundsAssumption DEF WriteListeners, Fault, NoFault, IInv, TypeOK
<1>2. thread[c].pc \in Writing /\ \A d \in Calls : thread[d].pc \in Writing => d = c
  BY <1>1, Zenon DEF IInv, TypeOK, Writing
<1>3. CASE NoFault /\ Reachable(c) /\ lds' = thread[c].file /\ Succeeds(c) /\ UNCHANGED <<queue, missed>>
  BY <1>1, <1>3, SucceedsKeeps, Zenon DEF NoFault
<1>4. CASE /\ lds' \in {lds} \cup (IF Reachable(c) THEN {thread[c].file} ELSE {})
           /\ Fails(c) /\ UNCHANGED <<svc, seen>>
  <2>1. lds' = lds \/ (lds' = thread[c].file /\ Reachable(c))
    BY <1>4, Zenon
  <2> QED BY <1>1, <1>2, <1>4, <2>1, FailsKeeps, Zenon DEF objects
<1> QED BY <1>3, <1>4, Zenon DEF WriteListeners

=============================================================================
