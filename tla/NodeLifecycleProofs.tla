------------------------- MODULE NodeLifecycleProofs -------------------------
(***************************************************************************)
(* What holds of NodeLifecycle for every set of instances and every        *)
(* bootstrap data: an instance keeps the Node it has joined, and no script *)
(* that Verda would refuse is made of a cloud-config.                      *)
(***************************************************************************)
EXTENDS NodeLifecycle, TLAPS

-----------------------------------------------------------------------------
(* The script.                                                             *)

\* fit: what it returns fits, for every length.
LEMMA FitFits ==
    ASSUME NEW len \in Nat, NEW gz \in Nat, fit(len, gz) # -1
    PROVE  fit(len, gz) <= MaxScriptSize
BY DEF fit, MaxScriptSize, compressThreshold

\* The result of ToStartupScript without its body.
LEMMA ScriptOutcome ==
    ASSUME NEW d \in Data
    PROVE  /\ ToStartupScript(d).ok \in BOOLEAN
           /\ ToStartupScript(d).ok /\ ~d.shell => ToStartupScript(d).len = fit(d.len, d.gz) /\ fit(d.len, d.gz) # -1
BY DEF ToStartupScript, Refused

\* The attempt is none, or its script was made of some bootstrap data.
AttemptConverted ==
    attempt # NoAttempt => attempt.data \in Data /\ attempt.script = ToStartupScript(attempt.data)

\* Without an attempt there is no script.
LEMMA NoAttemptRefused == NoAttempt.script.ok = FALSE
BY DEF NoAttempt, Refused

\* Only a script that fits is ever sent.
LEMMA ConvertedFits == AttemptConverted => ScriptFits
<1> SUFFICES ASSUME AttemptConverted, attempt.script.ok, ~attempt.data.shell
             PROVE  attempt.script.len <= MaxScriptSize
  BY DEF ScriptFits
<1>1. attempt # NoAttempt
  BY NoAttemptRefused
<1>2. attempt.data \in Data /\ attempt.script = ToStartupScript(attempt.data)
  BY <1>1 DEF AttemptConverted
<1> DEFINE d == attempt.data
<1>3. ToStartupScript(d).len = fit(d.len, d.gz) /\ fit(d.len, d.gz) # -1
  BY <1>2, ScriptOutcome
<1>4. d.len \in Nat /\ d.gz \in Nat
  BY <1>2, DataAssumption
<1>5. QED
  BY <1>2, <1>3, <1>4, FitFits

-----------------------------------------------------------------------------
(* The instances and the Node.                                             *)

\* One instance at a time, as the VerdaMachine promises.
OneLive == live = {} \/ \E i \in InstanceIDs : live = {i}

IInv == TypeOK /\ OneLive /\ JoinedNodeKept /\ AttemptConverted

\* InstanceExists of the Provider never denies an instance that lives: among the
\* instances of a hostname FindInstanceByHostname prefers one that is not
\* discontinued.
LEMMA LiveExists ==
    ASSUME NEW i \in live
    PROVE  FALSE \notin InstanceExists
<1> DEFINE m == [id |-> i, status |-> IF offline THEN "offline" ELSE "running"]
<1> DEFINE current == {x \in Matches : x.status # "discontinued"}
<1>1. m \in Matches /\ m.status # "discontinued"
  BY DEF Matches
<1>2. m \in current
  BY <1>1
<1>3. FindInstanceByHostname = current
  BY <1>2 DEF FindInstanceByHostname
<1>4. \A x \in FindInstanceByHostname : x.status \in {"offline", "running"}
  <2>1. \A x \in Matches : x.status \in {"offline", "running", "discontinued"}
    BY DEF Matches
  <2>2. QED
    BY <1>3, <2>1
<1>5. FindInstanceByHostname # {}
  BY <1>2, <1>3
<1> HIDE DEF m, current
<1>6. QED
  BY <1>4, <1>5 DEF InstanceExists

\* InstanceMetadata has the address of an instance of the hostname.
LEMMA MetadataTypes ==
    ASSUME TypeOK, NEW m \in InstanceMetadata
    PROVE  m.providerID = "verda" /\ m.address \in InstanceIDs \cup {"twin", None}
<1>1. \A x \in Matches : x.id \in InstanceIDs \cup {"twin"}
  <2>1. live \subseteq InstanceIDs /\ listed \subseteq InstanceIDs
    BY DEF TypeOK
  <2>2. TAKE x \in Matches
  <2>3. \/ \E i \in live : x = [id |-> i, status |-> IF offline THEN "offline" ELSE "running"]
        \/ \E i \in listed : x = [id |-> i, status |-> "discontinued"]
        \/ x = [id |-> "twin", status |-> "running"]
    BY DEF Matches
  <2>4. QED
    BY <2>1, <2>3
<1>2. FindInstanceByHostname \subseteq Matches
  BY DEF FindInstanceByHostname
<1>3. PICK x \in FindInstanceByHostname : m = [providerID |-> "verda", address |-> IP(x)]
  BY DEF InstanceMetadata
<1>4. IP(x) \in {x.id, None}
  BY DEF IP
<1>5. QED
  BY <1>1, <1>2, <1>3, <1>4

\* The steps that leave the Node and the hosts alone, and make no instance.
LEMMA Elsewhere ==
    ASSUME IInv, UNCHANGED <<live, used, joined, node, kubelet>>, ips' \subseteq used,
           object' \in {"present", "deleting", "gone"}, provisioned' \in BOOLEAN,
           listed' \subseteq listed, offline' \in BOOLEAN, twin' \in BOOLEAN,
           AttemptConverted', attempt'.script.ok \in BOOLEAN
    PROVE  IInv'
<1>1. TypeOK'
  BY DEF IInv, TypeOK
<1>2. OneLive' /\ JoinedNodeKept'
  BY DEF IInv, OneLive, JoinedNodeKept
<1>3. QED
  BY <1>1, <1>2 DEF IInv

\* The steps that change only the Node, which keeps the instance it belongs to.
LEMMA NodeOnly ==
    ASSUME IInv, UNCHANGED <<ownerVars, listed, offline, twin, attempt, kubelet, joined, ips>>,
           node' \in Nodes, node'.exists, node'.of = node.of, node.exists
    PROVE  IInv'
<1>1. TypeOK'
  BY DEF IInv, TypeOK, ownerVars
<1>2. OneLive' /\ JoinedNodeKept' /\ AttemptConverted'
  BY DEF IInv, OneLive, JoinedNodeKept, AttemptConverted, ownerVars
<1>3. QED
  BY <1>1, <1>2 DEF IInv

\* Every step keeps the invariant: a new instance has not joined, one that joins
\* takes the Node, and MonitorNode removes a Node only if no instance lives.
LEMMA Step == IInv /\ [Next]_vars => IInv'
<1> SUFFICES ASSUME IInv, [Next]_vars PROVE IInv'
  OBVIOUS
<1>1. TypeOK /\ OneLive /\ JoinedNodeKept /\ AttemptConverted
  BY DEF IInv
<1>2. UNCHANGED attempt => AttemptConverted' /\ attempt'.script.ok \in BOOLEAN
  BY <1>1 DEF AttemptConverted, TypeOK
<1>3. attempt' = NoAttempt => AttemptConverted' /\ attempt'.script.ok \in BOOLEAN
  BY NoAttemptRefused DEF AttemptConverted
<1>4. ASSUME NEW d \in Data, Convert(d) PROVE IInv'
  <2>1. attempt' = [data |-> d, script |-> ToStartupScript(d)]
    BY <1>4 DEF Convert
  <2>2. attempt'.data = d /\ attempt'.script = ToStartupScript(d)
    BY <2>1
  <2>3. AttemptConverted' /\ attempt'.script.ok \in BOOLEAN
    BY <2>2, ScriptOutcome DEF AttemptConverted
  <2>4. QED
    BY <1>1, <1>4, <2>3, Elsewhere DEF Convert, ownerVars, TypeOK
<1>5. CASE AttemptFails
  BY <1>1, <1>3, <1>5, Elsewhere DEF AttemptFails, ownerVars, TypeOK
<1>6. ASSUME NEW i \in InstanceIDs, InstanceBegins(i) PROVE IInv'
  <2>1. /\ live = {} /\ live' = {i} /\ i \notin used /\ used' = used \cup {i} /\ offline' = FALSE
        /\ UNCHANGED <<object, provisioned, listed, twin, attempt, kubelet, joined, node, ips>>
    BY <1>6 DEF InstanceBegins, Owner!Begin
  <2>2. TypeOK'
    BY <1>1, <2>1 DEF TypeOK
  <2>3. i \notin joined
    BY <1>1, <2>1 DEF TypeOK
  <2>4. OneLive' /\ JoinedNodeKept' /\ AttemptConverted'
    BY <1>1, <1>2, <2>1, <2>3 DEF OneLive, JoinedNodeKept
  <2>5. QED
    BY <2>2, <2>4 DEF IInv
<1>7. CASE InstanceEnds
  <2>1. /\ live' = {} /\ attempt' = NoAttempt /\ kubelet' = None /\ offline' = FALSE
        /\ listed' \subseteq listed \cup live
        /\ UNCHANGED <<object, provisioned, used, twin, joined, node, ips>>
    BY <1>7 DEF InstanceEnds, Owner!End
  <2>2. TypeOK'
    BY <1>1, <1>3, <2>1 DEF TypeOK
  <2>3. OneLive' /\ JoinedNodeKept' /\ AttemptConverted'
    BY <1>3, <2>1 DEF OneLive, JoinedNodeKept
  <2>4. QED
    BY <2>2, <2>3 DEF IInv
<1>8. ASSUME NEW i \in InstanceIDs, InstanceForgotten(i) PROVE IInv'
  BY <1>1, <1>2, <1>8, Elsewhere DEF InstanceForgotten, ownerVars, TypeOK
<1>9. CASE InstanceShutsDown
  BY <1>1, <1>2, <1>9, Elsewhere DEF InstanceShutsDown, ownerVars, TypeOK
<1>10. CASE ObjectMoves
  <2>1. object' \in {"present", "deleting", "gone"} /\ provisioned' \in BOOLEAN /\ UNCHANGED <<live, used>>
    BY <1>1, <1>10 DEF ObjectMoves, Owner!Provision, Owner!Ask, Owner!Release, TypeOK
  <2>2. QED
    BY <1>1, <1>2, <1>10, <2>1, Elsewhere DEF ObjectMoves, TypeOK
<1>11. CASE TwinMoves
  BY <1>1, <1>2, <1>11, Elsewhere DEF TwinMoves, ownerVars, TypeOK
<1>12. CASE Boots
  <2>1. attempt' = NoAttempt /\ UNCHANGED <<ownerVars, listed, offline, twin, joined, node, ips>>
    BY <1>12 DEF Boots
  <2>2. kubelet' \in {"", "verda", "foreign", None}
    <3>1. attempt.data \in Data
      BY <1>1, <1>12 DEF Boots, AttemptConverted
    <3>2. attempt.data.providerID \in {"", "verda", "foreign"}
      BY <3>1, DataAssumption
    <3>3. kubelet' = attempt.data.providerID \/ kubelet' = None
      BY <1>12 DEF Boots
    <3>4. QED
      BY <3>2, <3>3
  <2>3. TypeOK'
    BY <1>1, <1>3, <2>1, <2>2 DEF TypeOK, ownerVars
  <2>4. OneLive' /\ JoinedNodeKept' /\ AttemptConverted'
    BY <1>1, <1>3, <2>1 DEF OneLive, JoinedNodeKept, ownerVars
  <2>5. QED
    BY <2>3, <2>4 DEF IInv
<1>13. ASSUME NEW i \in InstanceIDs, Joins(i) PROVE IInv'
  <2>1. /\ i \in live /\ joined' = joined \cup {i} /\ kubelet # None
        /\ UNCHANGED <<ownerVars, listed, offline, twin, attempt, kubelet, ips>>
    BY <1>13 DEF Joins
  <2>2. live' = {i}
    BY <1>1, <2>1 DEF OneLive, ownerVars
  <2>3. node' \in Nodes /\ node'.exists /\ node'.of = i
    <3>1. CASE node.exists
      <4>1. node' = [node EXCEPT !.of = i, !.ready = TRUE, !.shutdown = FALSE]
        BY <1>13, <3>1 DEF Joins
      <4>2. QED
        BY <1>1, <3>1, <4>1 DEF TypeOK, Nodes
    <3>2. CASE ~node.exists
      <4>1. node' = [NoNode EXCEPT !.exists = TRUE, !.of = i, !.ready = TRUE, !.providerID = kubelet]
        BY <1>13, <3>2 DEF Joins
      <4>2. kubelet \in {"", "verda", "foreign"}
        BY <1>1, <2>1 DEF TypeOK
      <4>3. QED
        BY <4>1, <4>2 DEF NoNode, Nodes
    <3>3. QED
      BY <3>1, <3>2
  <2>4. TypeOK'
    BY <1>1, <1>2, <2>1, <2>3 DEF TypeOK, ownerVars
  <2>5. OneLive' /\ JoinedNodeKept' /\ AttemptConverted'
    BY <1>1, <1>2, <2>1, <2>2, <2>3 DEF OneLive, JoinedNodeKept
  <2>6. QED
    BY <2>4, <2>5 DEF IInv
<1>14. CASE ContactChanges
  <2>1. node' \in Nodes /\ node'.exists /\ node'.of = node.of /\ node.exists
    BY <1>1, <1>14 DEF ContactChanges, TypeOK, Nodes
  <2>2. QED
    BY <1>14, <2>1, NodeOnly DEF ContactChanges
<1>15. CASE InitializeNode
  <2>1. PICK m \in InstanceMetadata :
            node' = [node EXCEPT !.providerID = m.providerID, !.address = m.address, !.initialized = TRUE]
    BY <1>15 DEF InitializeNode
  <2>2. m.providerID = "verda" /\ m.address \in InstanceIDs \cup {"twin", None}
    BY <1>1, MetadataTypes
  <2>3. node' \in Nodes /\ node'.exists /\ node'.of = node.of /\ node.exists
    BY <1>1, <1>15, <2>1, <2>2 DEF InitializeNode, TypeOK, Nodes
  <2>4. QED
    BY <1>15, <2>3, NodeOnly DEF InitializeNode
<1>16. CASE RefreshAddresses
  <2>1. PICK m \in InstanceMetadata : node' = [node EXCEPT !.address = m.address]
    BY <1>16 DEF RefreshAddresses
  <2>2. m.address \in InstanceIDs \cup {"twin", None}
    BY <1>1, MetadataTypes
  <2>3. node' \in Nodes /\ node'.exists /\ node'.of = node.of /\ node.exists
    BY <1>1, <1>16, <2>1, <2>2 DEF RefreshAddresses, TypeOK, Nodes
  <2>4. QED
    BY <1>16, <2>3, NodeOnly DEF RefreshAddresses
<1>17. CASE MonitorNode
  <2>1. UNCHANGED <<ownerVars, listed, offline, twin, attempt, kubelet, joined, ips>> /\ node.exists
    BY <1>17 DEF MonitorNode
  <2>2. CASE FALSE \in InstanceExists /\ node' = NoNode
    <3>1. live = {}
      BY <2>2, LiveExists
    <3>2. NoNode \in Nodes
      BY DEF NoNode, Nodes
    <3>3. TypeOK'
      BY <1>1, <1>2, <2>1, <2>2, <3>2 DEF TypeOK, ownerVars
    <3>4. OneLive' /\ JoinedNodeKept' /\ AttemptConverted'
      BY <1>1, <1>2, <2>1, <3>1 DEF OneLive, JoinedNodeKept, ownerVars
    <3>5. QED
      BY <3>3, <3>4 DEF IInv
  <2>3. CASE node' = [node EXCEPT !.shutdown = TRUE]
    <3>1. node' \in Nodes /\ node'.exists /\ node'.of = node.of
      BY <1>1, <2>1, <2>3 DEF TypeOK, Nodes
    <3>2. QED
      BY <2>1, <3>1, NodeOnly
  <2>4. QED
    BY <1>17, <2>2, <2>3 DEF MonitorNode
<1>18. ASSUME NEW i \in InstanceIDs, InstanceGetsIP(i) PROVE IInv'
  <2>1. ips' \subseteq used
    BY <1>1, <1>18 DEF InstanceGetsIP, TypeOK
  <2>2. QED
    BY <1>1, <1>2, <1>18, <2>1, Elsewhere DEF InstanceGetsIP, ownerVars, TypeOK
<1>19. CASE UNCHANGED vars
  BY <1>1, <1>2, <1>19, Elsewhere DEF vars, ownerVars, TypeOK
<1>20. QED
  BY <1>4, <1>5, <1>6, <1>7, <1>8, <1>9, <1>10, <1>11, <1>12, <1>13, <1>14, <1>15, <1>16, <1>17, <1>18, <1>19 DEF Next

-----------------------------------------------------------------------------
(* The theorems.                                                           *)

\* The invariant holds before the first attempt.
LEMMA Start == Init => IInv
<1> SUFFICES ASSUME Init PROVE IInv
  OBVIOUS
<1>1. NoNode \in Nodes /\ NoNode.exists = FALSE
  BY DEF NoNode, Nodes
<1>2. TypeOK
  BY <1>1, NoAttemptRefused DEF Init, Owner!Init, TypeOK
<1>3. QED
  BY <1>2 DEF Init, Owner!Init, IInv, OneLive, JoinedNodeKept, AttemptConverted

\* The inductive invariant: types, one instance at a time, the Node of an instance
\* that has joined, and where the script of an attempt comes from.
THEOREM NodeInvariant == Spec => []IInv
BY Start, Step, PTL DEF Spec

\* Every reachable state is well typed, for all sets of instances and bootstrap data.
THEOREM TypeCorrect == Spec => []TypeOK
<1>1. IInv => TypeOK
  BY DEF IInv
<1>2. QED
  BY <1>1, NodeInvariant, PTL

\* An instance that has joined keeps its Node for as long as it lives, for every set
\* of instances that ever had its hostname.
THEOREM NodeKept == Spec => []JoinedNodeKept
<1>1. IInv => JoinedNodeKept
  BY DEF IInv
<1>2. QED
  BY <1>1, NodeInvariant, PTL

\* Whatever the bootstrap data, a cloud-config becomes a script within the limit of
\* Verda or an error.
THEOREM ScriptsFit == Spec => []ScriptFits
<1>1. IInv => ScriptFits
  BY ConvertedFits DEF IInv
<1>2. QED
  BY <1>1, NodeInvariant, PTL

=============================================================================
