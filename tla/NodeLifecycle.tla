---------------------------- MODULE NodeLifecycle ----------------------------
(***************************************************************************)
(* One hostname from bootstrap data to Node and back: createInstance turns *)
(* the data into a startup script, the instance runs it and its kubelet    *)
(* registers a Node, and the cloud controller manager                      *)
(* (internal/ccm/provider.go) initialises the Node and has it removed when *)
(* the instance is gone.                                                   *)
(*                                                                         *)
(* The VerdaMachine is an InstanceOwner, which is what VerdaMachine is     *)
(* shown to implement.  The controllers of k8s.io/cloud-provider that call *)
(* the Provider, the kubelet and the cloud are external.  A look-up that   *)
(* fails changes nothing and is tried again: it is a step not taken.       *)
(***************************************************************************)
EXTENDS Bootstrap, FiniteSets

CONSTANTS
    InstanceIDs,
    Data,     \* bootstrap data
    Later,    \* ... for an instance after the first (a bound)
    None,
    Twins     \* another owner may have an instance of the same hostname

ASSUME TwinsAssumption == Twins \in BOOLEAN
ASSUME NodeNoneAssumption == None \notin InstanceIDs /\ "twin" \notin InstanceIDs
ASSUME DataAssumption ==
    \A d \in Data : d.len \in Nat /\ d.gz \in Nat /\ d.providerID \in {"", "verda", "foreign"}

VARIABLES
    object, provisioned, live, used,  \* see InstanceOwner
    listed,    \* ended instances that the API still lists, as discontinued
    offline,   \* the live instance is shut down
    twin,      \* there is a live instance of another owner with this hostname
    attempt,   \* the bootstrap data and the script of the next or the new instance
    kubelet,   \* the provider ID that the kubelet of the live instance is to register with
    joined,    \* instances whose kubelet has registered
    ips,       \* instances of which the API knows the address
    node       \* the Node

ownerVars == <<object, provisioned, live, used>>
vars == <<ownerVars, listed, offline, twin, attempt, kubelet, joined, node, ips>>

Owner == INSTANCE InstanceOwner

NoAttempt == [data |-> None, script |-> Refused]
NoNode == [exists |-> FALSE, of |-> None, ready |-> FALSE, providerID |-> "", initialized |-> FALSE,
           address |-> None, shutdown |-> FALSE]

Nodes == [exists: BOOLEAN, of: InstanceIDs \cup {None}, ready: BOOLEAN, providerID: {"", "verda", "foreign"},
          initialized: BOOLEAN, address: InstanceIDs \cup {"twin", None}, shutdown: BOOLEAN]

\* The Node and the instances are of their types, and only a Node that exists
\* has anything to say.
TypeOK ==
    /\ object \in {"present", "deleting", "gone"} /\ provisioned \in BOOLEAN
    /\ used \subseteq InstanceIDs /\ live \subseteq used /\ listed \subseteq used \ live
    /\ offline \in BOOLEAN /\ twin \in BOOLEAN /\ joined \subseteq used /\ ips \subseteq used
    /\ attempt.script.ok \in BOOLEAN /\ kubelet \in {"", "verda", "foreign", None}
    /\ node \in Nodes
    /\ ~node.exists => node = NoNode

Init ==
    /\ Owner!Init
    /\ listed = {} /\ offline = FALSE /\ twin = FALSE /\ joined = {} /\ ips = {}
    /\ attempt = NoAttempt /\ kubelet = None /\ node = NoNode

-----------------------------------------------------------------------------
(* The VerdaMachine and its instance.                                      *)

\* createInstance reads the bootstrap data at every attempt and converts it.
Convert(d) ==
    /\ object # "gone" /\ ~provisioned /\ live = {} /\ attempt = NoAttempt
    /\ used = {} \/ d \in Later
    /\ attempt' = [data |-> d, script |-> ToStartupScript(d)]
    /\ UNCHANGED <<ownerVars, listed, offline, twin, kubelet, joined, node, ips>>

\* An error of ToStartupScript, or of the create, ends the attempt.
AttemptFails ==
    /\ live = {} /\ attempt # NoAttempt /\ attempt' = NoAttempt
    /\ UNCHANGED <<ownerVars, listed, offline, twin, kubelet, joined, node, ips>>

\* Verda takes no longer script.
InstanceBegins(i) ==
    /\ attempt.script.ok /\ attempt.script.len <= MaxScriptSize
    /\ Owner!Begin(i)
    /\ offline' = FALSE
    /\ UNCHANGED <<listed, twin, attempt, kubelet, joined, node, ips>>

\* An instance gets its address some time after it was created.
InstanceGetsIP(i) ==
    /\ i \in live \ ips /\ ips' = ips \cup {i}
    /\ UNCHANGED <<ownerVars, listed, offline, twin, attempt, kubelet, joined, node>>

InstanceEnds ==
    /\ Owner!End
    /\ \E S \in {{}, live} : listed' = listed \cup S
    /\ attempt' = NoAttempt /\ kubelet' = None /\ offline' = FALSE
    /\ UNCHANGED <<twin, joined, node, ips>>

InstanceForgotten(i) ==
    /\ i \in listed /\ listed' = listed \ {i}
    /\ UNCHANGED <<ownerVars, offline, twin, attempt, kubelet, joined, node, ips>>

InstanceShutsDown ==
    /\ live # {} /\ ~offline /\ offline' = TRUE
    /\ UNCHANGED <<ownerVars, listed, twin, attempt, kubelet, joined, node, ips>>

ObjectMoves ==
    /\ Owner!Provision \/ Owner!Ask \/ Owner!Release
    /\ UNCHANGED <<listed, offline, twin, attempt, kubelet, joined, node, ips>>

TwinMoves ==
    /\ Twins /\ twin' = ~twin
    /\ UNCHANGED <<ownerVars, listed, offline, attempt, kubelet, joined, node, ips>>

-----------------------------------------------------------------------------
(* The host (external).                                                    *)

\* The startup script runs.  Its commands include kubeadm, which starts the kubelet.
Boots ==
    /\ live # {} /\ ~offline /\ attempt # NoAttempt
    /\ attempt' = NoAttempt
    /\ kubelet' = IF "kubeadm" \in ToSet(RunScript(attempt.script.body).ran) THEN attempt.data.providerID ELSE None
    /\ UNCHANGED <<ownerVars, listed, offline, twin, joined, node, ips>>

\* The kubelet registers once: it makes a Node or takes the one of that name.
Joins(i) ==
    /\ i \in live \ joined /\ ~offline /\ kubelet # None
    /\ joined' = joined \cup {i}
    /\ node' = IF node.exists THEN [node EXCEPT !.of = i, !.ready = TRUE, !.shutdown = FALSE]
               ELSE [NoNode EXCEPT !.exists = TRUE, !.of = i, !.ready = TRUE, !.providerID = kubelet]
    /\ UNCHANGED <<ownerVars, listed, offline, twin, attempt, kubelet, ips>>

\* The Node loses contact at any time, and regains it while its instance runs.
ContactChanges ==
    /\ node.exists
    /\ \/ node.ready /\ node' = [node EXCEPT !.ready = FALSE]
       \/ ~node.ready /\ node.of \in live /\ ~offline /\ node' = [node EXCEPT !.ready = TRUE, !.shutdown = FALSE]
    /\ UNCHANGED <<ownerVars, listed, offline, twin, attempt, kubelet, joined, ips>>

-----------------------------------------------------------------------------
(* The Provider.                                                           *)

\* What the list call returns for the hostname, with the states that matter.  Like
\* Listed of VerdaCloud it has no instances that are deleted.
Matches == {[id |-> i, status |-> IF offline THEN "offline" ELSE "running"] : i \in live}
           \cup {[id |-> i, status |-> "discontinued"] : i \in listed}
           \cup (IF twin THEN {[id |-> "twin", status |-> "running"]} ELSE {})

\* Mutant: the first match counts, whatever its state.
FindFirstByHostname == Matches

\* FindInstanceByHostname: the first that is not discontinued, else one that is;
\* no answer is ErrNotFound.
FindInstanceByHostname ==
    LET current == {m \in Matches : m.status # "discontinued"}
    IN  IF current # {} THEN current ELSE Matches

\* lookup: the hostname is the Node's name, and that of its provider ID if it has
\* one of this provider; any other provider ID is an error.
CanLookup == node.providerID # "foreign"

\* Mutant: only ErrNotFound says that the instance is gone.
ExistsIfListed == {FindInstanceByHostname # {}}

\* InstanceExists, for each answer of the look-up.
InstanceExists == {m.status \notin {"discontinued", "deleted", "notfound"} : m \in FindInstanceByHostname}
                  \cup (IF FindInstanceByHostname = {} THEN {FALSE} ELSE {})

InstanceShutdown == {m.status = "offline" : m \in FindInstanceByHostname}

\* Mutant: an address that is empty is passed on.
IPOrEmpty(m) == IF m.id \in ips \cup {"twin"} THEN m.id ELSE ""

\* instance.IP; None stands for the empty one.
IP(m) == IF m.id \in ips \cup {"twin"} THEN m.id ELSE None

\* Mutant: an instance that is gone may give the address.
MetadataOfAny == {[providerID |-> "verda", address |-> IP(m)] : m \in Matches}

\* InstanceMetadata: the provider ID is that of the hostname, and without an IP the
\* hostname is the only address.
InstanceMetadata == {[providerID |-> "verda", address |-> IP(m)] : m \in FindInstanceByHostname}

-----------------------------------------------------------------------------
(* Its callers (external).                                                 *)

\* A Node that is not initialised gets its provider ID, address and zone.
InitializeNode ==
    /\ node.exists /\ ~node.initialized /\ CanLookup
    /\ \E m \in InstanceMetadata :
          node' = [node EXCEPT !.providerID = m.providerID, !.address = m.address, !.initialized = TRUE]
    /\ UNCHANGED <<ownerVars, listed, offline, twin, attempt, kubelet, joined, ips>>

\* Addresses are brought up to date now and then.
RefreshAddresses ==
    /\ node.exists /\ node.initialized /\ CanLookup
    /\ \E m \in InstanceMetadata : m.address # node.address /\ node' = [node EXCEPT !.address = m.address]
    /\ UNCHANGED <<ownerVars, listed, offline, twin, attempt, kubelet, joined, ips>>

\* A Node without contact is removed if its instance does not exist, and marked
\* if it is shut down.
MonitorNode ==
    /\ node.exists /\ ~node.ready /\ CanLookup
    /\ \/ FALSE \in InstanceExists /\ node' = NoNode
       \/ TRUE \in InstanceExists /\ TRUE \in InstanceShutdown /\ ~node.shutdown /\ node' = [node EXCEPT !.shutdown = TRUE]
    /\ UNCHANGED <<ownerVars, listed, offline, twin, attempt, kubelet, joined, ips>>

-----------------------------------------------------------------------------
Next ==
    \/ \E d \in Data : Convert(d)
    \/ \E i \in InstanceIDs : InstanceBegins(i) \/ InstanceGetsIP(i) \/ InstanceForgotten(i) \/ Joins(i)
    \/ AttemptFails \/ InstanceEnds \/ InstanceShutsDown \/ ObjectMoves \/ TwinMoves
    \/ Boots \/ ContactChanges \/ InitializeNode \/ RefreshAddresses \/ MonitorNode

Spec == Init /\ [][Next]_vars

\* Fairness.  A Node whose instance is gone loses contact; the API reports the address
\* of an instance in the end; the controllers go over the Nodes again and again.
LosesContact == node.of \notin live /\ node.ready /\ ContactChanges

FairSpec == /\ Spec
            /\ WF_vars(LosesContact) /\ WF_vars(\E i \in InstanceIDs : InstanceGetsIP(i))
            /\ WF_vars(InitializeNode) /\ WF_vars(RefreshAddresses) /\ WF_vars(MonitorNode)

-----------------------------------------------------------------------------
(* Properties.                                                             *)

\* An instance that has joined keeps its Node for as long as it lives, contact or
\* not, whatever earlier instances of its hostname are still listed: InstanceExists
\* never takes it for gone.
JoinedNodeKept == \A i \in live \cap joined : node.exists /\ node.of = i

\* The script Verda is given fits, at the boundary too (fit counts the line
\* breaks of wrapBase64 and the stub).
ScriptFits ==
    attempt.script.ok /\ ~attempt.data.shell => attempt.script.len <= MaxScriptSize

\* A host that has run its script is as the cloud-config asks: every file, user and
\* key, and every command, those of runcmd last (the order of ToStartupScript under
\* set -e), unless the data asks for what the script gets wrong.
BootsAsAsked ==
    attempt.script.ok /\ Plain(attempt.data) => AsAsked(attempt.data, RunScript(attempt.script.body))

\* The cloud controller manager "removes Nodes whose instance is gone": once the
\* machine is gone its Node goes, unless another instance has the hostname or the
\* Node has a provider ID of somebody else.
GoneNodeRemoved ==
    <>[](object = "gone" /\ ~twin /\ node.providerID # "foreign") => <>[]~node.exists

\* It "sets node addresses": a Node that an instance keeps ends up with the address
\* of that instance, also when it took over the Node of an earlier one or was
\* initialised before its IP was known.
AddressesFollow ==
    \A i \in InstanceIDs :
        <>[](live = {i} /\ i \in joined /\ ~twin /\ node.providerID # "foreign") => <>[](node.initialized /\ node.address = i)

\* The provider "converts the #cloud-config produced by the kubeadm bootstrap
\* provider into bash": data that is accepted, and asks for nothing impossible, makes
\* a script that Verda takes and that leaves the host as asked.
AcceptedDataBoots ==
    attempt.script.ok /\ Sensible(attempt.data) =>
        attempt.script.len <= MaxScriptSize /\ AsAsked(attempt.data, RunScript(attempt.script.body))

=============================================================================
