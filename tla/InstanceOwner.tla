---------------------------- MODULE InstanceOwner ----------------------------
(***************************************************************************)
(* What a VerdaMachine or a VerdaCluster promises about the instances it   *)
(* pays for, without reconciles, calls, failures or crashes: an object has *)
(* at most one live instance, gets another only before it has reported     *)
(* Provisioned, and goes away only when none is left.                      *)
(*                                                                         *)
(* VerdaMachine and VerdaCluster are shown to implement this               *)
(* specification; NodeLifecycle takes it as the surroundings of the cloud  *)
(* controller manager.                                                     *)
(***************************************************************************)
CONSTANT InstanceIDs

VARIABLES
    object,       \* "present", "deleting" or "gone"
    provisioned,  \* the object has reported that its infrastructure is there
    live,         \* the live instances of the object
    used          \* the instances it ever had

vars == <<object, provisioned, live, used>>

Init == object = "present" /\ provisioned = FALSE /\ live = {} /\ used = {}

\* An instance is created: for an object that is there, has none and has not
\* been provisioned before.
Begin(i) ==
    /\ object # "gone" /\ ~provisioned /\ live = {} /\ i \notin used
    /\ live' = {i} /\ used' = used \cup {i}
    /\ UNCHANGED <<object, provisioned>>

\* The instance ends: it was deleted, or the cloud discontinued it.
End ==
    /\ live # {} /\ live' = {}
    /\ UNCHANGED <<object, provisioned, used>>

Provision ==
    /\ object # "gone" /\ ~provisioned /\ provisioned' = TRUE
    /\ UNCHANGED <<object, live, used>>

\* The user deletes the object; one that never had an instance may go at once.
Ask ==
    /\ object = "present"
    /\ \/ object' = "deleting"
       \/ live = {} /\ object' = "gone"
    /\ UNCHANGED <<provisioned, live, used>>

\* The finalizer is removed.
Release ==
    /\ object = "deleting" /\ live = {} /\ object' = "gone"
    /\ UNCHANGED <<provisioned, live, used>>

Next == (\E i \in InstanceIDs : Begin(i)) \/ End \/ Provision \/ Ask \/ Release

Spec == Init /\ [][Next]_vars

=============================================================================
