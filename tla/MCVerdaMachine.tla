--------------------------- MODULE MCVerdaMachine ---------------------------
(***************************************************************************)
(* Model checking of VerdaMachine.  IDs are model values; the calls that   *)
(* hand out an ID may hand out any that is left, so runs that check only   *)
(* invariants may use the symmetry of the ID sets.                         *)
(***************************************************************************)
EXTENDS VerdaMachine, TLC

IDSymmetry == Permutations(InstanceIDs) \cup Permutations(ScriptIDs) \cup Permutations(VolumeIDs)

=============================================================================
