--------------------------- MODULE MCVerdaCluster ---------------------------
(* Small instances of VerdaCluster for TLC.                                *)
EXTENDS VerdaCluster, TLC

\* Nothing tells two identifiers, or two machines, apart.
IDSymmetry == Permutations(InstanceIDs) \cup Permutations(ScriptIDs)
              \cup Permutations(VolumeIDs) \cup Permutations(Nodes)

=============================================================================
