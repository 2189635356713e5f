------------------------- MODULE MCPublicDataStore -------------------------
(* Instances of PublicDataStore for TLC.                                   *)
EXTENDS PublicDataStore, TLC

\* The processes share a host, so that they see each other's pids.
OneHost == [p \in Procs |-> "host"]

\* Processes and contents are interchangeable.
Symmetry == Permutations(Contents) \cup Permutations(Procs)
=============================================================================
