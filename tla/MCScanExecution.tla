-------------------------- MODULE MCScanExecution --------------------------
(* Instances of ScanExecution for TLC.                                     *)
EXTENDS ScanExecution, TLC

\* All scans of the instance are about one opportunity.
OneOpportunity == [s \in Scans |-> CHOOSE o \in Opportunities : TRUE]

\* Worker slots are interchangeable, and so are web requests.
Symmetry == Permutations(Workers) \cup Permutations(Requests)
=============================================================================
