------------------------ MODULE MCOpportunityReview ------------------------
(* Instances of OpportunityReview for TLC.                                 *)
EXTENDS OpportunityReview, TLC

\* Every scan costs one unit.
UnitCost == [o \in Opps |-> 1]

\* Requests are interchangeable.
Symmetry == Permutations(Requests)

\* Bounds: overrides, which share nothing with scans and batches but the audit
\* log, come while there are none of those; once the opportunities are contested
\* or revived, only the scans of batches are followed further.
Focus ==
    /\ overrides # <<>> => scans = <<>> /\ \A b \in Batches : batch[b] = None
    /\ Opps \subseteq contested \cup revived => \A i \in DOMAIN scans : scans[i].batch # None
=============================================================================
