-------------------------- MODULE MCProviderSpend --------------------------
(* Instances of ProviderSpend for TLC.                                     *)
EXTENDS ProviderSpend, TLC

\* The planned requests are spread over the scans, one each.
OneEach == CHOOSE f \in [Calls -> Scans] : \A s \in Scans : \E c \in Calls : f[c] = s

\* One scan is claimed up to three times, so that a worker can come back after two
\* others; the other scan, there to compete for the budget, is claimed once.
ThreeAndOne ==
    LET often == CHOOSE s \in Scans : TRUE IN [s \in Scans |-> IF s = often THEN 3 ELSE 1]

\* Workers are interchangeable.
Symmetry == Permutations(Workers)

\* States are told apart by what a worker still reads: nothing once it is idle, only
\* its scan and lease while it is between calls.
View ==
    LET live(w) == CASE pc[w] = "idle" -> <<>>
                     [] pc[w] = "running" -> <<scan[w], token[w]>>
                     [] OTHER -> <<scan[w], token[w], call[w], copy[w]>>
    IN  <<row, cached, bucketVars, leaseVars, pc, [w \in Workers |-> live(w)], history>>
=============================================================================
