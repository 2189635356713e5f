------------------------ MODULE MCPropertyWorkflow ------------------------
(* Instances of PropertyWorkflow for TLC.                                  *)
EXTENDS PropertyWorkflow, TLC

\* Domains, assignments and threads are interchangeable.
Symmetry ==
    Permutations(Domains) \cup Permutations(Assignments) \cup Permutations(Threads)

\* Explored: two edits or reviews at once, one of them beside a deployment, and two
\* provider changes beside a deployment of a property whose edits and reviews are done.
Focus ==
    LET changing == {t \in Threads : job[t] # None /\ job[t].op = "provider"}
        editing == {t \in Threads : job[t] # None} \ changing
    IN  /\ editing = Threads => \A p \in Processes : flight[p] = None
        /\ changing # {} =>
              /\ editing = {}
              /\ opp = "approved_for_property" /\ asset = "approved" /\ healthy
              /\ prop.version = MaxVersions /\ VerifiedDomain # None
=============================================================================
