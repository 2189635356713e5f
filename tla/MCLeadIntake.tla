---------------------------- MODULE MCLeadIntake ----------------------------
(* Instances of LeadIntake for TLC.                                        *)
EXTENDS LeadIntake, TLC

\* A submission, its twin under another key, and one the assessor blocks.
TestForms == {[key |-> "k1", contact |-> "ann", blocked |-> FALSE],
              [key |-> "k2", contact |-> "ann", blocked |-> FALSE],
              [key |-> "k1", contact |-> "bob", blocked |-> TRUE]}

\* The second provider can only be called, which no adapter does.
TestDestination == [a \in Assignments |-> IF a = "a1" THEN {"email", "phone"} ELSE {"phone"}]

\* Processes are interchangeable.
Symmetry == Permutations(Procs)
=============================================================================
