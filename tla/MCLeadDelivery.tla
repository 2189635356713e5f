--------------------------- MODULE MCLeadDelivery ---------------------------
(* Instances of LeadDelivery for TLC.                                      *)
EXTENDS LeadDelivery, TLC

\* Every assignment has a destination for every channel.
AllChannels == [a \in Assignments |-> Channels]

\* One assignment has a destination for every channel, the others for one channel.
OneHasAll ==
    LET first == CHOOSE a \in Assignments : TRUE
        channel == CHOOSE c \in Channels : TRUE
    IN  [a \in Assignments |-> IF a = first THEN Channels ELSE {channel}]

\* Worker slots are interchangeable.
Symmetry == Permutations(Workers)

\* A lead with one delivery meets everything that can happen.  One with several, where
\* slots work on different deliveries of the lead, is not erased, its provider is at
\* most paused, and two of them share the bound on claims.
Focus ==
    \A l \in Leads :
        Cardinality({c \in Channels : status[<<l, c>>] # "absent"}) > 1 =>
            /\ ~erasing[l].on
            /\ \A a \in Assignments :
                  assignment[a] \in IF a = boundTo[l] THEN {"active", "paused"} ELSE {"candidate"}
            /\ \A c, e \in Channels : c # e => claims[<<l, c>>] + claims[<<l, e>>] <= MaxClaims
=============================================================================
