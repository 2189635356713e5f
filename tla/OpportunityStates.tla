------------------------- MODULE OpportunityStates -------------------------
(***************************************************************************)
(* The review states of an opportunity and the one table that says which   *)
(* state may follow which.  Every writer of opportunities.status - the     *)
(* scan pipeline, the scan API and the human reviewers - validates its     *)
(* step against this table, each against the copy of the row its own       *)
(* database session holds.                                                 *)
(***************************************************************************)

OppStates ==
    {"discovered", "prefilter_review", "testing_planned", "testing_running",
     "preliminary_review", "full_scan_approved", "full_running", "full_review",
     "needs_more_evidence", "approved_for_property", "rejected", "archived"}

\* ALLOWED_TRANSITIONS of opportunity_review/services.py.
AllowedTransitions ==
    [o \in OppStates |->
        CASE o = "discovered" ->
                {"prefilter_review", "testing_planned", "testing_running",
                 "preliminary_review", "full_running", "full_review",
                 "needs_more_evidence", "rejected", "archived"}
          [] o = "prefilter_review" ->
                {"testing_planned", "testing_running", "full_running",
                 "needs_more_evidence", "rejected", "archived"}
          [] o = "testing_planned" ->
                {"testing_running", "needs_more_evidence", "rejected", "archived"}
          [] o = "testing_running" ->
                {"preliminary_review", "needs_more_evidence", "testing_planned"}
          [] o = "preliminary_review" ->
                {"testing_planned", "full_scan_approved", "needs_more_evidence",
                 "rejected", "archived"}
          [] o = "full_scan_approved" ->
                {"full_running", "preliminary_review", "needs_more_evidence", "rejected"}
          [] o = "full_running" ->
                {"full_review", "needs_more_evidence", "full_scan_approved"}
          [] o = "full_review" ->
                {"approved_for_property", "full_scan_approved", "needs_more_evidence",
                 "rejected", "archived"}
          [] o = "needs_more_evidence" ->
                {"testing_planned", "testing_running", "preliminary_review",
                 "full_scan_approved", "full_running", "full_review", "rejected",
                 "archived"}
          [] o = "approved_for_property" ->
                {"full_running", "full_review", "needs_more_evidence", "archived"}
          [] o = "rejected" ->
                {"prefilter_review", "preliminary_review", "full_review", "archived"}
          [] o = "archived" -> {}]

\* transition_system: a system step to the state already held is a no-op, any
\* other step must be in the table; FALSE is the OpportunityReviewError.  The
\* targets the pipeline asks for never need a human, so the role check of
\* transition cannot refuse them.
CanTransition(current, target) ==
    current = target \/ target \in AllowedTransitions[current]
=============================================================================
