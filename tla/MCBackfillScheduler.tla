------------------------ MODULE MCBackfillScheduler ------------------------
(* Demands of chart cells x and y and of a background audit, for TLC.      *)
EXTENDS BackfillScheduler

Asks(s, first, last, reason, owner, trusted, cell) ==
  [series |-> s, first |-> first, last |-> last, reason |-> reason,
   owner |-> owner, trusted |-> trusted, cell |-> cell]

\* A query, a visible range of another cell and owner inside it, and an audit.
MCDemand ==
  [r1 |-> Asks("s1", 1, 2, "query_gap", "a", FALSE, "x"),
   r2 |-> Asks("s1", 2, 2, "visible_range_gap", "b", TRUE, "y"),
   r3 |-> Asks("s2", 1, 1, "background_gap_audit", Absent, FALSE, "y")]

\* The seed of a chart and, while its newest chunk is fetched, its visible range.
MCDemandEdge ==
  [r1 |-> Asks("s1", 1, 3, "visible_seed_gap", "a", FALSE, "x"),
   r2 |-> Asks("s1", 1, 3, "visible_range_gap", "b", FALSE, "x")]
=============================================================================
