---------------------------- MODULE MC_BuildMetrics ----------------------------
(* Model-checking instance of BuildMetrics: every invocation of up to three *)
(* entries, nested in every way, with own durations 0, 1 and 2.            *)
EXTENDS BuildMetrics

MCDurations == {0, 1, 2}

=============================================================================
