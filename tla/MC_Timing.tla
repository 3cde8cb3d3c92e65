------------------------------- MODULE MC_Timing -------------------------------
(* Model-checking instance of Timing: metrics.json invocations of up to three *)
(* entries, own durations 0, 1 and 2.                                    *)
EXTENDS Timing

MCDurations == {0, 1, 2}

=============================================================================
