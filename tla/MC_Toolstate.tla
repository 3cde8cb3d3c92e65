------------------------------ MODULE MC_Toolstate ------------------------------
EXTENDS Toolstate
CONSTANTS t1, t2
MCTools == {t1, t2}

\* Each OS's history line is missing for the commit ({}) or lists every
\* tool; lines that omit only some tools are left out of this instance.
MCReports == [OSes -> {[t \in Tools |-> "none"]} \cup [Tools -> Statuses]]
=============================================================================
