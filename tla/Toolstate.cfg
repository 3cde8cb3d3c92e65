\* Two tools, so a run can fail in the issue of the second after the
\* first was handled, and two commits, so a later run reads what an
\* earlier one wrote (or failed to write).
CONSTANTS
  t1 = t1
  t2 = t2
  Tools <- MCTools
  Reports <- MCReports
  MaxRuns = 2
INIT Init
NEXT Next
INVARIANTS
  RegressionsIssued
CHECK_DEADLOCK FALSE
