\* Two tools and two commits: the first run opens an issue and then ends
\* without publishing latest.json; the second run reads the old one.
CONSTANTS
  t1 = t1
  t2 = t2
  Tools <- MCTools
  Reports <- MCReports
  MaxRuns = 2
INIT Init
NEXT Next
INVARIANT
  NoDuplicateIssues
CHECK_DEADLOCK FALSE
