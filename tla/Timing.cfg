\* Up to five timers below the root (sections and leaves) over five clock
\* values; time.time() never goes back.
CONSTANTS
  MaxTimers = 5
  MaxTime = 4
  MaxSkew = 0
  MaxEntries = 3
  Durations <- MCDurations
SPECIFICATION Spec
 
INVARIANT StatsRowsCoverTree
\* The run ends after print_stats.
CHECK_DEADLOCK FALSE
