\* One invocation; checks the spec's claim that metrics errors are not fatal.
CONSTANTS
  Platforms <- MCPlatforms
  MaxRuns = 1
SPECIFICATION Spec
INVARIANT MetricsNeverFatal
CHECK_DEADLOCK FALSE
