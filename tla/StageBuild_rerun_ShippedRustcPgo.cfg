\* Two invocations against the same build directory; checks ShippedRustcPgo alone.
CONSTANTS
  Platforms <- MCPlatforms
  MaxRuns = 2
SPECIFICATION Spec
INVARIANT ShippedRustcPgo
CHECK_DEADLOCK FALSE
