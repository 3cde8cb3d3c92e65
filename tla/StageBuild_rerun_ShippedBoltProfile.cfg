\* Two invocations against the same build directory; checks ShippedBoltProfile alone.
CONSTANTS
  Platforms <- MCPlatforms
  MaxRuns = 2
SPECIFICATION Spec
INVARIANT ShippedBoltProfile
CHECK_DEADLOCK FALSE
