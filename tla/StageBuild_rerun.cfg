\* Two invocations against the same build directory, on both platforms and
\* for try and non-try builds: the first starts fresh, the second from
\* whatever the first left, after success or after any failure.
CONSTANTS
  Platforms <- MCPlatforms
  MaxRuns = 2
SPECIFICATION Spec
INVARIANT TypeOK
INVARIANT FreshShippedRustcPgo
INVARIANT ShippedLlvmPgo
INVARIANT FreshShippedBoltProfile
INVARIANT StatsCoverEnteredSections
INVARIANT ExitStatusReflectsPipeline
PROPERTY DiagnosticsAlwaysEmitted
PROPERTY PipelineRefined
\* The script exits after run()'s finally: the last state is final.
CHECK_DEADLOCK FALSE
