\* record_metrics on every metrics file of up to three entries.
CONSTANTS
  MaxEntries = 3
  Durations <- MCDurations
SPECIFICATION Spec
INVARIANT TypeOK
INVARIANT ParseMatchesReference
INVARIANT LeavesSplitRustcTime
\* record_metrics returns or raises once: the state after it is final.
CHECK_DEADLOCK FALSE
