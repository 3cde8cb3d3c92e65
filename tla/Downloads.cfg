\* retry_action's default of five attempts with one fault more than that, so
\* both the exhausted and the recovered outcomes are reached; bootstrap.py's
\* temporary directory on another filesystem than build/ (shutil.move
\* copies), NixOS, and two interrupted invocations.  x.py can always be run again,
\* so no state is final.
CONSTANTS
  MaxFails = 5
  MaxFaults = 6
  CrossDevice = TRUE
  MaxCrashes = 2
  Nix = TRUE
  VendorDir = TRUE
  CargoConfig = TRUE
INIT Init
NEXT Next
INVARIANTS
  PerfTypeOK
  PerfAttemptsAsSpecified
  BootTypeOK
  BootDoneImpliesVerified
  BootStampedImpliesPatchRun
