\* The temporary directory on another filesystem than build/: shutil.move
\* copies, and an interruption can fall inside the copy.
CONSTANTS
  CrossDevice = TRUE
  MaxCrashes = 1
  Nix = FALSE
  VendorDir = FALSE
  CargoConfig = FALSE
INIT Init
NEXT Next
INVARIANT
  FailuresHaveCause
