\* build_rustc_perf alone is enough: two attempts that raise after
\* move_path (an interrupt, or perf.zip locked at delete_file) leave
\* rustc-perf/rustc-perf-<commit> behind, and the three attempts left all
\* fail in shutil.move.
CONSTANTS
  MaxFails = 5
  MaxFaults = 6
  CrossDevice = TRUE
  MaxCrashes = 2
  Nix = TRUE
  VendorDir = TRUE
  CargoConfig = TRUE
INIT Init
NEXT Next
INVARIANT PerfRetriesNotPoisoned
