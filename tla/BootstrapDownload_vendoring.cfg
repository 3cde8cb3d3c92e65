\* A source tree as the crablangc-src tarball ships it, with vendor/ and
\* .cargo/; each invocation picks --clean, the `vendor` setting and whether
\* it runs as root under sudo.  Downloads and interruptions play no part.
CONSTANTS
  CrossDevice = FALSE
  MaxCrashes = 0
  Nix = FALSE
  VendorDir = TRUE
  CargoConfig = TRUE
INIT Init
NEXT Next
INVARIANT
  VendoringRefusedOnlyForMissingSources
