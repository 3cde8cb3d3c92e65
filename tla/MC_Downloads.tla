------------------------------ MODULE MC_Downloads ------------------------------
(* The two fetch-and-retry paths of a Windows build: execute_build_pipeline *)
(* first runs WindowsPipeline.build_rustc_perf, which fetches rustc-perf     *)
(* with retry_action, and then invokes x.py again and again, each time      *)
(* running bootstrap.py's download of the stage-0 toolchain.  The two share  *)
(* no files, so any interleaving of their steps reaches the same pairs of    *)
(* states; the model takes the order of the code, rustc-perf first.         *)
EXTENDS Naturals

CONSTANTS MaxFails, MaxFaults, CrossDevice, MaxCrashes, Nix, VendorDir, CargoConfig

VARIABLES iteration, step, zip, extracted, perfDir, faults
VARIABLES pc, comp, attempt, tmp, cache, binRoot, stamp, crashes, runFault,
          bin, nixDeps, patched, clean, cargoDir

perfVars == <<iteration, step, zip, extracted, perfDir, faults>>
bootVars == <<pc, comp, attempt, tmp, cache, binRoot, stamp, crashes, runFault,
             bin, nixDeps, patched, clean, cargoDir>>

Perf == INSTANCE RustcPerfDownload
Boot == INSTANCE BootstrapDownload

Init == Perf!Init /\ Boot!Init

\* build_rustc_perf has returned, or raised in retry_action or the collector build.
PerfEnded == step \in {"built", "failed", "raised"}

Next == \/ Perf!Next /\ UNCHANGED bootVars
        \/ PerfEnded /\ Boot!Next /\ UNCHANGED perfVars

\* The invariants of each component, as stated in its module.
PerfTypeOK == Perf!TypeOK
PerfAttemptsAsSpecified == Perf!AttemptsAsSpecified
PerfRetriesNotPoisoned == Perf!RetriesNotPoisoned
BootTypeOK == Boot!TypeOK
BootDoneImpliesVerified == Boot!DoneImpliesVerified
BootStampedImpliesPatchRun == Boot!StampedImpliesPatchRun
=============================================================================
