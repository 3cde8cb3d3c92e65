--------------------------- MODULE BootstrapDownload ---------------------------
(***************************************************************************)
(* src/bootstrap/bootstrap.py, one x.py invocation after another on the  *)
(* same source tree and build directory: bootstrap() reads the flags and   *)
(* config.toml and runs check_vendored_status(), then download_toolchain() *)
(* with _download_component_helper(), get(), download()/_download(),       *)
(* verify(), unpack() and the stamp written through output(), then         *)
(* build_bootstrap() and the run of rustbuild.  An invocation may be       *)
(* interrupted (Ctrl+C, a killed CI job) at any step, any curl attempt     *)
(* and any cargo or rustbuild run may fail.                                *)
(*                                                                         *)
(* File contents are abstracted to what verify() tells apart: "good" (the  *)
(* checksum matches) or "partial".  The temporary file of get() lives in   *)
(* the system temp directory; CrossDevice says whether that is another     *)
(* filesystem than build/, in which case shutil.move copies.  On NixOS     *)
(* (Nix) every binary is patched with patchelf before the stamp is written. *)
(***************************************************************************)
EXTENDS Naturals, Sequences

CONSTANTS
  CrossDevice,  \* tempfile's directory and build/cache are on different filesystems
  MaxCrashes,   \* interrupted invocations
  Nix,          \* should_fix_bins_and_dylibs(): Linux, NixOS and no /lib
  VendorDir,    \* the source tree has vendor/ (as the crablangc-src tarball does)
  CargoConfig   \* the source tree comes with .cargo/ (its config selects vendor/)

ASSUME CrossDevice \in BOOLEAN /\ MaxCrashes \in Nat /\ Nix \in BOOLEAN
ASSUME VendorDir \in BOOLEAN /\ CargoConfig \in BOOLEAN

VARIABLES
  pc,        \* step of the current invocation
  comp,      \* index of the component being fetched
  attempt,   \* curl attempt of download()
  tmp,       \* get()'s temporary file: "none", "good" or "partial"
  cache,     \* build/cache/<date>/<tarball> per component
  binRoot,   \* what build/<host>/stage0 holds of each component
  stamp,     \* .crablangc-stamp: "absent", "stale" (older date) or "current"
  crashes,   \* interrupted invocations so far
  runFault,  \* a curl attempt of this invocation failed
  bin,       \* index of the file fix_bin_or_dylib is at
  nixDeps,   \* self.nix_deps_dir: nix-build succeeded in this invocation
  patched,   \* per file of bin_root: "no", "yes", or "warned" (patch failed)
  clean,     \* self.clean: this invocation was given --clean
  cargoDir   \* <crablang_root>/.cargo exists

vars == <<pc, comp, attempt, tmp, cache, binRoot, stamp, crashes, runFault,
          bin, nixDeps, patched, clean, cargoDir>>
patch == <<bin, nixDeps, patched>>
driver == <<clean, cargoDir>>

\* download_toolchain()'s order: crablang-std, crablangc, cargo.
Components == <<"std", "rustc", "cargo">>
Comps == {Components[i] : i \in DOMAIN Components}
Current == Components[comp]

\* download(): four attempts that raise, then one that does not.
Attempts == 5

\* How an invocation ends: download_toolchain raised, it was interrupted,
\* check_vendored_status raised, or cargo or rustbuild ran to the end.
Ended == {"failed", "crashed", "refused", "exited"}

\* should_fix_bins_and_dylibs(): computed once per process from uname, the
\* patch-binaries-for-nix option, /etc/os-release and /lib, which do not
\* change between invocations.
ShouldFixBinsAndDylibs == Nix

\* The files download_toolchain patches, in order; the .so files of lib/
\* stand as one.
Bins == <<"cargo", "crablangc", "crablangdoc", "proc-macro-srv", "lib">>
BinFiles == {Bins[i] : i \in DOMAIN Bins}
Unpatched == [f \in BinFiles |-> "no"]

\* program_out_of_date(): --clean, or the stamp is missing or holds another
\* date.
ProgramOutOfDate == clean \/ stamp # "current"

\* check_vendored_status(): `vendor = true` in config.toml, or SUDO_USER is
\* set and the user is root.
UseVendoredSources(vendorCfg, root) == vendorCfg \/ root

\* verify(): the sha256 of the file matches stage0.json.
Verified(f) == f = "good"

-----------------------------------------------------------------------------

\* Mutant: the stamp is not consulted (program_out_of_date dropped).
CheckToolchainNoStamp ==
  /\ pc = "check"
  /\ IF binRoot["rustc"] # "absent"
     THEN pc' = "build" /\ UNCHANGED <<binRoot, stamp, comp>>
     ELSE /\ binRoot' = [c \in Comps |-> "absent"]
          /\ stamp' = "absent"
          /\ comp' = 1
          /\ pc' = "fetch"
  /\ patched' = IF pc' = "fetch" THEN Unpatched ELSE patched
  /\ UNCHANGED <<attempt, tmp, cache, crashes, runFault, bin, nixDeps>>
  /\ UNCHANGED driver

\* download_toolchain(): bin/crablangc exists and the stamp holds this date,
\* or bin_root is removed (stamp included) and the components fetched.
CheckToolchain ==
  /\ pc = "check"
  /\ IF binRoot["rustc"] # "absent" /\ ~ProgramOutOfDate
     THEN pc' = "build" /\ UNCHANGED <<binRoot, stamp, comp>>
     ELSE /\ binRoot' = [c \in Comps |-> "absent"]
          /\ stamp' = "absent"
          /\ comp' = 1
          /\ pc' = "fetch"
  /\ patched' = IF pc' = "fetch" THEN Unpatched ELSE patched
  /\ UNCHANGED <<attempt, tmp, cache, crashes, runFault, bin, nixDeps>>
  /\ UNCHANGED driver

\* _download_component_helper(): get() only when the cached tarball is
\* absent; an existing one goes straight to unpack().
ComponentHelper ==
  /\ pc = "fetch"
  /\ IF cache[Current] = "absent"
     THEN pc' = "download" /\ attempt' = 1
     ELSE pc' = "unpack" /\ UNCHANGED attempt
  /\ UNCHANGED <<comp, tmp, cache, binRoot, stamp, crashes, runFault>> /\ UNCHANGED patch
  /\ UNCHANGED driver

\* Mutant: range(5) instead of range(4), a sixth attempt.
DownloadSixAttempts ==
  /\ pc = "download"
  /\ \/ tmp' = "good" /\ pc' = "verify" /\ UNCHANGED <<attempt, runFault>>
     \/ /\ tmp' = "partial"
        /\ runFault' = TRUE
        /\ IF attempt <= Attempts
           THEN attempt' = attempt + 1 /\ UNCHANGED pc
           ELSE pc' = "verify" /\ UNCHANGED attempt
  /\ UNCHANGED <<comp, cache, binRoot, stamp, crashes>> /\ UNCHANGED patch
  /\ UNCHANGED driver

\* One curl attempt into the temporary file.  A failure of attempts 1-4
\* raises RuntimeError and is retried; the last one (exception=False, not
\* verbose, not win32) is silenced and get() goes on to verify.
Download ==
  /\ pc = "download"
  /\ \/ tmp' = "good" /\ pc' = "verify" /\ UNCHANGED <<attempt, runFault>>
     \/ /\ tmp' = "partial"
        /\ runFault' = TRUE
        /\ IF attempt < Attempts
           THEN attempt' = attempt + 1 /\ UNCHANGED pc
           ELSE pc' = "verify" /\ UNCHANGED attempt
  /\ UNCHANGED <<comp, cache, binRoot, stamp, crashes>> /\ UNCHANGED patch
  /\ UNCHANGED driver

\* get(): verify the temporary file; on a mismatch raise (the finally
\* removes the temporary file), else shutil.move it to the cache path: a
\* rename on one filesystem, a copy that creates the target first otherwise.
Verify ==
  /\ pc = "verify"
  /\ IF Verified(tmp)
     THEN IF CrossDevice
          THEN /\ cache' = [cache EXCEPT ![Current] = "partial"]
               /\ pc' = "copy" /\ UNCHANGED tmp
          ELSE /\ cache' = [cache EXCEPT ![Current] = "good"]
               /\ tmp' = "none" /\ pc' = "unpack"
     ELSE tmp' = "none" /\ pc' = "failed" /\ UNCHANGED cache
  /\ UNCHANGED <<comp, attempt, binRoot, stamp, crashes, runFault>> /\ UNCHANGED patch
  /\ UNCHANGED driver

\* shutil.move across filesystems: the copy completes and the source goes.
CopyToCache ==
  /\ pc = "copy"
  /\ cache' = [cache EXCEPT ![Current] = "good"]
  /\ tmp' = "none"
  /\ pc' = "unpack"
  /\ UNCHANGED <<comp, attempt, binRoot, stamp, crashes, runFault>> /\ UNCHANGED patch
  /\ UNCHANGED driver

\* unpack(): extract the tarball into bin_root.  A truncated tarball makes
\* tarfile raise, possibly after extracting some members.  After cargo,
\* the binaries are patched when should_fix_bins_and_dylibs().
Unpack ==
  /\ pc = "unpack"
  /\ IF Verified(cache[Current])
     THEN /\ binRoot' = [binRoot EXCEPT ![Current] = "good"]
          /\ IF comp < Len(Components)
             THEN comp' = comp + 1 /\ pc' = "fetch"
             ELSE pc' = (IF ShouldFixBinsAndDylibs THEN "patch" ELSE "stamp") /\ UNCHANGED comp
     ELSE /\ binRoot' \in {[binRoot EXCEPT ![Current] = b] : b \in {"absent", "broken"}}
          /\ pc' = "failed" /\ UNCHANGED comp
  /\ bin' = 1
  /\ UNCHANGED <<attempt, tmp, cache, stamp, crashes, runFault, nixDeps, patched>>
  /\ UNCHANGED driver

\* The next file to patch, or the stamp once lib/ is done.
NextBin == IF bin < Len(Bins) THEN bin' = bin + 1 /\ UNCHANGED pc
           ELSE pc' = "stamp" /\ UNCHANGED bin

\* Mutant: the loop over lib/*.so is left out.
FixBinOrDylibNoLib ==
  /\ pc = "patch"
  /\ \/ ~nixDeps /\ patched' = [patched EXCEPT ![Bins[bin]] = "warned"] /\ UNCHANGED nixDeps
     \/ nixDeps' = TRUE /\ \E p \in {"yes", "warned"} : patched' = [patched EXCEPT ![Bins[bin]] = p]
  /\ IF bin < Len(Bins) - 1 THEN bin' = bin + 1 /\ UNCHANGED pc
     ELSE pc' = "stamp" /\ UNCHANGED bin
  /\ UNCHANGED <<comp, attempt, tmp, cache, binRoot, stamp, crashes, runFault>>
  /\ UNCHANGED driver

\* fix_bin_or_dylib(fname): nix-build .nix-deps unless this invocation
\* already did; if it fails, print a warning and return.  Then patchelf
\* the file; a failure is printed as a warning too.
FixBinOrDylib ==
  /\ pc = "patch"
  /\ \/ ~nixDeps /\ patched' = [patched EXCEPT ![Bins[bin]] = "warned"] /\ UNCHANGED nixDeps
     \/ nixDeps' = TRUE /\ \E p \in {"yes", "warned"} : patched' = [patched EXCEPT ![Bins[bin]] = p]
  /\ NextBin
  /\ UNCHANGED <<comp, attempt, tmp, cache, binRoot, stamp, crashes, runFault>>
  /\ UNCHANGED driver

\* output(stamp): write stamp.tmp, then rename it over the stamp.
WriteStamp ==
  /\ pc = "stamp"
  /\ stamp' = "current"
  /\ pc' = "build"
  /\ UNCHANGED <<comp, attempt, tmp, cache, binRoot, crashes, runFault>> /\ UNCHANGED patch
  /\ UNCHANGED driver

\* The invocation is interrupted; an unpack may have extracted some members,
\* and some files may already be patched.
Crash ==
  /\ pc \notin Ended
  /\ crashes < MaxCrashes
  /\ crashes' = crashes + 1
  /\ pc' = "crashed"
  /\ IF pc = "unpack"
     THEN binRoot' \in {binRoot, [binRoot EXCEPT ![Current] = "broken"]}
     ELSE UNCHANGED binRoot
  /\ UNCHANGED <<comp, attempt, tmp, cache, stamp, runFault>> /\ UNCHANGED patch
  /\ UNCHANGED driver

\* x.py is run again; get()'s temporary file of an interrupted run is left
\* behind under another name and plays no further part.  A new process has
\* no nix_deps_dir.
Rerun ==
  /\ pc \in Ended
  /\ pc' = "config"
  /\ tmp' = "none"
  /\ runFault' = FALSE
  /\ nixDeps' = FALSE
  /\ UNCHANGED <<comp, attempt, cache, binRoot, stamp, crashes, bin, patched>>
  /\ UNCHANGED driver

\* bootstrap() up to check_vendored_status(): --clean comes from the
\* arguments and `vendor` from config.toml, and a run as root under sudo
\* uses vendored sources whatever config.toml says.  Vendored sources need
\* vendor/ and .cargo/, or the exception ends the invocation; without
\* vendoring, .cargo/ is removed.
Configure ==
  /\ pc = "config"
  /\ clean' \in BOOLEAN
  /\ \E vendorCfg, root \in BOOLEAN :
       IF UseVendoredSources(vendorCfg, root)
       THEN pc' = (IF VendorDir /\ cargoDir THEN "check" ELSE "refused") /\ UNCHANGED cargoDir
       ELSE pc' = "check" /\ cargoDir' = FALSE
  /\ UNCHANGED <<comp, attempt, tmp, cache, binRoot, stamp, crashes, runFault>>
  /\ UNCHANGED patch

\* build_bootstrap(): with --clean, build/bootstrap is removed; then cargo
\* build of rustbuild, and the run of rustbuild.  A failing command ends the
\* process through run()'s sys.exit, and so does rustbuild's own exit.
BuildBootstrap ==
  /\ pc = "build"
  /\ pc' = "exited"
  /\ UNCHANGED <<comp, attempt, tmp, cache, binRoot, stamp, crashes, runFault>>
  /\ UNCHANGED patch /\ UNCHANGED driver

\* A fresh build directory, or one holding the (patched, on NixOS)
\* toolchain of an older date.
Init ==
  /\ pc = "config"
  /\ comp = 1
  /\ attempt = 1
  /\ tmp = "none"
  /\ cache = [c \in Comps |-> "absent"]
  /\ \/ binRoot = [c \in Comps |-> "absent"] /\ stamp = "absent" /\ patched = Unpatched
     \/ /\ binRoot = [c \in Comps |-> "old"] /\ stamp = "stale"
        /\ patched = [f \in BinFiles |-> IF Nix THEN "yes" ELSE "no"]
  /\ crashes = 0
  /\ runFault = FALSE
  /\ bin = 1
  /\ nixDeps = FALSE
  /\ clean = FALSE
  /\ cargoDir = CargoConfig

Next ==
  \/ Configure \/ CheckToolchain \/ ComponentHelper \/ Download \/ Verify \/ CopyToCache
  \/ Unpack \/ FixBinOrDylib \/ WriteStamp \/ BuildBootstrap \/ Crash \/ Rerun

Spec == Init /\ [][Next]_vars

-----------------------------------------------------------------------------
(* Properties                                                              *)

TypeOK ==
  /\ pc \in {"config", "check", "fetch", "download", "verify", "copy", "unpack",
            "patch", "stamp", "build"} \cup Ended
  /\ comp \in DOMAIN Components
  /\ attempt \in 1..Attempts
  /\ tmp \in {"none", "good", "partial"}
  /\ cache \in [Comps -> {"absent", "good", "partial"}]
  /\ binRoot \in [Comps -> {"absent", "good", "broken", "old"}]
  /\ stamp \in {"absent", "stale", "current"}
  /\ crashes \in 0..MaxCrashes
  /\ runFault \in BOOLEAN
  /\ bin \in DOMAIN Bins
  /\ nixDeps \in BOOLEAN
  /\ patched \in [BinFiles -> {"no", "yes", "warned"}]
  /\ clean \in BOOLEAN
  /\ cargoDir \in BOOLEAN

\* An invocation that goes on to build rustbuild (download_toolchain
\* returns) has this date's stamp and every component fully extracted from
\* a verified tarball, whatever earlier invocations were interrupted or
\* failed, and whether or not they were given --clean.
DoneImpliesVerified ==
  pc = "build" => stamp = "current" /\ \A c \in Comps : binRoot[c] = "good"

\* On NixOS, a toolchain the stamp marks current had fix_bin_or_dylib run
\* on every file of this download: an interrupted patch loop leaves no
\* stamp, so the next invocation downloads and patches again.  (A patch
\* that failed is only a warning, and counts as run.)
StampedImpliesPatchRun ==
  ShouldFixBinsAndDylibs /\ stamp = "current" => \A f \in BinFiles : patched[f] # "no"

\* A source tree that can build with vendored sources keeps that ability:
\* an invocation that uses them is refused by check_vendored_status only
\* when the tree never had vendor/ or .cargo/, never because an earlier
\* x.py run removed one of them.
VendoringRefusedOnlyForMissingSources ==
  pc = "refused" => ~(VendorDir /\ CargoConfig)

\* An invocation fails only if one of its own downloads failed: nothing an
\* earlier, interrupted or failed invocation left in build/cache makes a
\* later one fail.
FailuresHaveCause == pc = "failed" => runFault

=============================================================================
