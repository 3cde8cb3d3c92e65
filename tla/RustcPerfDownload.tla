-------------------------- MODULE RustcPerfDownload --------------------------
(***************************************************************************)
(* WindowsPipeline.build_rustc_perf of src/ci/stage-build.py: retry_action *)
(* runs download_rustc_perf (download perf.zip, unpack it in opt-artifacts, *)
(* move_path the tree to opt-artifacts/rustc-perf, delete the zip) up to    *)
(* max_fails times, then the collector is built in rustc-perf.  Any step of *)
(* an attempt may raise: a network error, a truncated archive, or an        *)
(* interrupt, which retry_action catches like any other BaseException.     *)
(*                                                                         *)
(* build_rustc_perf runs right after opt-artifacts is wiped, so every file *)
(* starts absent.  A file is "absent", "partial" or "whole"; rustc-perf may *)
(* also be "nested": whole, with a second tree moved inside it.  The run   *)
(* ends "raised" by retry_action, or "built" or "failed" by the collector *)
(* build.                                                                  *)
(***************************************************************************)
EXTENDS Naturals

CONSTANTS
  MaxFails,   \* retry_action's max_fails
  MaxFaults   \* failing steps over the whole run

ASSUME MaxFails \in Nat \ {0} /\ MaxFaults \in Nat

VARIABLES
  iteration,  \* attempts that have raised
  step,       \* next step of download_rustc_perf, or what follows it
  zip,        \* opt-artifacts/perf.zip
  extracted,  \* opt-artifacts/rustc-perf-<commit>
  perfDir,    \* opt-artifacts/rustc-perf
  faults      \* failing steps so far

vars == <<iteration, step, zip, extracted, perfDir, faults>>

Steps == {"download", "unpack", "move", "delete"}

CanFail == faults < MaxFaults

\* Mutant: the loop runs one attempt more than max_fails.
AttemptFailedOffByOne ==
  /\ iteration' = iteration + 1
  /\ step' = IF iteration + 1 <= MaxFails THEN "download" ELSE "raised"

\* Mutant: the loop stops one attempt short of max_fails.
AttemptFailedOneShort ==
  /\ iteration' = iteration + 1
  /\ step' = IF iteration + 2 < MaxFails THEN "download" ELSE "raised"

\* A step of the action raises because of the network, the archive or an
\* interrupt.
Fault == CanFail /\ faults' = faults + 1

\* retry_action: the exception is caught and logged; the next iteration
\* calls the action again, and after max_fails attempts it raises.
AttemptFailed ==
  /\ iteration' = iteration + 1
  /\ step' = IF iteration + 1 < MaxFails THEN "download" ELSE "raised"

\* download_file: urlretrieve into perf.zip, which a failure leaves partial.
DownloadFile ==
  /\ step = "download"
  /\ \/ zip' = "whole" /\ step' = "unpack" /\ UNCHANGED <<iteration, faults>>
     \/ Fault /\ zip' = "partial" /\ AttemptFailed
  /\ UNCHANGED <<extracted, perfDir>>

\* unpack_archive: extract over whatever an earlier attempt left; a failure
\* part way leaves some of the files.
UnpackArchive ==
  /\ step = "unpack"
  /\ \/ extracted' = "whole" /\ step' = "move" /\ UNCHANGED <<iteration, faults>>
     \/ /\ Fault
        /\ extracted' = IF extracted = "whole" THEN "whole" ELSE "partial"
        /\ AttemptFailed
  /\ UNCHANGED <<zip, perfDir>>

\* move_path: shutil.move renames the tree to rustc-perf, or, when
\* rustc-perf is already a directory, moves it inside as
\* rustc-perf/rustc-perf-<commit>; when that is already there too, it
\* raises "Destination path already exists" and moves nothing.
MovePath ==
  /\ step = "move"
  /\ \/ /\ perfDir # "nested"
        /\ perfDir' = IF perfDir = "absent" THEN extracted ELSE "nested"
        /\ extracted' = "absent"
        /\ step' = "delete"
        /\ UNCHANGED iteration
     \/ /\ perfDir = "nested"
        /\ AttemptFailed
        /\ UNCHANGED <<perfDir, extracted>>
  /\ UNCHANGED <<zip, faults>>

\* delete_file removes perf.zip; the action returns and retry_action with it.
DeleteFile ==
  /\ step = "delete"
  /\ zip' = "absent"
  /\ step' = "collector"
  /\ UNCHANGED <<iteration, extracted, perfDir, faults>>

\* An interrupt between two steps of the action, caught by retry_action.
Interrupt ==
  /\ step \in Steps
  /\ Fault
  /\ AttemptFailed
  /\ UNCHANGED <<zip, extracted, perfDir>>

\* change_cwd(rustc_perf_dir) and cmd(check=True) of cargo build -p
\* collector: it needs the complete rustc-perf tree at the top of
\* rustc-perf, and fails for any reason of its own (a compile error, a
\* crates.io fetch), which ends the pipeline.
BuildCollector ==
  /\ step = "collector"
  /\ \/ perfDir \in {"whole", "nested"} /\ step' = "built"
     \/ step' = "failed"
  /\ UNCHANGED <<iteration, zip, extracted, perfDir, faults>>

Init ==
  /\ iteration = 0
  /\ step = "download"
  /\ zip = "absent"
  /\ extracted = "absent"
  /\ perfDir = "absent"
  /\ faults = 0

Next ==
  \/ DownloadFile \/ UnpackArchive \/ MovePath \/ DeleteFile \/ Interrupt
  \/ BuildCollector

Spec == Init /\ [][Next]_vars

-----------------------------------------------------------------------------
(* Properties                                                              *)

TypeOK ==
  /\ iteration \in 0..MaxFails
  /\ step \in Steps \cup {"collector", "built", "failed", "raised"}
  /\ zip \in {"absent", "partial", "whole"}
  /\ extracted \in {"absent", "partial", "whole"}
  /\ perfDir \in {"absent", "whole", "nested"}
  /\ faults \in 0..MaxFaults

\* Spec section 8: an action that fails n < max_fails times and then
\* succeeds was called n+1 times and succeeds; one that always fails has
\* been called exactly max_fails times when retry_action raises.
AttemptsAsSpecified ==
  /\ step = "raised" => iteration = MaxFails
  /\ step \in {"collector", "built", "failed"} => iteration < MaxFails

\* Spec section 4.3: retry_action wraps a flaky network fetch, so whatever
\* an earlier attempt left in opt-artifacts does not make a later attempt
\* fail: retry_action gives up only if every attempt met a fault of its
\* own (a network error, a truncated archive, an interrupt).
RetriesNotPoisoned == step = "raised" => faults >= MaxFails

=============================================================================
