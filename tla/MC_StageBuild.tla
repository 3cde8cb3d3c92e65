---------------------------- MODULE MC_StageBuild ----------------------------
(* Model-checking instance of StageBuild: both pipelines of create_pipeline *)
(* (Linux with BOLT, Windows without); the number of invocations against   *)
(* one build directory is set by each .cfg.                                 *)
EXTENDS StageBuild

MCPlatforms == {"linux", "windows"}

-----------------------------------------------------------------------------
(* Properties of the first invocation, on a fresh build directory.  The    *)
(* runs that follow it are checked by the violation runs of the same       *)
(* properties, which show what an earlier invocation leaves behind.        *)

\* On a fresh build directory, the shipped rustc was built with exactly the
\* profile its own Stage 1 instrumented rustc wrote (--keep-stage keeps it
\* through the LLVM rebuilds of Stages 2 and 3).
FreshShippedRustcPgo == runNo = 1 => ShippedRustcPgo

\* On a fresh build directory, the shipped LLVM is BOLT-optimised with
\* exactly this invocation's BOLT profile where the pipeline supports BOLT,
\* and not BOLT-optimised elsewhere.
FreshShippedBoltProfile == runNo = 1 => ShippedBoltProfile

-----------------------------------------------------------------------------
(* Refinement mapping onto PipelineAbstract: a stage is started when its   *)
(* top-level timer section is entered; the invocation has succeeded once   *)
(* the last statement completed and failed once an exception is raised.    *)

StageOf == [n \in {"Stage 1 (rustc PGO)", "Stage 2 (LLVM PGO)",
                   "Stage 3 (LLVM BOLT)", "Final stage (dist build)", "Run tests"} |->
             CASE n = "Stage 1 (rustc PGO)"      -> "stage1"
               [] n = "Stage 2 (LLVM PGO)"       -> "stage2"
               [] n = "Stage 3 (LLVM BOLT)"      -> "stage3"
               [] n = "Final stage (dist build)" -> "final"
               [] n = "Run tests"                -> "tests"]

StagesEntered == {StageOf[e[1]] : e \in {e \in entered : Len(e) = 1}}

Outcome == CASE exc # "none"       -> "failed"
             [] pc > Len(Program)  -> "succeeded"
             [] OTHER              -> "running"

Pipeline == INSTANCE PipelineAbstract
  WITH visited <- StagesEntered,
       packaged <- shipped # NoShipment,
       result <- Outcome,
       bolt <- SupportsBolt(platform),
       try <- tryBuild

\* Every behaviour of the driver is one the abstract pipeline allows: the
\* stages start in order and only where they apply, the tests follow the
\* packaging, and every invocation ends in success or failure.
PipelineRefined == Pipeline!Spec

=============================================================================
