--------------------------- MODULE PipelineAbstract ---------------------------
(***************************************************************************)
(* What one invocation of src/ci/stage-build.py promises, without its      *)
(* commands, files or timer: the stages of execute_build_pipeline start in *)
(* order, each only after the ones before it that apply, Stage 3 only on a *)
(* pipeline that supports BOLT, the tests only after the dist build has    *)
(* packaged the toolchain and only outside try builds; the invocation ends *)
(* successfully only when every stage that applies ran and the toolchain   *)
(* was packaged, and it may fail at any point.  The script may be run      *)
(* again, possibly as a different kind of build, on the same machine.      *)
(***************************************************************************)
EXTENDS FiniteSets

VARIABLES
  visited,   \* stages started by this invocation
  packaged,  \* the dist build of this invocation packaged the toolchain
  result,    \* "running", "succeeded" or "failed"
  bolt,      \* the pipeline of this machine supports BOLT
  try        \* this invocation is a try build

avars == <<visited, packaged, result, bolt, try>>

Stages == {"stage1", "stage2", "stage3", "final", "tests"}

\* The stages that apply to this invocation.
Applicable == {"stage1", "stage2", "final"}
              \cup (IF bolt THEN {"stage3"} ELSE {})
              \cup (IF try THEN {} ELSE {"tests"})

\* The stages that come before s.
Before(s) ==
  CASE s = "stage1" -> {}
    [] s = "stage2" -> {"stage1"}
    [] s = "stage3" -> {"stage1", "stage2"}
    [] s = "final"  -> {"stage1", "stage2", "stage3"}
    [] s = "tests"  -> Stages \ {"tests"}

Start(s) ==
  /\ result = "running"
  /\ s \in Applicable \ visited
  /\ Before(s) \cap Applicable \subseteq visited
  /\ s = "tests" => packaged
  /\ visited' = visited \cup {s}
  /\ UNCHANGED <<packaged, result, bolt, try>>

Package ==
  /\ result = "running"
  /\ "final" \in visited /\ "tests" \notin visited
  /\ ~packaged
  /\ packaged' = TRUE
  /\ UNCHANGED <<visited, result, bolt, try>>

Succeed ==
  /\ result = "running"
  /\ Applicable \subseteq visited
  /\ packaged
  /\ result' = "succeeded"
  /\ UNCHANGED <<visited, packaged, bolt, try>>

Fail ==
  /\ result = "running"
  /\ result' = "failed"
  /\ UNCHANGED <<visited, packaged, bolt, try>>

Rerun ==
  /\ result # "running"
  /\ visited' = {}
  /\ packaged' = FALSE
  /\ result' = "running"
  /\ try' \in BOOLEAN
  /\ UNCHANGED bolt

Init ==
  /\ visited = {}
  /\ packaged = FALSE
  /\ result = "running"
  /\ bolt \in BOOLEAN
  /\ try \in BOOLEAN

Step == (\E s \in Stages : Start(s)) \/ Package \/ Succeed \/ Fail

Next == Step \/ Rerun

\* A running invocation does not stop before it succeeds or fails.
Spec == Init /\ [][Next]_avars /\ WF_avars(Step)

=============================================================================
