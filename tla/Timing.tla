------------------------------- MODULE Timing -------------------------------
(***************************************************************************)
(* The driver's timer together with the builds run in its sections        *)
(* (execute_build_pipeline in src/ci/stage-build.py): inside a section,   *)
(* bootstrap_build runs x.py, rustbuild appends its invocation to          *)
(* metrics.json, and record_metrics(pipeline, section) adds the summed     *)
(* LLVM and Rustc step durations as leaves of that section.  The leaves   *)
(* are measured by rustbuild, the section by the driver's own clock.       *)
(***************************************************************************)
EXTENDS Integers, Sequences, SequencesExt, FiniteSetsExt

CONSTANTS MaxTimers, MaxTime, MaxSkew, MaxEntries, Durations

VARIABLES now, skews, timers, parent, start, dur, children, active, stack, stats

vars == <<now, skews, timers, parent, start, dur, children, active, stack, stats>>

T == INSTANCE Timer WITH Leaves <- {}
\* record_metrics reads a file, not the timer's state: BuildMetrics' own
\* variables are not used here.
B == INSTANCE BuildMetrics WITH file <- "present", tree <- {}, outcome <- "pending", leaves <- {}

\* The invocations rustbuild writes: its Rustc steps do not nest in one
\* another and every LLVM step runs inside a Rustc step, as record_metrics'
\* comment "The LLVM step is part of the Rustc step" assumes.
Invocations == {t \in B!Trees : B!WellNested(t)}

\* rustbuild's wall time for an invocation: its steps run one at a time and
\* their own times exclude each other, so they add up.
RealTime(t) == MapThenSumSet(LAMBDA i : t.own[i], 1..t.n)

\* Leaves are added in record_metrics' order: LLVM, then Rustc.
LeafOrder == <<"LLVM", "Rustc">>

LeafDurations(l) ==
  LET names == SelectSeq(LeafOrder, LAMBDA n : n \in DOMAIN l)
  IN [i \in DOMAIN names |-> l[names[i]]]

\* What one build does to the timer: the time rustbuild took, and the
\* durations record_metrics then adds (none when it raises).
BuildOutcomes ==
  {<<RealTime(t), IF B!MetricsRaise(f, t) THEN <<>>
                  ELSE LeafDurations(B!MetricsLeaves(t))>> :
     f \in {"missing", "no_invocations", "present"},
     t \in Invocations \cup {B!NoEntries}}

\* bootstrap_build, then record_metrics on the innermost section, with
\* nothing in between: x.py runs and writes (or fails to write)
\* metrics.json while the driver's clock advances by the time the build
\* took; record_metrics adds its leaves, or raises and adds none (the
\* section then ends through its finally, ExitSection).
BootstrapBuild ==
  /\ stats = "none"
  /\ stack # <<>>
  /\ \E o \in BuildOutcomes :
       /\ now + o[1] <= MaxTime
       /\ now' = now + o[1]
       /\ T!AddDurations(o[2])

Init == T!Init

Next ==
  \/ T!EnterSection
  \/ T!ExitSection
  \/ T!Tick
  \/ T!PrintStats
  \/ BootstrapBuild

Spec == Init /\ [][Next]_vars

-----------------------------------------------------------------------------
(* Properties                                                              *)

StatsRowsCoverTree == T!StatsRowsCoverTree

=============================================================================
