----------------------------- MODULE BuildMetrics -----------------------------
(***************************************************************************)
(* record_metrics() of src/ci/stage-build.py on the metrics.json that      *)
(* rustbuild leaves after a build: load_last_metrics() parses the entries  *)
(* of the last invocation into BuildStep trees, find_all_by_type() collects *)
(* the LLVM and Rustc steps, and the two sums become "LLVM" and "Rustc"     *)
(* duration leaves of the current timer section.                           *)
(*                                                                         *)
(* An invocation's entries are numbered 1..n in file (pre-)order; parent[i] *)
(* is the entry whose "children" list holds entry i, 0 for the            *)
(* invocation itself.  kind, type and own (duration_excluding_children_sec) *)
(* are the JSON fields parse() reads.                                      *)
(***************************************************************************)
EXTENDS Naturals, FiniteSets, FiniteSetsExt, Relation

CONSTANTS
  MaxEntries,  \* entries in the last invocation
  Durations    \* values of duration_excluding_children_sec

ASSUME MaxEntries \in Nat /\ Durations \subseteq Nat

VARIABLES
  file,     \* metrics.json: "missing", "no_invocations" or "present"
  tree,     \* the entries of its last invocation, when present
  outcome,  \* "pending", "recorded" or "raised"
  leaves    \* duration leaves added to the timer: name -> duration

vars == <<file, tree, outcome, leaves>>

LlvmType == "bootstrap::llvm::Llvm"
RustcType == "bootstrap::compile::Rustc"
Types == {LlvmType, RustcType, "bootstrap::dist::Rustc"}

\* Entries as rustbuild may write them; a non-step entry has no type.
Entries(n) ==
  [n : {n},
   parent : {p \in [1..n -> 0..n] : \A i \in 1..n : p[i] < i},
   kind : [1..n -> {"rustbuild_step", "other"}],
   type : [1..n -> Types],
   own : [1..n -> Durations]]
NoEntries == CHOOSE t \in Entries(0) : TRUE
Trees == {t \in UNION {Entries(n) : n \in 0..MaxEntries} :
            \A i \in 1..t.n : t.kind[i] = "other" =>
              t.type[i] = "bootstrap::dist::Rustc" /\ t.own[i] = 0}

-----------------------------------------------------------------------------
(* load_last_metrics                                                       *)

IsStep(t, i) == t.kind[i] = "rustbuild_step"
ChildrenOf(t, i) == {c \in 1..t.n : t.parent[c] = i}

\* Mutant: a parent's duration ignores its children.
DurationOwnOnly(t, i) == t.own[i]

\* parse(entry): its own duration plus the parsed duration of every child
\* that is itself a step; other children are dropped.
RECURSIVE Duration(_, _)
Duration(t, i) ==
  t.own[i] + MapThenSumSet(LAMBDA c : Duration(t, c),
                           {c \in ChildrenOf(t, i) : IsStep(t, c)})

\* The root BuildStep keeps parse()'s None for a top-level non-step entry.
HasNoneChild(t) == \E c \in ChildrenOf(t, 0) : ~IsStep(t, c)

\* BuildStep.find_all_by_type(type) from the parsed step i.
RECURSIVE FindAllByType(_, _, _)
FindAllByType(t, i, ty) ==
  (IF t.type[i] = ty THEN {i} ELSE {})
  \cup UNION {FindAllByType(t, c, ty) : c \in {c \in ChildrenOf(t, i) : IsStep(t, c)}}

\* The steps of type ty below the root.
StepsOfType(t, ty) == UNION {FindAllByType(t, c, ty) : c \in ChildrenOf(t, 0)}

SumDurations(t, S) == MapThenSumSet(LAMBDA i : Duration(t, i), S)

-----------------------------------------------------------------------------
(* record_metrics                                                          *)

\* Mutant: the LLVM time is not taken out of the Rustc time.
ClampedNoDifference(a, b) == a
ClampedDifference(a, b) == IF a > b THEN a - b ELSE 0

\* Mutant: each sum is added as a leaf, zero included.
RecordMetricsAlwaysAdds ==
  /\ outcome = "pending"
  /\ \/ /\ file # "present" \/ HasNoneChild(tree)
        /\ outcome' = "raised"
        /\ UNCHANGED leaves
     \/ /\ file = "present"
        /\ ~HasNoneChild(tree)
        /\ LET llvm == SumDurations(tree, StepsOfType(tree, LlvmType))
               rustc == ClampedDifference(
                          SumDurations(tree, StepsOfType(tree, RustcType)), llvm)
           IN leaves' = [name \in {"LLVM", "Rustc"} |->
                           IF name = "LLVM" THEN llvm ELSE rustc]
        /\ outcome' = "recorded"
  /\ UNCHANGED <<file, tree>>

\* The leaves record_metrics adds for a parsed invocation: the LLVM sum and
\* the Rustc sum less the LLVM sum, each only when positive.
MetricsLeaves(t) ==
  LET llvm == SumDurations(t, StepsOfType(t, LlvmType))
      rustc == ClampedDifference(SumDurations(t, StepsOfType(t, RustcType)), llvm)
      sums == [name \in {"LLVM", "Rustc"} |-> IF name = "LLVM" THEN llvm ELSE rustc]
  IN [name \in {m \in DOMAIN sums : sums[m] > 0} |-> sums[name]]

\* load_last_metrics raises: no file, no invocation, or a top-level entry
\* that is not a step (its None child is dereferenced).
MetricsRaise(f, t) == f # "present" \/ HasNoneChild(t)

\* Open the file, take invocations[-1] and build the tree (an error raises);
\* add the leaves.
RecordMetrics ==
  /\ outcome = "pending"
  /\ \/ /\ MetricsRaise(file, tree)
        /\ outcome' = "raised"
        /\ UNCHANGED leaves
     \/ /\ ~MetricsRaise(file, tree)
        /\ leaves' = MetricsLeaves(tree)
        /\ outcome' = "recorded"
  /\ UNCHANGED <<file, tree>>

Init ==
  /\ file \in {"missing", "no_invocations", "present"}
  /\ tree \in IF file = "present" THEN Trees ELSE {NoEntries}
  /\ outcome = "pending"
  /\ leaves = [name \in {} |-> 0]

Next == RecordMetrics

Spec == Init /\ [][Next]_vars

-----------------------------------------------------------------------------
(* Reference definitions: the same quantities without recursion.           *)

\* j is i or lies below i through steps only.
StepReach(t) ==
  ReflexiveTransitiveClosure(
    [p \in (0..t.n) \X (0..t.n) |->
       p[2] # 0 /\ t.parent[p[2]] = p[1] /\ IsStep(t, p[2])],
    0..t.n)

\* Total own time of every step reached from i.
RefDuration(t, i) ==
  LET R == StepReach(t) IN
  MapThenSumSet(LAMBDA j : t.own[j], {j \in 1..t.n : R[i, j] /\ IsStep(t, j)})

RefStepsOfType(t, ty) ==
  LET R == StepReach(t) IN {j \in 1..t.n : R[0, j] /\ IsStep(t, j) /\ t.type[j] = ty}

RefSum(t, ty) == MapThenSumSet(LAMBDA j : RefDuration(t, j), RefStepsOfType(t, ty))

Leaf(name) == IF name \in DOMAIN leaves THEN leaves[name] ELSE 0

\* Every LLVM step lies inside a Rustc step (the comment "The LLVM step is
\* part of the Rustc step"), and neither kind of step nests in its own kind.
WellNested(t) ==
  LET R == StepReach(t)
      L == RefStepsOfType(t, LlvmType)
      C == RefStepsOfType(t, RustcType)
  IN /\ \A j \in L : \E i \in C : R[i, j]
     /\ \A i, j \in L : i # j => ~R[i, j]
     /\ \A i, j \in C : i # j => ~R[i, j]

-----------------------------------------------------------------------------
(* Properties                                                              *)

\* Only positive durations become timer leaves (add_duration is called
\* under `if ... > 0`).
TypeOK ==
  /\ file \in {"missing", "no_invocations", "present"}
  /\ outcome \in {"pending", "recorded", "raised"}
  /\ \E names \in SUBSET {"LLVM", "Rustc"} : leaves \in [names -> Nat \ {0}]

\* parse() and find_all_by_type() agree with the non-recursive definitions:
\* every step reached through steps is found under its type, and its
\* parsed duration is the own time of everything below it that is a step.
ParseMatchesReference ==
  file = "present" /\ ~HasNoneChild(tree) =>
    \A ty \in {LlvmType, RustcType} :
      /\ StepsOfType(tree, ty) = RefStepsOfType(tree, ty)
      /\ \A i \in StepsOfType(tree, ty) : Duration(tree, i) = RefDuration(tree, i)

\* On a well-nested tree the two leaves split the time of the Rustc steps
\* exactly: nothing counted twice, nothing lost.
LeavesSplitRustcTime ==
  outcome = "recorded" /\ WellNested(tree) =>
    Leaf("LLVM") + Leaf("Rustc") = RefSum(tree, RustcType)

=============================================================================
