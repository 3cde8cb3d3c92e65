------------------------------ MODULE StageBuild ------------------------------
(***************************************************************************)
(* The multi-stage PGO/BOLT build driver, src/ci/stage-build.py: run() and *)
(* execute_build_pipeline() as a program of code blocks, interpreted one   *)
(* statement per step, with the state those statements touch:              *)
(*   - the build directory, which survives the process: the compiler and   *)
(*     the LLVM that rustbuild left there, and /tmp/prof.fdata.* fragments; *)
(*   - the opt-artifacts directory (raw and merged profiles), which every  *)
(*     invocation wipes first;                                             *)
(*   - the hierarchical Timer: the stack of open sections and the tree of  *)
(*     finished ones;                                                      *)
(*   - dist_build_args, threaded through the stages.                       *)
(* Every external command may fail; the exception unwinds the open         *)
(* sections one finally-clause at a time and ends in run()'s finally.      *)
(* The script may be run again against the same build directory.          *)
(*                                                                         *)
(* A binary is a record [flavour, id, prof]: flavour is the PGO mode it    *)
(* was built with, id names the build, and prof is the set of ids of the   *)
(* instrumented binaries whose fragments made up the profile it used.      *)
(***************************************************************************)
EXTENDS Naturals, Sequences, SequencesExt

CONSTANTS
  Platforms,  \* sys.platform values create_pipeline() accepts
  MaxRuns     \* invocations of the script against one build directory

ASSUME Platforms \subseteq {"linux", "windows"} /\ Platforms # {}
ASSUME MaxRuns \in Nat \ {0}

VARIABLES
  pc,           \* index of the next statement of Program
  phase,        \* "running" until run()'s finally has executed, then "done"
  exc,          \* exception in flight: "none", "cmd", "metrics" or "assert"
  runNo,        \* which invocation of the script this is
  platform,     \* sys.platform of this machine
  tryBuild,     \* DIST_TRY_BUILD is set for this invocation
  distArgs,     \* dist_build_args (starts as sys.argv[1:], abstracted to <<>>)
  rustc,        \* the stage 0/1 compiler in build/<host>
  llvm,         \* build/<host>/llvm
  sysrootBolt,  \* BOLT mode of the LLVM copied into the stage-2 sysroot
  raw,          \* unmerged profile fragments on disk, per profile kind
  merged,       \* merged profile files in opt-artifacts, {} when absent
  nextId,       \* id of the next binary rustbuild produces
  instr,        \* history: id of this run's instrumented binary per kind
  open,         \* Timer: names of the sections currently open, outermost first
  recorded,     \* Timer: paths of the finished sections and duration leaves
  entered,      \* history: paths of every section entered in this run
  shipped,      \* history: the binaries the final dist build packaged
  statsPrinted, \* run()'s finally has printed the timer table
  optDir,       \* the opt-artifacts directory exists
  exitWith      \* how the process ended: "none" yet, "ok", or what it raised

vars == <<pc, phase, exc, runNo, platform, tryBuild, distArgs, rustc, llvm,
          sysrootBolt, raw, merged, nextId, instr, open, recorded, entered,
          shipped, statsPrinted, optDir, exitWith>>
disk == <<rustc, llvm, sysrootBolt, raw, merged, nextId, optDir>>
timer == <<open, recorded, entered>>

Kinds == {"rustc", "llvm", "bolt"}
Flavours == {"absent", "plain", "gen", "use"}
\* Each successful build mints at most two ids and a run has at most five
\* builds, so ids stay below MaxId.
MaxId == 10 * MaxRuns
NoArtifact == [flavour |-> "absent", id |-> 0, prof |-> {}]
NoBolt == [mode |-> "none", prof |-> {}]
NoShipment == [rustc |-> NoArtifact, llvm |-> NoArtifact, bolt |-> NoBolt]

-----------------------------------------------------------------------------
(* Pipeline: the platform capability the stages depend on.                 *)

SupportsBolt(p) == p = "linux"

-----------------------------------------------------------------------------
(* The program.  Each block is the statement list of the lines it maps to. *)

Section(name) == [op |-> "section", when |-> "always", name |-> name]
End == [op |-> "end", when |-> "always"]
Do(op) == [op |-> op, when |-> "always"]
Args(a) == [op |-> "args", when |-> "always", args |-> a]
Build(rust, llvmMode, bolt, keep) ==
  [op |-> "build", when |-> "always", rust |-> rust, llvm |-> llvmMode,
   bolt |-> bolt, keep |-> keep]
When(cond, block) == [i \in DOMAIN block |-> [block[i] EXCEPT !.when = cond]]

KeepStages == <<"--keep-stage", "0", "--keep-stage", "1">>
TryExcluded == <<"rust-docs", "rustc-docs", "rust-docs-json", "rust-analyzer",
                 "rustc-src", "clippy", "miri", "rustfmt">>
\* Mutant: each exclusion is appended as one "--exclude <target>" argument.
ExcludeArgsJoined == [i \in 1..Len(TryExcluded) |-> "--exclude " \o TryExcluded[i]]
ExcludeArgs == [i \in 1..2 * Len(TryExcluded) |->
                  IF i % 2 = 1 THEN "--exclude" ELSE TryExcluded[i \div 2]]

RunExcludes == When("try_build", <<Args(ExcludeArgs)>>)
Prepare == <<Do("prepare")>>
Stage1Instrument ==
  <<Section("Stage 1 (rustc PGO)"),
    Section("Build PGO instrumented rustc and LLVM"),
    Build("gen", "plain", "none", FALSE), Do("metrics"), End>>
Stage1Gather == <<Section("Gather profiles"), Do("gather_rustc"), End>>
Stage1Optimize ==
  <<Section("Build PGO optimized rustc"),
    Build("use", "plain", "none", FALSE), Do("metrics"), End,
    Args(<<"--rust-profile-use", "rustc-pgo.profdata">>), End>>
\* Mutant: the instrumented LLVM build forgets --keep-stage 0/1.
Stage2InstrumentNoKeep ==
  <<Section("Stage 2 (LLVM PGO)"), Do("clear_llvm"),
    Section("Build PGO instrumented LLVM"),
    Build("plain", "gen", "none", FALSE), Do("metrics"), End>>
Stage2Instrument ==
  <<Section("Stage 2 (LLVM PGO)"), Do("clear_llvm"),
    Section("Build PGO instrumented LLVM"),
    Build("plain", "gen", "none", TRUE), Do("metrics"), End>>
\* Mutant: the PGO-instrumented LLVM is not cleared at the end of Stage 2.
Stage2GatherNoClear ==
  <<Section("Gather profiles"), Do("gather_llvm"), End,
    Args(<<"--llvm-profile-use", "llvm-pgo.profdata">>), End>>
Stage2Gather ==
  <<Section("Gather profiles"), Do("gather_llvm"), End,
    Args(<<"--llvm-profile-use", "llvm-pgo.profdata">>),
    Do("clear_llvm"), End>>
\* Mutant: Stage 3 never adds the BOLT profile to dist_build_args.
Stage3NoUseArg == When("supports_bolt",
  <<Section("Stage 3 (LLVM BOLT)"),
    Section("Build BOLT instrumented LLVM"),
    Build("plain", "use", "gen", TRUE), Do("metrics"), End,
    Section("Gather profiles"), Do("gather_bolt"), End, End>>)
\* Mutant: Stage 3 runs whatever the pipeline supports.
Stage3Unconditional ==
  <<Section("Stage 3 (LLVM BOLT)"),
    Section("Build BOLT instrumented LLVM"),
    Build("plain", "use", "gen", TRUE), Do("metrics"), End,
    Section("Gather profiles"), Do("gather_bolt"), End,
    Args(<<"--llvm-bolt-profile-use", "bolt.profdata">>), End>>
Stage3 == When("supports_bolt",
  <<Section("Stage 3 (LLVM BOLT)"),
    Section("Build BOLT instrumented LLVM"),
    Build("plain", "use", "gen", TRUE), Do("metrics"), End,
    Section("Gather profiles"), Do("gather_bolt"), End,
    Args(<<"--llvm-bolt-profile-use", "bolt.profdata">>), End>>)
FinalStage ==
  <<Args(KeepStages),
    Section("Final stage (dist build)"), Do("dist"), Do("metrics"), End>>
TestStage == When("not_try_build",
  <<Section("Run tests"), Do("tests"), End>>)

Program == RunExcludes \o Prepare \o Stage1Instrument \o Stage1Gather
           \o Stage1Optimize \o Stage2Instrument \o Stage2Gather \o Stage3
           \o FinalStage \o TestStage

Current == Program[pc]

Applies(ins) ==
  \/ ins.when = "always"
  \/ ins.when = "try_build" /\ tryBuild
  \/ ins.when = "not_try_build" /\ ~tryBuild
  \/ ins.when = "supports_bolt" /\ SupportsBolt(platform)

\* The next statement is an `op` that executes (no exception in flight).
Ready(op) ==
  /\ phase = "running"
  /\ exc = "none"
  /\ pc <= Len(Program)
  /\ Current.op = op
  /\ Applies(Current)

\* The statement raises: the exception starts unwinding at pc.
Fail(cause) == exc' = cause /\ UNCHANGED pc

-----------------------------------------------------------------------------
(* The external build system, as the driver relies on it: rustbuild        *)
(* rebuilds the compiler when its profile flags change unless the stage is *)
(* kept, never rebuilds an existing LLVM (clear_llvm_files' docstring), and *)
(* applies BOLT to the LLVM copy in the sysroot on every build.            *)

ProfileFor(k, mode) == IF mode = "use" THEN merged[k] ELSE {}

RustcAfter(b) ==
  IF ~b.keep /\ rustc.flavour # b.rust
  THEN [flavour |-> b.rust, id |-> nextId, prof |-> ProfileFor("rustc", b.rust)]
  ELSE rustc

LlvmAfter(b) ==
  IF llvm.flavour = "absent"
  THEN [flavour |-> b.llvm, id |-> nextId + 1, prof |-> ProfileFor("llvm", b.llvm)]
  ELSE llvm

BoltAfter(b) == [mode |-> b.bolt, prof |-> ProfileFor("bolt", b.bolt)]

\* Every profile a rebuilt binary is to use exists.
ProfilesPresent(b) ==
  /\ RustcAfter(b) # rustc /\ b.rust = "use" => merged["rustc"] # {}
  /\ LlvmAfter(b) # llvm /\ b.llvm = "use" => merged["llvm"] # {}
  /\ b.bolt = "use" => merged["bolt"] # {}

\* A build that succeeds: the artifacts it leaves, and which of them are
\* this run's instrumented binaries.
Built(b) ==
  /\ ProfilesPresent(b)
  /\ rustc' = RustcAfter(b)
  /\ llvm' = LlvmAfter(b)
  /\ sysrootBolt' = BoltAfter(b)
  /\ nextId' = nextId + 2
  /\ instr' = [instr EXCEPT !["rustc"] = IF b.rust = "gen" THEN rustc'.id ELSE @,
                            !["llvm"] = IF b.llvm = "gen" THEN llvm'.id ELSE @,
                            !["bolt"] = IF b.bolt = "gen" THEN llvm'.id ELSE @]

\* A build that fails may already have rebuilt LLVM, which rustbuild builds
\* before the compiler that links it.
BuildFailed(b) ==
  /\ Fail("cmd")
  /\ llvm' \in {llvm, LlvmAfter(b)}
  /\ nextId' = nextId + 2
  /\ UNCHANGED <<rustc, sysrootBolt, instr>>

\* The dist build's flags, read from dist_build_args.
HasArg(a) == a \in Range(distArgs)
DistFlags ==
  [rust |-> IF HasArg("--rust-profile-use") THEN "use" ELSE "plain",
   llvm |-> IF HasArg("--llvm-profile-use") THEN "use" ELSE "plain",
   bolt |-> IF HasArg("--llvm-bolt-profile-use") THEN "use"
            ELSE IF HasArg("--llvm-bolt-profile-generate") THEN "gen" ELSE "none",
   keep |-> HasArg("--keep-stage")]

-----------------------------------------------------------------------------
(* Benchmark runner: fragments written while the collector runs the stage-2 *)
(* compiler.  An instrumented rustc or LLVM writes to LLVM_PROFILE_FILE when *)
(* it is set (run_rustc) and to the directory baked in at build time        *)
(* otherwise; a BOLT-instrumented LLVM writes /tmp/prof.fdata.<pid>.       *)

Fragments(profileFileSet) ==
  LET rustcFrag == IF rustc.flavour = "gen" THEN {rustc.id} ELSE {}
      llvmFrag == IF llvm.flavour = "gen" THEN {llvm.id} ELSE {}
      boltFrag == IF sysrootBolt.mode = "gen" THEN {llvm.id} ELSE {}
  IN IF profileFileSet
     THEN [raw EXCEPT !["rustc"] = @ \cup rustcFrag \cup llvmFrag,
                      !["bolt"] = @ \cup boltFrag]
     ELSE [raw EXCEPT !["rustc"] = @ \cup rustcFrag,
                      !["llvm"] = @ \cup llvmFrag,
                      !["bolt"] = @ \cup boltFrag]

\* gather_*_profiles: run the benchmarks, merge the fragments of kind k
\* with a merge tool that must exist, and delete them if `delete`.
Gather(k, profileFileSet, toolPresent, delete) ==
  LET frags == Fragments(profileFileSet) IN
  /\ \/ /\ toolPresent
        /\ frags[k] # {}
        /\ merged' = [merged EXCEPT ![k] = frags[k]]
        /\ raw' = IF delete THEN [frags EXCEPT ![k] = {}] ELSE frags
        /\ pc' = pc + 1
        /\ UNCHANGED exc
     \/ /\ Fail("cmd")
        /\ raw' \in {raw, frags}
        /\ UNCHANGED merged
  /\ UNCHANGED <<rustc, llvm, sysrootBolt, nextId, instr, optDir>>

-----------------------------------------------------------------------------
(* Actions: one per kind of statement, plus the exception path.            *)

RunUnchanged ==
  UNCHANGED <<phase, runNo, platform, tryBuild, shipped, statsPrinted, exitWith>>

\* A statement whose `if` does not hold is passed over.
SkipStatement ==
  /\ phase = "running"
  /\ exc = "none"
  /\ pc <= Len(Program)
  /\ ~Applies(Current)
  /\ pc' = pc + 1
  /\ UNCHANGED <<exc, distArgs, instr>> /\ UNCHANGED disk /\ UNCHANGED timer
  /\ RunUnchanged

\* build_args.extend([...]) in run(); dist_build_args += [...]
AppendArgs ==
  /\ Ready("args")
  /\ distArgs' = distArgs \o Current.args
  /\ pc' = pc + 1
  /\ UNCHANGED <<exc, instr>> /\ UNCHANGED disk /\ UNCHANGED timer
  /\ RunUnchanged

\* Mutant: opt-artifacts is not wiped before the run.
PrepareKeepsOptArtifacts ==
  /\ Ready("prepare")
  /\ \/ pc' = pc + 1 /\ UNCHANGED exc
     \/ Fail("cmd")
  /\ UNCHANGED <<distArgs, instr>> /\ UNCHANGED disk
  /\ UNCHANGED timer /\ RunUnchanged

\* The kinds whose raw fragments lie under opt_artifacts: rustc-pgo and
\* llvm-pgo (rustc_profile_dir_root, llvm_profile_dir_root).  The BOLT
\* fragments are /tmp/prof.fdata*, outside it; every merged profile is in it.
RawInOptArtifacts == {"rustc", "llvm"}

\* Wipe and recreate opt-artifacts, then pipeline.build_rustc_perf().
\* os.makedirs may raise, leaving no opt-artifacts; build_rustc_perf may
\* raise after it.
PrepareOptArtifacts ==
  /\ Ready("prepare")
  /\ raw' = [k \in Kinds |-> IF k \in RawInOptArtifacts THEN {} ELSE raw[k]]
  /\ merged' = [k \in Kinds |-> {}]
  /\ \/ pc' = pc + 1 /\ optDir' = TRUE /\ UNCHANGED exc
     \/ Fail("cmd") /\ optDir' \in BOOLEAN
  /\ UNCHANGED <<distArgs, instr, rustc, llvm, sysrootBolt, nextId>>
  /\ UNCHANGED timer /\ RunUnchanged

\* Timer.section(name): a child timer opens under the innermost open one.
EnterSection ==
  /\ Ready("section")
  /\ open' = Append(open, Current.name)
  /\ entered' = entered \cup {open'}
  /\ pc' = pc + 1
  /\ UNCHANGED <<exc, distArgs, instr, recorded>> /\ UNCHANGED disk
  /\ RunUnchanged

\* Leaving a `with ... section` normally: the finally clause adds the child.
ExitSection ==
  /\ Ready("end")
  /\ recorded' = recorded \cup {open}
  /\ open' = Front(open)
  /\ pc' = pc + 1
  /\ UNCHANGED <<exc, distArgs, instr, entered>> /\ UNCHANGED disk
  /\ RunUnchanged

\* bootstrap_build(pipeline, args, env): x.py build --stage 2 with flags.
BootstrapBuild ==
  /\ Ready("build")
  /\ \/ Built(Current) /\ pc' = pc + 1 /\ UNCHANGED exc
     \/ BuildFailed(Current)
  /\ UNCHANGED <<raw, merged, distArgs, optDir>> /\ UNCHANGED timer /\ RunUnchanged

\* record_metrics(pipeline, timer): load the last invocation of metrics.json
\* and add "LLVM" and "Rustc" duration leaves to the innermost section.  A
\* missing file, an empty `invocations` list or a top-level child that is not
\* a rustbuild_step raises.
RecordMetrics ==
  /\ Ready("metrics")
  /\ \/ /\ \E leaves \in SUBSET {"LLVM", "Rustc"} :
             recorded' = recorded \cup {Append(open, l) : l \in leaves}
        /\ pc' = pc + 1
        /\ UNCHANGED exc
     \/ Fail("metrics") /\ UNCHANGED recorded
  /\ UNCHANGED <<distArgs, instr, open, entered>> /\ UNCHANGED disk
  /\ RunUnchanged

\* gather_rustc_profiles: LLVM_PROFILE_FILE set, merged with the
\* llvm-profdata of build/<host>/llvm, fragments deleted.
GatherRustcProfiles ==
  /\ Ready("gather_rustc")
  /\ Gather("rustc", TRUE, llvm.flavour # "absent", TRUE)
  /\ UNCHANGED distArgs /\ UNCHANGED timer /\ RunUnchanged

\* gather_llvm_profiles: merged with the downloaded llvm-profdata,
\* fragments deleted.
GatherLlvmProfiles ==
  /\ Ready("gather_llvm")
  /\ Gather("llvm", FALSE, TRUE, TRUE)
  /\ UNCHANGED distArgs /\ UNCHANGED timer /\ RunUnchanged

\* gather_llvm_bolt_profiles: merge-fdata over glob("/tmp/prof.fdata*");
\* the fragments are left in place.
GatherLlvmBoltProfiles ==
  /\ Ready("gather_bolt")
  /\ Gather("bolt", FALSE, TRUE, FALSE)
  /\ UNCHANGED distArgs /\ UNCHANGED timer /\ RunUnchanged

\* clear_llvm_files: rmtree build/<host>/llvm (and lld).
ClearLlvmFiles ==
  /\ Ready("clear_llvm")
  /\ \/ /\ llvm.flavour # "absent"
        /\ llvm' = NoArtifact
        /\ pc' = pc + 1
        /\ UNCHANGED exc
     \/ Fail("cmd") /\ UNCHANGED llvm
  /\ UNCHANGED <<rustc, sysrootBolt, raw, merged, nextId, distArgs, instr, optDir>>
  /\ UNCHANGED timer /\ RunUnchanged

\* cmd(dist_build_args): the final dist build packages what it builds.
DistBuild ==
  /\ Ready("dist")
  /\ \/ /\ Built(DistFlags)
        /\ shipped' = [rustc |-> rustc', llvm |-> llvm', bolt |-> sysrootBolt']
        /\ pc' = pc + 1
        /\ UNCHANGED exc
     \/ BuildFailed(DistFlags) /\ UNCHANGED shipped
  /\ UNCHANGED <<raw, merged, distArgs, optDir>> /\ UNCHANGED timer
  /\ UNCHANGED <<phase, runNo, platform, tryBuild, statsPrinted, exitWith>>

\* run_tests: extract the dist archives, assert that llvm-config exists in
\* build/<host>/llvm, run x.py test --stage 0.
RunTests ==
  /\ Ready("tests")
  /\ \/ llvm.flavour # "absent" /\ pc' = pc + 1 /\ UNCHANGED exc
     \/ Fail(IF llvm.flavour = "absent" THEN "assert" ELSE "cmd")
  /\ UNCHANGED <<distArgs, instr>> /\ UNCHANGED disk /\ UNCHANGED timer
  /\ RunUnchanged

\* Mutant: the child is added only when the section ends normally.
SectionUnwindNoRecord ==
  /\ phase = "running"
  /\ exc # "none"
  /\ open # <<>>
  /\ open' = Front(open)
  /\ UNCHANGED <<pc, exc, distArgs, instr, entered, recorded>> /\ UNCHANGED disk
  /\ RunUnchanged

\* The finally clause of the innermost open section while an exception
\* propagates: the child is still added to its parent.
SectionUnwind ==
  /\ phase = "running"
  /\ exc # "none"
  /\ open # <<>>
  /\ recorded' = recorded \cup {open}
  /\ open' = Front(open)
  /\ UNCHANGED <<pc, exc, distArgs, instr, entered>> /\ UNCHANGED disk
  /\ RunUnchanged

\* print_free_disk_space: shutil.disk_usage(opt_artifacts) raises
\* FileNotFoundError when the directory does not exist.
FreeDiskSpaceRaises == ~optDir

\* Mutant: the except clause logs the failure and does not re-raise it.
RunFinallySwallows ==
  /\ phase = "running"
  /\ open = <<>>
  /\ exc # "none" \/ pc > Len(Program)
  /\ phase' = "done"
  /\ statsPrinted' = TRUE
  /\ exitWith' = IF FreeDiskSpaceRaises THEN "disk" ELSE "ok"
  /\ UNCHANGED <<pc, exc, runNo, platform, tryBuild, distArgs, instr, shipped>>
  /\ UNCHANGED disk /\ UNCHANGED timer

\* Mutant: the finally calls print_free_disk_space() before
\* timer.print_stats(), so a disk_usage error skips the table.
RunFinallyDiskFirst ==
  /\ phase = "running"
  /\ open = <<>>
  /\ exc # "none" \/ pc > Len(Program)
  /\ phase' = "done"
  /\ statsPrinted' = ~FreeDiskSpaceRaises
  /\ exitWith' = CASE FreeDiskSpaceRaises -> "disk"
                  [] exc # "none"      -> exc
                  [] OTHER             -> "ok"
  /\ UNCHANGED <<pc, exc, runNo, platform, tryBuild, distArgs, instr, shipped>>
  /\ UNCHANGED disk /\ UNCHANGED timer

\* run() after the pipeline returned or raised: the except clause re-raises;
\* the finally runs timer.print_stats() and print_free_disk_space(), whose
\* shutil.disk_usage raises FileNotFoundError, replacing any exception in
\* flight, when opt-artifacts does not exist; print_binary_sizes() (no
\* state) follows only when nothing raised.
RunFinally ==
  /\ phase = "running"
  /\ open = <<>>
  /\ exc # "none" \/ pc > Len(Program)
  /\ phase' = "done"
  /\ statsPrinted' = TRUE
  /\ exitWith' = CASE FreeDiskSpaceRaises -> "disk"
                  [] exc # "none"      -> exc
                  [] OTHER             -> "ok"
  /\ UNCHANGED <<pc, exc, runNo, platform, tryBuild, distArgs, instr, shipped>>
  /\ UNCHANGED disk /\ UNCHANGED timer

\* Mutant: the timer outlives the invocation (a module-level Timer).
RunResetKeepsTimer ==
  /\ pc' = 1
  /\ phase' = "running"
  /\ exc' = "none"
  /\ distArgs' = <<>>
  /\ instr' = [k \in Kinds |-> 0]
  /\ UNCHANGED <<open, recorded, entered>>
  /\ shipped' = NoShipment
  /\ statsPrinted' = FALSE
  /\ exitWith' = "none"

\* What a fresh process starts with: a new Timer and argument list.
RunReset ==
  /\ pc' = 1
  /\ phase' = "running"
  /\ exc' = "none"
  /\ distArgs' = <<>>
  /\ instr' = [k \in Kinds |-> 0]
  /\ open' = <<>>
  /\ recorded' = {}
  /\ entered' = {}
  /\ shipped' = NoShipment
  /\ statsPrinted' = FALSE
  /\ exitWith' = "none"

\* The script is invoked again on the same machine; the build directory and
\* /tmp keep what the previous invocation left.
Restart ==
  /\ phase = "done"
  /\ runNo < MaxRuns
  /\ runNo' = runNo + 1
  /\ tryBuild' \in BOOLEAN
  /\ RunReset
  /\ UNCHANGED platform /\ UNCHANGED disk

Init ==
  /\ runNo = 1
  /\ platform \in Platforms
  /\ tryBuild \in BOOLEAN
  /\ rustc = NoArtifact
  /\ llvm = NoArtifact
  /\ sysrootBolt = NoBolt
  /\ raw = [k \in Kinds |-> {}]
  /\ merged = [k \in Kinds |-> {}]
  /\ nextId = 1
  /\ pc = 1
  /\ phase = "running"
  /\ exc = "none"
  /\ distArgs = <<>>
  /\ instr = [k \in Kinds |-> 0]
  /\ open = <<>>
  /\ recorded = {}
  /\ entered = {}
  /\ shipped = NoShipment
  /\ statsPrinted = FALSE
  /\ optDir \in BOOLEAN
  /\ exitWith = "none"

RunStep ==
  \/ SkipStatement \/ AppendArgs \/ PrepareOptArtifacts
  \/ EnterSection \/ ExitSection \/ BootstrapBuild \/ RecordMetrics
  \/ GatherRustcProfiles \/ GatherLlvmProfiles \/ GatherLlvmBoltProfiles
  \/ ClearLlvmFiles \/ DistBuild \/ RunTests
  \/ SectionUnwind \/ RunFinally

Next == RunStep \/ Restart

\* One thread of control that blocks on each external command: while the
\* process runs it keeps taking steps (commands are assumed to terminate).
\* Whether anyone runs the script again is not up to the code.
Spec == Init /\ [][Next]_vars /\ WF_vars(RunStep)

-----------------------------------------------------------------------------
(* Properties                                                              *)

Artifacts == [flavour : Flavours, id : 0..MaxId, prof : SUBSET (0..MaxId)]
BoltModes == [mode : {"none", "gen", "use"}, prof : SUBSET (0..MaxId)]

\* The words the driver puts into dist_build_args.
ArgWords == {"--exclude", "--keep-stage", "0", "1",
             "--rust-profile-use", "rustc-pgo.profdata",
             "--llvm-profile-use", "llvm-pgo.profdata",
             "--llvm-bolt-profile-use", "bolt.profdata"} \cup Range(TryExcluded)

TypeOK ==
  /\ pc \in 1..Len(Program) + 1
  /\ phase \in {"running", "done"}
  /\ exc \in {"none", "cmd", "metrics", "assert"}
  /\ runNo \in 1..MaxRuns
  /\ platform \in Platforms
  /\ tryBuild \in BOOLEAN
  /\ distArgs \in Seq(ArgWords)
  /\ rustc \in Artifacts /\ llvm \in Artifacts
  /\ sysrootBolt \in BoltModes
  /\ raw \in [Kinds -> SUBSET (1..MaxId)]
  /\ merged \in [Kinds -> SUBSET (1..MaxId)]
  /\ nextId \in 1..MaxId + 1
  /\ instr \in [Kinds -> 0..MaxId]
  /\ open \in Seq(STRING)
  /\ shipped \in [rustc : Artifacts, llvm : Artifacts, bolt : BoltModes]
  /\ statsPrinted \in BOOLEAN
  /\ optDir \in BOOLEAN
  /\ exitWith \in {"none", "ok", "disk", "cmd", "metrics", "assert"}

\* The compiler the final dist build packages (kept from Stage 1 through
\* --keep-stage) was built with --rust-profile-use from a profile merged out
\* of fragments of exactly the instrumented rustc this invocation built.
ShippedRustcPgo ==
  shipped # NoShipment =>
    /\ shipped.rustc.flavour = "use"
    /\ shipped.rustc.prof = {instr["rustc"]}

\* The LLVM the final dist build packages was built with --llvm-profile-use
\* from a profile of exactly the PGO-instrumented LLVM of Stage 2 of this
\* invocation (clear_llvm_files must force every rebuild).
ShippedLlvmPgo ==
  shipped # NoShipment =>
    /\ shipped.llvm.flavour = "use"
    /\ shipped.llvm.prof = {instr["llvm"]}

\* Where the pipeline supports BOLT, the packaged LLVM is BOLT-optimised
\* with a profile of exactly this invocation's BOLT-instrumented LLVM;
\* elsewhere BOLT is not applied at all.
ShippedBoltProfile ==
  shipped # NoShipment =>
    IF SupportsBolt(platform)
    THEN shipped.bolt.mode = "use" /\ shipped.bolt.prof = {instr["bolt"]}
    ELSE shipped.bolt.mode = "none"

\* When run() prints the timer table, whatever raised and wherever, no
\* section is still open and every section entered, with its ancestors, is
\* in the tree (Timer.section records the child in its finally clause).
StatsCoverEnteredSections ==
  statsPrinted => open = <<>> /\ entered \subseteq recorded

\* Spec section 7: a malformed or missing metrics file means "no metrics",
\* never a failed build; only external commands end the pipeline.
MetricsNeverFatal == exc # "metrics"

\* The script exits with status 0 exactly when every statement of the
\* pipeline completed: a failure anywhere, including in run()'s finally,
\* reaches the caller as an exception (the print_free_disk_space hazard).
ExitStatusReflectsPipeline ==
  phase = "done" => (exitWith = "ok" <=> exc = "none" /\ pc > Len(Program))

\* Every invocation eventually prints its timing table, whatever fails.
DiagnosticsAlwaysEmitted == phase = "running" ~> statsPrinted

=============================================================================
