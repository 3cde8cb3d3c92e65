-------------------------------- MODULE Timer --------------------------------
(***************************************************************************)
(* The hierarchical Timer of src/ci/stage-build.py, used the way the build *)
(* driver uses it: sections are opened on the innermost open timer (the    *)
(* `as` target of the enclosing `with`), record_metrics adds duration      *)
(* leaves to the innermost section, every section ends through its        *)
(* finally clause, and run()'s finally prints the table once.              *)
(*                                                                         *)
(* Timers are numbered; 0 is the root Timer() created by run().  The clock *)
(* is time.time() in whole ticks; it may be stepped back (NTP), at most    *)
(* MaxSkew times.                                                          *)
(***************************************************************************)
EXTENDS Integers, Sequences, SequencesExt, FiniteSets, FiniteSetsExt

CONSTANTS
  MaxTimers,  \* child timers created in a run (sections and leaves)
  MaxTime,    \* last clock value
  MaxSkew,    \* backward steps of the clock
  Leaves      \* durations record_metrics may add

ASSUME MaxTimers \in Nat /\ MaxTime \in Nat /\ MaxSkew \in Nat
ASSUME Leaves \subseteq Nat \ {0}

VARIABLES
  now,      \* the value time.time() returns
  skews,    \* backward clock steps so far
  timers,   \* timers created so far
  parent,   \* the timer whose children list holds (or will hold) a timer
  start,    \* `start` of the section that created a timer
  dur,      \* duration_excluding_children
  children, \* children, in add_child order
  active,   \* timers whose section_active is set
  stack,    \* open section timers, outermost first
  stats     \* "none" before print_stats, then "printed" or "raised"

vars == <<now, skews, timers, parent, start, dur, children, active, stack, stats>>

Ids == 0..MaxTimers
Root == 0

\* The timer the client holds: the innermost open section, or the root.
Innermost == IF stack = <<>> THEN Root ELSE Last(stack)

NextTimer == Cardinality(timers)

\* Timer.total_duration(): own time plus the children's totals.
RECURSIVE TotalDuration(_)
TotalDuration(t) ==
  dur[t] + MapThenSumSet(LAMBDA i : TotalDuration(children[t][i]),
                         DOMAIN children[t])

\* Mutant: the section subtracts its parent's total instead of its own.
ExitSectionParentTotal ==
  /\ stack # <<>>
  /\ stats = "none"
  /\ LET c == Last(stack) IN
     LET p == parent[c] IN
     /\ dur' = [dur EXCEPT ![c] = (now - start[c]) - TotalDuration(p)]
     /\ children' = [children EXCEPT ![p] = Append(@, c)]
     /\ active' = active \ {p}
  /\ stack' = Front(stack)
  /\ UNCHANGED <<now, skews, timers, parent, start, stats>>

\* The finally clause of Timer.section: the duration so far, minus what the
\* children account for, becomes the child's own time; the child is added
\* to its parent and the parent's section_active is cleared.  The same code
\* runs whether the body returned or raised.
ExitSection ==
  /\ stack # <<>>
  /\ stats = "none"
  /\ LET c == Last(stack) IN
     LET p == parent[c] IN
     /\ dur' = [dur EXCEPT ![c] = (now - start[c]) - TotalDuration(c)]
     /\ children' = [children EXCEPT ![p] = Append(@, c)]
     /\ active' = active \ {p}
  /\ stack' = Front(stack)
  /\ UNCHANGED <<now, skews, timers, parent, start, stats>>

\* Timer.section(name) entered: assert not section_active, set it, take
\* the start time and create the child timer (not yet a child).
EnterSection ==
  /\ stats = "none"
  /\ NextTimer <= MaxTimers
  /\ Innermost \notin active
  /\ LET c == NextTimer IN
     /\ timers' = timers \cup {c}
     /\ parent' = [parent EXCEPT ![c] = Innermost]
     /\ start' = [start EXCEPT ![c] = now]
     /\ dur' = [dur EXCEPT ![c] = 0]
     /\ active' = active \cup {Innermost}
     /\ stack' = Append(stack, c)
  /\ UNCHANGED <<now, skews, children, stats>>

\* Timer.add_duration(name, d) for each d of ds in turn, on the timer the
\* client holds: a leaf timer with d as its own time, added at once.  The
\* clock is the caller's.
AddDurations(ds) ==
  /\ stats = "none"
  /\ NextTimer + Len(ds) - 1 <= MaxTimers
  /\ LET t == Innermost
         leaf(i) == NextTimer + i - 1
         new == {leaf(i) : i \in DOMAIN ds}
     IN /\ timers' = timers \cup new
        /\ parent' = [x \in Ids |-> IF x \in new THEN t ELSE parent[x]]
        /\ dur' = [x \in Ids |-> IF x \in new THEN ds[x - NextTimer + 1] ELSE dur[x]]
        /\ children' = [children EXCEPT ![t] = @ \o [i \in DOMAIN ds |-> leaf(i)]]
  /\ UNCHANGED <<skews, start, active, stack, stats>>

\* get_timestamp() between two calls: time passes, or the wall clock is
\* set back.
Tick ==
  /\ stats = "none"
  /\ \/ now < MaxTime /\ now' = now + 1 /\ UNCHANGED skews
     \/ now > 0 /\ skews < MaxSkew /\ now' = now - 1 /\ skews' = skews + 1
  /\ UNCHANGED <<timers, parent, start, dur, children, active, stack, stats>>

\* Mutant: iterate_timers does not descend into the children.
IterateTimersTopOnly(t, level) ==
  <<[level |-> level, timer |-> t, total |-> TotalDuration(t)]>>

\* iterate_timers(timer, name, level): the timer's row, then its children's
\* rows depth-first.
RECURSIVE IterateTimers(_, _)
IterateTimers(t, level) ==
  <<[level |-> level, timer |-> t, total |-> TotalDuration(t)]>>
  \o FlattenSeq([i \in DOMAIN children[t] |-> IterateTimers(children[t][i], level + 1)])

Rows == FlattenSeq([i \in DOMAIN children[Root] |-> IterateTimers(children[Root][i], 0)])

\* print_stats() in run()'s finally, after every section has ended: the
\* percentage column divides each row's duration by the root's total.
PrintStats ==
  /\ stats = "none"
  /\ stack = <<>>
  /\ stats' = IF Rows # <<>> /\ TotalDuration(Root) = 0 THEN "raised" ELSE "printed"
  /\ UNCHANGED <<now, skews, timers, parent, start, dur, children, active, stack>>

Init ==
  /\ now = 0
  /\ skews = 0
  /\ timers = {Root}
  /\ parent = [t \in Ids |-> Root]
  /\ start = [t \in Ids |-> 0]
  /\ dur = [t \in Ids |-> 0]
  /\ children = [t \in Ids |-> <<>>]
  /\ active = {}
  /\ stack = <<>>
  /\ stats = "none"

\* Alone, the timer may be given any leaf of Leaves; Timing computes the
\* leaves with record_metrics instead.
Next ==
  \/ EnterSection \/ ExitSection \/ Tick \/ PrintStats
  \/ stack # <<>> /\ \E d \in Leaves : AddDurations(<<d>>) /\ UNCHANGED now

Spec == Init /\ [][Next]_vars

-----------------------------------------------------------------------------
(* Properties                                                              *)

\* Depth of a timer below the root, from the parent links alone.
RECURSIVE Depth(_)
Depth(t) == IF parent[t] = Root THEN 0 ELSE 1 + Depth(parent[t])

StatsRowsCoverTree ==
  stats # "none" =>
    LET R == Rows IN
    /\ Len(R) = Cardinality(timers) - 1
    /\ {R[i].timer : i \in DOMAIN R} = timers \ {Root}
    /\ \A i \in DOMAIN R :
         /\ R[i].level = Depth(R[i].timer)
         /\ parent[R[i].timer] # Root =>
              \E j \in 1..i-1 : R[j].timer = parent[R[i].timer]

=============================================================================
