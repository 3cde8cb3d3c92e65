------------------------------ MODULE Toolstate ------------------------------
(***************************************************************************)
(* src/tools/publish_toolstate.py, run once per commit that lands: it      *)
(* reads each OS's status line for the commit, walks the tools of          *)
(* _data/latest.json in file order, opens an issue when a tool stops       *)
(* building on an OS, and rewrites latest.json if anything changed.        *)
(* The script then posts the change message as a comment on the merged PR *)
(* (an HTTPError is re-raised).  latest.json is the only state kept from   *)
(* one run to the next, and it is published (committed and pushed by the  *)
(* caller, src/ci/publish_toolstate.sh, which is not in this repository)   *)
(* only when the script exits successfully.  The issue request may fail    *)
(* with an HTTP or I/O error, which is swallowed, or with another          *)
(* exception, which ends the run before anything is published.            *)
(*                                                                         *)
(* update_latest orders statuses by comparing their strings; the model     *)
(* takes the order Python's str < gives the three literals.               *)
(***************************************************************************)
EXTENDS Naturals, Sequences, SequencesExt

CONSTANTS
  Tools,    \* entries of latest.json
  MaxRuns   \* commits published

ASSUME MaxRuns \in Nat

VARIABLES
  latest,    \* _data/latest.json: tool -> statuses per OS and last commit
  work,      \* the copy update_latest changes in memory
  current,   \* read_current_status per OS: tool -> status, or "none"
  run,       \* commits published so far; a commit is named by its run
  idx,       \* position of the tool update_latest is at
  pc,        \* "idle", "tool", "issue", "write" or "comment"
  published, \* history: runs whose latest.json was published
  issues,    \* history: issues opened, [tool, run]
  attempts,  \* history: issue requests sent, <<tool, run>>
  regressed  \* history: tools latest.json recorded as newly broken, <<tool, run>>

vars == <<latest, work, current, run, idx, pc, published, issues,
          attempts, regressed>>

Statuses == {"build-fail", "test-fail", "test-pass"}
OSNames == <<"windows", "linux">>
OSes == {OSNames[i] : i \in DOMAIN OSNames}
ToolOrder == SetToSeq(Tools)
Tool == ToolOrder[idx]

\* Python's str < on the three statuses: "build-fail" < "test-fail" ('b' <
\* 't') and "test-fail" < "test-pass" ('f' < 'p' after "test-").
StrOrder == <<"build-fail", "test-fail", "test-pass">>

StatusLess(a, b) ==
  \E i, j \in DOMAIN StrOrder : i < j /\ StrOrder[i] = a /\ StrOrder[j] = b

Worse(new, old) == StatusLess(new, old)

\* read_current_status: the commit's line of history/<os>.tsv, or {} when
\* the commit is not there; a tool missing from the line is "none".
Reports == [OSes -> [Tools -> Statuses \cup {"none"}]]

\* s.get(tool, old): the reported status, or the one latest.json holds.
NewStatus(t, os) == IF current[os][t] = "none" THEN work[t][os] ELSE current[os][t]

\* Mutant: only the last OS of the loop decides whether to open an issue.
IssueForLastOs(t) ==
  LET os == OSNames[Len(OSNames)] IN
  Worse(NewStatus(t, os), work[t][os]) /\ NewStatus(t, os) = "build-fail"

\* create_issue_for_status: some OS went down to build-fail.
IssueFor(t) ==
  \E os \in OSes : Worse(NewStatus(t, os), work[t][os]) /\ NewStatus(t, os) = "build-fail"

Changed(t) == \E os \in OSes : NewStatus(t, os) # work[t][os]

\* anything_changed: some tool's entry was updated (statuses and commit).
AnythingChanged == \E t \in Tools : work[t] # latest[t]

-----------------------------------------------------------------------------

\* A commit lands: open latest.json and read both OSes' statuses.
StartRun ==
  /\ pc = "idle"
  /\ run < MaxRuns
  /\ run' = run + 1
  /\ current' \in Reports
  /\ work' = latest
  /\ idx' = 1
  /\ pc' = IF Tools = {} THEN "write" ELSE "tool"
  /\ UNCHANGED <<latest, published, issues, attempts, regressed>>

AfterTool == IF idx < Len(ToolOrder) THEN idx' = idx + 1 /\ pc' = "tool"
             ELSE pc' = "write" /\ UNCHANGED idx

\* One iteration of update_latest's loop: take each OS's new status, and
\* when it changed, this commit and its time; open an issue if one is due.
UpdateTool ==
  /\ pc = "tool"
  /\ LET t == Tool IN
     /\ work' = [work EXCEPT ![t] =
                   [os \in OSes |-> NewStatus(t, os)] @@
                   [commit |-> IF Changed(t) THEN run ELSE @.commit]]
     /\ IF IssueFor(t) THEN pc' = "issue" /\ UNCHANGED idx ELSE AfterTool
  /\ UNCHANGED <<latest, current, run, published, issues, attempts, regressed>>

\* issue(): the request is sent; it opens the issue or not, and an HTTP or
\* I/O error is printed and ignored, any other exception ends the run.
Issue ==
  /\ pc = "issue"
  /\ attempts' = attempts \cup {<<Tool, run>>}
  /\ \/ issues' = issues \cup {[tool |-> Tool, run |-> run]} /\ AfterTool
     \/ UNCHANGED issues /\ AfterTool
     \/ UNCHANGED <<issues, idx>> /\ pc' = "idle"
  /\ UNCHANGED <<latest, work, current, run, published, regressed>>

\* update_latest's end: return '' when nothing changed (the script exits
\* with nothing to publish), else rewrite latest.json and return the message,
\* which the script saves.
WriteLatest ==
  /\ pc = "write"
  /\ pc' = IF AnythingChanged THEN "comment" ELSE "idle"
  /\ UNCHANGED <<latest, work, current, run, idx, published, issues,
                 attempts, regressed>>

\* POST the message to <issues API>/<number>/comments, where number is -1
\* when the commit message does not match the bors pattern, and the request
\* then fails.  An HTTPError is re-raised and the run ends unpublished (as
\* does a dry run without a token); on success the script exits 0 and its
\* latest.json is published.
PostComment ==
  /\ pc = "comment"
  /\ \/ /\ latest' = work
        /\ published' = published \cup {run}
        /\ regressed' = regressed \cup
             {<<t, run>> : t \in {t \in Tools :
                \E os \in OSes : work[t][os] = "build-fail" /\ latest[t][os] # "build-fail"}}
     \/ UNCHANGED <<latest, published, regressed>>
  /\ pc' = "idle"
  /\ UNCHANGED <<work, current, run, idx, issues, attempts>>

Init ==
  /\ latest \in [Tools -> [windows : Statuses, linux : Statuses, commit : {0}]]
  /\ work = latest
  /\ current = [os \in OSes |-> [t \in Tools |-> "none"]]
  /\ run = 0
  /\ idx = 1
  /\ pc = "idle"
  /\ published = {}
  /\ issues = {}
  /\ attempts = {}
  /\ regressed = {}

Next == StartRun \/ UpdateTool \/ Issue \/ WriteLatest \/ PostComment

Spec == Init /\ [][Next]_vars

-----------------------------------------------------------------------------
(* Properties                                                              *)

\* A tool's build breakage gets one issue: a second issue for the same tool
\* is opened only after the run that opened the first, or a later one,
\* published latest.json, so that the second is about a new breakage.
NoDuplicateIssues ==
  \A i, j \in issues :
    i.tool = j.tool /\ i.run < j.run =>
      \E r \in published : i.run <= r /\ r < j.run

\* Every tool that latest.json records as newly broken on some OS had an
\* issue request sent in the run that recorded it.
RegressionsIssued == regressed \subseteq attempts

=============================================================================
