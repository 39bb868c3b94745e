---- MODULE AdapterWorkspace ----
(***************************************************************************)
(* The workspace that the runs of the external adapter runner share        *)
(* (external_adapter_runner.py).  A worker's own directory is empty, so    *)
(* effective_workspace_path gives every worker the project's workspace;    *)
(* path locks keep their allowed paths apart.  When a run ends, the runner *)
(* puts the workspace back and replays the edits it accepts.  Everything   *)
(* after communicate() is synchronous, so the end of a run is one step.    *)
(***************************************************************************)
EXTENDS Naturals, FiniteSets

CONSTANTS Runs, Paths,
          Allowed,     \* Allowed[r]: the task's allowed paths; {} for a manager turn
          Forbidden,   \* Forbidden[r]: its forbidden paths
          Tests,       \* paths that look like tests
          Board,       \* mission-control artifacts the server writes
          Tracked,     \* paths of HEAD
          MaxEdits     \* bound: edits of one payload

ASSUME WorkspaceConstants ==
    /\ Allowed \in [Runs -> SUBSET Paths] /\ Forbidden \in [Runs -> SUBSET Paths]
    /\ Tests \subseteq Paths /\ Board \subseteq Paths \ Tracked /\ Tracked \subseteq Paths
    /\ \A r, s \in Runs : r # s => Allowed[r] \cap Allowed[s] = {}   \* path locks

(* What a file holds: nothing (absent), what HEAD has, the text a process  *)
(* wrote, the text of an accepted edit, or a text no edit check lets in (a *)
(* placeholder, a syntax error, a renamed definition).                     *)
New == {"draft", "edit", "stub"}
Content == {"none", "head"} \union New
AtHead == [p \in Paths |-> IF p \in Tracked THEN "head" ELSE "none"]

VARIABLES repo,      \* the workspace is a git repository
          disk,      \* [Paths -> Content]
          phase,     \* [Runs -> {"idle", "running", "ended"}]
          protected, \* protected[r]: the dirty test files when r started
          base,      \* base[r]: scoped_workspace_baseline; "none" if not captured
          report     \* report[r]: status and files_changed
adapterVars == <<repo, disk, phase, protected, base, report>>

Scope(r) == Allowed[r] \union protected[r]
NoReport == [status |-> "none", files |-> {}]

(***************************************************************************)
(* _start_process: protected paths are the dirty test files of git status; *)
(* the baseline is captured only for a task that has allowed paths.        *)
(***************************************************************************)
Dirty == IF repo THEN {p \in Paths : disk[p] # AtHead[p]} ELSE {}
EverythingCaptured(r) ==                       \* slip: no scope
    [p \in Paths |-> IF Allowed[r] # {} THEN disk[p] ELSE "none"]
Captured(r) ==
    LET scope == Allowed[r] \union (Dirty \cap Tests)
    IN [p \in Paths |-> IF Allowed[r] # {} /\ p \in scope THEN disk[p] ELSE "none"]

Start(r) ==
    /\ phase[r] # "running"
    /\ phase' = [phase EXCEPT ![r] = "running"]
    /\ protected' = [protected EXCEPT ![r] = Dirty \cap Tests]
    /\ base' = [base EXCEPT ![r] = Captured(r)]
    /\ report' = [report EXCEPT ![r] = NoReport]
    /\ UNCHANGED <<repo, disk>>

(* The adapter process edits the workspace as it likes.                    *)
Scribble(r, p, text) ==
    /\ phase[r] = "running"
    /\ disk' = [disk EXCEPT ![p] = text]
    /\ UNCHANGED <<repo, phase, protected, base, report>>

(* The server saves the task board into the workspace.                     *)
WriteBoard ==
    /\ disk' = [p \in Paths |-> IF p \in Board THEN "draft" ELSE disk[p]]
    /\ UNCHANGED <<repo, phase, protected, base, report>>

(***************************************************************************)
(* _synthesize_scoped_workspace_edits: the changes within the scope; those *)
(* of a protected path and deletions are issues instead.                   *)
(***************************************************************************)
Changed(r) == {p \in Scope(r) : disk[p] # base[r][p]}
Recoverable(r) == {p \in Changed(r) \ protected[r] : disk[p] # "none"}
Synthesized(r) == [p \in Recoverable(r) |-> disk[p]]

(***************************************************************************)
(* _restore_scoped_workspace_baseline: outside the scope back to HEAD, in  *)
(* the scope back to the baseline (what it lacks is deleted).  An empty    *)
(* scope allows every path and holds no file.                              *)
(***************************************************************************)
UntrackedStay(r, d) ==                         \* slip: git restore alone
    [p \in Paths |-> IF Scope(r) = {} THEN d[p]
                     ELSE IF p \in Scope(r) THEN base[r][p]
                     ELSE IF repo /\ p \in Tracked THEN AtHead[p] ELSE d[p]]
AllowedOnly(r, d) ==                           \* slip: protected paths left out
    [p \in Paths |-> IF Allowed[r] = {} THEN d[p]
                     ELSE IF p \in Allowed[r] THEN base[r][p]
                     ELSE IF repo THEN AtHead[p] ELSE d[p]]
Restored(r, d) ==
    [p \in Paths |-> IF Scope(r) = {} THEN d[p]
                     ELSE IF p \in Scope(r) THEN base[r][p]
                     ELSE IF repo THEN AtHead[p] ELSE d[p]]

(***************************************************************************)
(* _apply_adapter_edits: each edit on its own, checked against its path    *)
(* and against the text it would replace.                                  *)
(***************************************************************************)
Admits(r, p) ==
    /\ p \notin protected[r] \union Forbidden[r]
    /\ Allowed[r] = {} \/ p \in Allowed[r]
NoOpsToo(r, d, edits) ==                       \* slip: no look at the old text
    {p \in DOMAIN edits : Admits(r, p) /\ edits[p] # "stub"}
Applied(r, d, edits) ==
    {p \in DOMAIN edits : Admits(r, p) /\ edits[p] \notin {"stub", d[p]}}
Apply(r, d, edits) ==
    [p \in Paths |-> IF p \in Applied(r, d, edits) THEN edits[p] ELSE d[p]]
Issue(r, d, edits) == Applied(r, d, edits) # DOMAIN edits

(***************************************************************************)
(* _consume_process, when the output is a report: synthesize, restore,     *)
(* apply; fall back on the synthesized edits when none of the adapter's    *)
(* was applied; replay them when they were applied but the files differ.   *)
(* An issue turns a done report into one that needs review.                *)
(***************************************************************************)
Outcome(r, edits, enforced) ==
    LET synth == Synthesized(r)
        clean == Restored(r, disk)
        effective == IF edits # <<>> THEN edits ELSE synth
        first == Apply(r, clean, effective)
        firstApplied == Applied(r, clean, effective)
        fallback == edits # <<>> /\ firstApplied = {} /\ synth # <<>>
        second == IF fallback THEN Apply(r, first, synth) ELSE first
        applied == IF fallback THEN Applied(r, first, synth) ELSE firstApplied
        used == fallback /\ applied # {}
        drift == /\ edits # <<>> /\ synth # <<>> /\ applied # {} /\ ~used
                 /\ applied = DOMAIN synth /\ ~enforced
                 /\ \E p \in DOMAIN synth : second[p] # synth[p]
        again == Restored(r, second)
        discarded == {p \in Paths \ Board : disk[p] # clean[p]}
    IN [disk |-> IF drift THEN Apply(r, again, synth) ELSE second,
        files |-> applied,
        effective |-> effective,
        issue |-> \/ Changed(r) # Recoverable(r)
                  \/ IF used THEN Issue(r, first, synth) ELSE Issue(r, clean, effective)
                  \/ drift /\ Issue(r, again, synth)
                  \/ discarded # {} /\ effective = <<>>]

Finish(r, edits, claims, status, enforced) ==
    /\ phase[r] = "running"
    /\ LET o == Outcome(r, edits, enforced)
       IN /\ disk' = o.disk
          /\ report' = [report EXCEPT ![r] =
               [status |-> IF o.issue THEN "needs_review" ELSE status,
                files |-> IF o.files # {} \/ o.effective # <<>> \/ o.issue
                          THEN o.files ELSE claims]]
    /\ phase' = [phase EXCEPT ![r] = "ended"]
    /\ base' = [base EXCEPT ![r] = [p \in Paths |-> "none"]]
    /\ UNCHANGED <<repo, protected>>

(* Output that is no report, and a run past its time limit, leave the      *)
(* workspace as the process left it.                                       *)
Leave(r) ==
    /\ phase[r] = "running"
    /\ phase' = [phase EXCEPT ![r] = "ended"]
    /\ base' = [base EXCEPT ![r] = [p \in Paths |-> "none"]]
    /\ UNCHANGED <<repo, disk, protected, report>>

AdapterInit ==
    /\ repo \in BOOLEAN
    /\ disk = AtHead
    /\ phase = [r \in Runs |-> "idle"]
    /\ protected = [r \in Runs |-> {}]
    /\ base = [r \in Runs |-> [p \in Paths |-> "none"]]
    /\ report = [r \in Runs |-> NoReport]

(* The edits of a payload, and the files it claims, which count only when  *)
(* it has no edits.                                                        *)
Edits == UNION {[ps -> {"edit", "stub"}] : ps \in {q \in SUBSET Paths : Cardinality(q) <= MaxEdits}}
Claims(r, edits) == IF edits = <<>> THEN {{}, Allowed[r]} ELSE {{}}
AdapterNext ==
    \/ WriteBoard
    \/ \E r \in Runs :
         \/ Start(r) \/ Leave(r)
         \/ \E p \in Paths, text \in {"none", "draft", "stub"} : Scribble(r, p, text)
         \/ \E edits \in Edits, status \in {"done", "blocked"}, enforced \in BOOLEAN :
              \E claims \in Claims(r, edits) : Finish(r, edits, claims, status, enforced)
AdapterSpec == AdapterInit /\ [][AdapterNext]_adapterVars

(***************************************************************************)
(* Properties.                                                             *)
(***************************************************************************)
AdapterTypeOK ==
    /\ repo \in BOOLEAN /\ disk \in [Paths -> Content]
    /\ phase \in [Runs -> {"idle", "running", "ended"}]
    /\ protected \in [Runs -> SUBSET Tests]
    /\ base \in [Runs -> [Paths -> Content]]
    /\ report \in [Runs -> [status : {"none", "done", "blocked", "needs_review"},
                           files : SUBSET Paths]]
    /\ \A r \in Runs :
         phase[r] = "running" => \A p \in Paths \ Scope(r) : base[r][p] = "none"

(* The step that reports on run r. *)
Reports(r) == phase[r] = "running" /\ report'[r].status # "none"

(* A report that stays done tells the truth about the run's own paths: the *)
(* files it names hold something else than when the run began, and every   *)
(* other path of its scope is as it was.  An edit may be rejected, lost in *)
(* the fallback or replayed on the way there.                              *)
DoneIsFaithful ==
    [][\A r \in Runs : Reports(r) /\ report'[r].status = "done" /\ Changed(r) # {} =>
         /\ report'[r].files \subseteq Scope(r)
         /\ \A p \in Scope(r) :
              (disk'[p] # base[r][p]) <=> (p \in report'[r].files)]_adapterVars

(* In a repository, nothing a run changed outside its scope is left when   *)
(* it reports, new files included.                                         *)
OutOfScopeIsDiscarded ==
    [][\A r \in Runs : Reports(r) /\ repo /\ Allowed[r] # {} =>
         \A p \in Paths \ Scope(r) : disk'[p] = AtHead[p]]_adapterVars

(* A task's run gives the tests that were dirty when it began back as they *)
(* were, whether it edits them itself or sends edits for them.             *)
ProtectedAreKept ==
    [][\A r \in Runs : Reports(r) /\ Allowed[r] # {} =>
         \A p \in protected[r] : disk'[p] = base[r][p]]_adapterVars

(* Violated: path ownership is said to keep worker edits safe, but a run   *)
(* that reports resets the paths of every other worker to HEAD.            *)
OtherWorkersEditsSurvive ==
    [][\A r, s \in Runs : r # s /\ Reports(r) =>
         \A p \in Allowed[s] : disk'[p] = disk[p]]_adapterVars

(* Violated: a test asserts that protected files are given back as they    *)
(* were.  A manager turn has no allowed paths, so no baseline is captured, *)
(* and the protected files, without a baseline, are deleted.               *)
ProtectedSurviveTurns ==
    [][\A r \in Runs : Reports(r) /\ Allowed[r] = {} =>
         \A p \in protected[r] : disk'[p] # "none" \/ disk[p] = "none"]_adapterVars
====
