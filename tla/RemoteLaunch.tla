------------------------------ MODULE RemoteLaunch ------------------------------
(* Remote runs: a launch package in the workspace with its approval row in the   *)
(* database, and tasks dispatched under it. Packages are built in worker threads *)
(* of the HTTP server, in one transaction that commits after the files are       *)
(* written; a dispatch reads both twice and starts the process an await later.   *)
EXTENDS Approvals

CONSTANTS
  Target,         \* devices of the registry
  Command,        \* runner commands
  Task,
  Writing,        \* tasks expected to change files
  Builder,        \* worker threads that build packages
  None,
  ActOf,          \* what the risk classifier makes of a command
  MaxBuilds,      \* bound: packages built
  MaxSelections,  \* bound: changes of the selected target
  MaxCrashes      \* bound: restarts of the daemon

ASSUME RemoteAssumption ==
  /\ Writing \subseteq Task
  /\ None \notin Target \cup Builder
  /\ ActOf \in [Command -> Acts]
  /\ MaxBuilds \in Nat /\ MaxSelections \in Nat /\ MaxCrashes \in Nat

VARIABLES
  selected,       \* the target the registry and the policy select now
  package,        \* the launch package files
  builders,       \* requests that build packages
  lock,           \* who holds the write lock of the database
  dispatches,     \* what each task's dispatch has read
  launched,       \* processes started (history)
  written,        \* packages ever written (history)
  granted,        \* what a grant was stored for (history)
  builds, selections, crashes

remoteVars == <<selected, package, builders, lock, dispatches, launched, written,
                granted, builds, selections, crashes>>
allVars == <<approvalVars, remoteVars>>

Package == [target : Target, command : Command, dry : BOOLEAN, writes : BOOLEAN, ready : BOOLEAN]

(* Rows ask for the launch of a package.                                         *)
ASSUME LaunchAssumption == "launch" \in Class /\ Package \subseteq Wish

NoPackage == [target |-> None]

(* What a dispatch reads at a time: the selection, the files, the newest row.    *)
Snapshot == [target : Target \cup {None}, package : Package \cup {NoPackage},
             row : 0 .. MaxApprovals, status : Status \cup {"none"}]

Nothing == [target |-> None, package |-> NoPackage, row |-> 0, status |-> "none"]

Idle == [at |-> "idle"]

RemoteTypeOK ==
  /\ ApprovalTypeOK
  /\ selected \in Target \cup {None}
  /\ package \in Package \cup {NoPackage}
  /\ builders \in [Builder -> {Idle} \cup
                     [at : {"found", "flushed", "written"}, wants : Package,
                      row : 0 .. MaxApprovals, rows : Seq(Row)]]
  /\ lock \in Builder \cup {None}
  /\ dispatches \in [Task -> [at : {"idle", "seen", "asked", "done"}, first : Snapshot, second : Snapshot]]
  /\ launched \subseteq [task : Task, target : Target, command : Command, under : Package]
  /\ written \subseteq Package
  /\ granted \subseteq Wish
  /\ builds \in 0 .. MaxBuilds /\ selections \in 0 .. MaxSelections /\ crashes \in 0 .. MaxCrashes

Init ==
  /\ ApprovalInit
  /\ selected \in Target
  /\ package = NoPackage
  /\ builders = [b \in Builder |-> Idle]
  /\ lock = None
  /\ dispatches = [t \in Task |-> [at |-> "idle", first |-> Nothing, second |-> Nothing]]
  /\ launched = {} /\ written = {} /\ granted = {}
  /\ builds = 0 /\ selections = 0 /\ crashes = 0

Needed(p) == p.writes \/ ~ p.dry

-------------------------------------------------------------------------------
(* build_remote_execution_launch_package_plan: the pending row found, the        *)
(* changes flushed under the write lock, the files written, the commit.          *)
Pending(rows) == {i \in DOMAIN rows : rows[i].status = "pending"}

(* Mutant: the row after the newest one.                                         *)
RowAfter(is) == IF is = {} THEN 0 ELSE 1 + (CHOOSE i \in is : \A j \in is : j <= i)

NewestOf(is) == IF is = {} THEN 0 ELSE CHOOSE i \in is : \A j \in is : j <= i

BuildFind(b) ==
  /\ builders[b] = Idle
  /\ builds < MaxBuilds
  /\ selected # None
  /\ \E command \in Command, dry, writes, ready \in BOOLEAN :
       builders' = [builders EXCEPT ![b] =
         [at |-> "found",
          wants |-> [target |-> selected, command |-> command, dry |-> dry,
                     writes |-> writes, ready |-> ready],
          row |-> NewestOf(Pending(approvals)),
          rows |-> <<>>]]
  /\ builds' = builds + 1
  /\ UNCHANGED <<approvalVars, selected, package, lock, dispatches, launched, written, granted,
                 selections, crashes>>

(* A row that was found keeps its status column, unless the policy settles it.   *)
Refreshed(row, wants) ==
  LET new == NewRow("launch", wants, ActOf[wants.command])
  IN  IF new.status = "pending" THEN [new EXCEPT !.status = row.status, !.by = row.by] ELSE new

Expired(row) == [row EXCEPT !.status = "expired", !.by = "system"]

RowsAfter(b) ==
  LET wants == builders[b].wants
      i == builders[b].row
  IN  IF Needed(wants)
      THEN IF i = 0 THEN Append(approvals, NewRow("launch", wants, ActOf[wants.command]))
           ELSE [approvals EXCEPT ![i] = Refreshed(@, wants)]
      ELSE IF i = 0 THEN approvals ELSE [approvals EXCEPT ![i] = Expired(@)]

BuildFlush(b) ==
  /\ builders[b].at = "found"
  /\ lock = None
  /\ Len(RowsAfter(b)) <= MaxApprovals
  /\ builders' = [builders EXCEPT ![b].at = "flushed", ![b].rows = RowsAfter(b)]
  /\ lock' = IF RowsAfter(b) = approvals THEN None ELSE b
  /\ UNCHANGED <<approvalVars, selected, package, dispatches, launched, written, granted,
                 builds, selections, crashes>>

BuildWrite(b) ==
  /\ builders[b].at = "flushed"
  /\ package' = builders[b].wants
  /\ written' = written \cup {package'}
  /\ builders' = [builders EXCEPT ![b].at = "written"]
  /\ UNCHANGED <<approvalVars, selected, lock, dispatches, launched, granted,
                 builds, selections, crashes>>

GrantsIn(rows) == {rows[i].asks : i \in {j \in DOMAIN rows : rows[j].status \in Granting}}

BuildCommit(b) ==
  /\ builders[b].at = "written"
  /\ IF lock = b
     THEN approvals' = builders[b].rows /\ lock' = None
     ELSE UNCHANGED <<approvals, lock>>
  /\ granted' = granted \cup {w \in GrantsIn(approvals') :
                                \E i \in DOMAIN approvals' :
                                  approvals'[i].asks = w /\ approvals'[i].by = "policy"}
  /\ builders' = [builders EXCEPT ![b] = Idle]
  /\ UNCHANGED <<policy, policyChanges, answers, remembered, selected, package, dispatches,
                 launched, written, builds, selections, crashes>>

Build(b) == BuildFind(b) \/ BuildFlush(b) \/ BuildWrite(b) \/ BuildCommit(b)

-------------------------------------------------------------------------------
(* The users: answers, the policy, and the registry's selection.                 *)
Users ==
  /\ \/ \E i \in DOMAIN approvals, verdict \in Verdict : ReadAnswer(i, verdict) /\ UNCHANGED granted
     \/ lock = None /\ ChangePolicy /\ UNCHANGED granted
     \/ /\ lock = None
        /\ \E x \in answers : StoreAnswer(x)
        /\ granted' = granted \cup (GrantsIn(approvals') \ GrantsIn(approvals))
  /\ UNCHANGED <<selected, package, builders, lock, dispatches, launched, written,
                 builds, selections, crashes>>

Select ==
  /\ selections < MaxSelections
  /\ selections' = selections + 1
  /\ selected' \in (Target \cup {None}) \ {selected}
  /\ UNCHANGED <<approvalVars, package, builders, lock, dispatches, launched, written,
                 granted, builds, crashes>>

-------------------------------------------------------------------------------
(* _apply_remote_execution_selection: the row is looked up by its reference, the *)
(* newest one, whatever package it was stored for.                               *)
Now == [target |-> selected, package |-> package, row |-> Len(approvals),
        status |-> IF approvals = <<>> THEN "none" ELSE approvals[Len(approvals)].status]

See(t) ==
  /\ dispatches[t].at = "idle"
  /\ selected # None /\ package # NoPackage
  /\ dispatches' = [dispatches EXCEPT ![t].at = "seen", ![t].first = Now]
  /\ UNCHANGED <<approvalVars, selected, package, builders, lock, launched, written, granted,
                 builds, selections, crashes>>

Approved(snapshot) == Needed(snapshot.package) => snapshot.status \in Granting

(* build_remote_execution_execution_request: ready when nothing blocks it.       *)
RequestReady(first, now) ==
  /\ now.package # NoPackage
  /\ now.package.ready
  /\ now.target # None => now.target = now.package.target
  /\ first.package.target = now.package.target
  /\ first.row # 0 /\ now.row # 0 => first.row = now.row
  /\ Approved(now)

Forget(t) == [dispatches EXCEPT ![t] = [at |-> "idle", first |-> Nothing, second |-> Nothing]]

Ask(t) ==
  /\ dispatches[t].at = "seen"
  /\ IF RequestReady(dispatches[t].first, Now)
     THEN dispatches' = [dispatches EXCEPT ![t].at = "asked", ![t].second = Now]
     ELSE dispatches' = Forget(t)
  /\ UNCHANGED <<approvalVars, selected, package, builders, lock, launched, written, granted,
                 builds, selections, crashes>>

(* Mutant: the runner trusts the request about its target.                       *)
AnyTarget(first, second) == Approved(first)

(* _start_process: checked against what was read first.                          *)
RunnerAgrees(first, second) ==
  /\ Approved(first)
  /\ second.package.target = first.target
  /\ second.package.target = first.package.target

Start(t) ==
  LET first == dispatches[t].first
      second == dispatches[t].second
  IN  /\ dispatches[t].at = "asked"
      /\ IF RunnerAgrees(first, second)
         THEN /\ dispatches' = [Forget(t) EXCEPT ![t].at = "done"]
              /\ launched' = launched \cup
                   {[task |-> t, target |-> first.target, command |-> second.package.command,
                     under |-> second.package]}
         ELSE dispatches' = Forget(t) /\ UNCHANGED launched
      /\ UNCHANGED <<approvalVars, selected, package, builders, lock, written, granted,
                     builds, selections, crashes>>

Dispatch(t) == See(t) \/ Ask(t) \/ Start(t)

(* The daemon dies and comes back: files stay, what was not committed is gone.   *)
Crash ==
  /\ crashes < MaxCrashes
  /\ crashes' = crashes + 1
  /\ builders' = [b \in Builder |-> Idle]
  /\ lock' = None
  /\ answers' = {}
  /\ dispatches' = [t \in Task |-> IF dispatches[t].at = "done" THEN dispatches[t]
                                   ELSE [at |-> "idle", first |-> Nothing, second |-> Nothing]]
  /\ UNCHANGED <<policy, policyChanges, approvals, remembered, selected, package, launched,
                 written, granted, builds, selections>>

Next ==
  \/ \E b \in Builder : Build(b)
  \/ Users
  \/ Select
  \/ \E t \in Task : Dispatch(t)
  \/ Crash

Spec == Init /\ [][Next]_allVars

-------------------------------------------------------------------------------
(* Whatever is built, selected and answered between the two readings, a process  *)
(* runs the command of one package on the target that package was built for, and *)
(* that package passed its preflight (build_remote_execution_execution_request,  *)
(* _start_process).                                                              *)
RunIsOnePackage ==
  \A run \in launched :
    \E p \in written : p.target = run.target /\ p.command = run.command /\ p.ready

(* "must be explicitly approved before the remote runner executes"               *)
(* (manager.py:16317): a process that needs an approval runs what was granted.   *)
LaunchWasApproved == \A run \in launched : Needed(run.under) => run.under \in granted

(* "Mutating or non-dry-run remote execution still needs an explicit approval    *)
(* gate" (manager.py:16571): a task that changes files runs under an approval.   *)
MutatingRunWasGated == \A run \in launched : run.task \in Writing => Needed(run.under)

(* "High-risk approvals cannot be allowed for the whole project."                *)
(* (manager.py:41566)                                                            *)
HighRiskIsNotAllowedForProject ==
  \A i \in DOMAIN approvals :
    approvals[i].status = "allowed_for_project" => MayAllowForProject(approvals[i].risk)
===============================================================================
