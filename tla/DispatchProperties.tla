-------------------------- MODULE DispatchProperties --------------------------
(***************************************************************************)
(* What makes the scheduler of Dispatch correct.                           *)
(***************************************************************************)
EXTENDS Dispatch

Working(rs) == {<<rs[r].agent, rs[r].task>> : r \in {q \in DOMAIN rs : Unfinished(rs[q])}}

\* The promise of work in progress, read off the run table.
Assignment == INSTANCE ExclusiveAssignment WITH working <- Working(runs)

-----------------------------------------------------------------------------

\* Every row and every coroutine's memory has the shape the code gives it.
TypeOK ==
  /\ board \in Board
  /\ runs \in Seq(Run)
  /\ live \subseteq DOMAIN runs
  /\ flights \subseteq Flight
  /\ failures \subseteq Failure
  /\ retrying \subseteq Scanner
  /\ decisions \subseteq [run : DOMAIN runs, overruled : BOOLEAN]
  /\ stopping \subseteq [agent : Agent, task : Task \cup {None},
                         runs : SUBSET DOMAIN runs]
  /\ paused \in BOOLEAN

\* No worker and no task has two unfinished runs, although launches choose
\* before several awaits and claim after them (start_agent_task).
ExclusiveRuns ==
  \A r, q \in DOMAIN runs :
    Open(r) /\ Open(q) /\ (runs[r].agent = runs[q].agent \/ runs[r].task = runs[q].task)
      => r = q

\* The run table implements the promise of ExclusiveAssignment.
ImplementsAssignment == Assignment!Spec

\* A task says it is being worked on exactly while it has an unfinished run.
\* Stops, locks, late answers and dependencies that are undone break it.
WorkingHasRun == \A t \in Task : board.task[t].status = "working" <=> TaskHasRun(runs, t)

\* The unreleased path reservations are those of the unfinished runs: none is
\* lost while its worker edits, none outlives it.  Broken as WorkingHasRun is.
LocksMatchRuns == board.reserved = Working(runs)

\* The runs whose end has not been recorded, be their processes alive or not.
Owed == {r \in DOMAIN runs : ~runs[r].finished}

\* Whatever stops, late or repeated reports, locks and crashes do, each path
\* reservation belongs to a run whose end is not recorded yet, and so does each
\* task shown as being worked on: nothing stays locked or "working" for a run
\* that is over, also after a restart (every release in manager.py).
NothingOutlivesItsRun ==
  /\ board.reserved \subseteq {<<runs[r].agent, runs[r].task>> : r \in Owed}
  /\ \A t \in Task : board.task[t].status = "working" => \E r \in Owed : runs[r].task = t

\* A scheduler pass admits a launch only when no other worker's run that is
\* still open owns paths it overlaps (start_idle_agents repairs the rows, then
\* asks can_assign_task).
PassesRespectLocks ==
  [][\A f \in flights' \ flights, r \in DOMAIN runs :
       f.by \in Scanner /\ Unfinished(runs'[r]) /\ runs[r].agent # f.agent
         => ~PathsConflict(AllowedPaths[runs[r].task], AllowedPaths[f.task])]_vars

\* Whoever launches a task, a pass, a user or a decision, finds its
\* dependencies done, also after the repairs the launch makes.
LaunchedAfterDependencies ==
  [][\A f \in flights' \ flights : DependenciesMet(board', f.task)]_vars

\* The stronger promise: they are done when the task starts, after the awaits
\* of the launch.
StartsAfterDependencies ==
  [][Len(runs') > Len(runs)
       => \A d \in Deps[runs'[Len(runs')].task] : board.task[d].status = "done"]_vars

\* A worker shown as stopped has no unfinished run.
StoppedHasNoRun ==
  \A a \in Agent : board.agent[a].status = "stopped" => ~AgentHasRun(runs, a)

\* The runs in progress never overlap in the paths they may edit.
NoSharedPaths ==
  \A p, q \in Working(runs) :
    p[2] # q[2] => ~PathsConflict(AllowedPaths[p[2]], AllowedPaths[q[2]])

\* While the project is paused no work is assigned.
PausedAssignsNothing == [][paused => flights' \subseteq flights]_vars

\* A task parked behind another worker's paths is looked at again: it does
\* not stay parked unless the launch budget is spent.
ParkedTaskMovesOn ==
  \A t \in Task :
    board.task[t].status = "waiting_on_paths"
      ~> board.task[t].status # "waiting_on_paths" \/ GuardBlocks

\* A worker marked busy becomes available again.
BusyWorkerReturns ==
  \A a \in Agent : board.agent[a].status \in Busy ~> board.agent[a].status \notin Busy
=============================================================================
