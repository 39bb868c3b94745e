----------------------------- MODULE LaunchState -----------------------------
(***************************************************************************)
(* reconcile_task_launch_state of manager.py: the repairs that every       *)
(* scheduler pass applies to the task board, in the code's order, before   *)
(* it looks for work.  Each repair is a function of a board b and of the   *)
(* agent_runs table rs, a sequence of run rows in id order.                *)
(*                                                                         *)
(* The session has autoflush off, so a query's WHERE clause sees the rows  *)
(* last flushed while the objects it returns carry the unflushed changes.  *)
(* Where that makes a difference a repair takes both boards: flushed, the  *)
(* rows the query filters on, and b, the objects it then reads and writes. *)
(*                                                                         *)
(* Within one repair the rows are independent except in the last, where a  *)
(* task blocked by its dependency may block its own dependents: the model  *)
(* propagates that at the next pass, which is what the code does when the  *)
(* dependent precedes its dependency in scheduling order.                  *)
(***************************************************************************)
EXTENDS TaskBoard

FSE == INSTANCE FiniteSetsExt

\* The first row of a query ordered by id.
First(S) == FSE!Min(S)

\* "ended" stands for every status in RUN_TERMINAL_STATUSES.
Run == [agent : Agent, task : Task, status : Busy \cup {"ended"},
        finished : BOOLEAN, reported : BOOLEAN]

\* The test of _unfinished_runs_for_agent and _unfinished_runs_for_task.
Unfinished(run) == ~run.finished /\ run.status # "ended"

RunsOfAgent(rs, a) == {r \in DOMAIN rs : rs[r].agent = a /\ Unfinished(rs[r])}
RunsOfTask(rs, t)  == {r \in DOMAIN rs : rs[r].task = t /\ Unfinished(rs[r])}

AgentHasRun(rs, a) == RunsOfAgent(rs, a) # {}
TaskHasRun(rs, t)  == RunsOfTask(rs, t) # {}

\* The queries order runs by descending id.
LatestRunId(rs, t) == FSE!Max(RunsOfTask(rs, t))
LatestRun(rs, t)   == rs[LatestRunId(rs, t)]

-----------------------------------------------------------------------------

\* _release_orphaned_agent_reservations
OrphanedLockHolder(b, rs, a) ==
  /\ b.agent[a].task = None
  /\ LockedPaths(b, a) # {}
  /\ ~AgentHasRun(rs, a)
  /\ b.agent[a].status \in IdleLike

ReleaseOrphanedReservations(b, rs) ==
  LET orphans == {a \in Agent : OrphanedLockHolder(b, rs, a)} IN
  [b EXCEPT
     !.reserved = {p \in @ : p[1] \notin orphans},
     !.agent = [a \in Agent |->
       IF a \in orphans /\ @[a].status \in {"done", "stopped"}
       THEN [@[a] EXCEPT !.status = "waiting"] ELSE @[a]]]

\* _reconcile_tasks_with_unfinished_runs: the run table wins.
RestoreRunningTasks(b, rs) ==
  LET running == {t \in Task : TaskHasRun(rs, t)}
      work(a) == {t \in running : LatestRun(rs, t).agent = a} IN
  [b EXCEPT
     !.task = [t \in Task |->
       IF t \in running
       THEN [@[t] EXCEPT !.status = "working", !.reason = "none",
                         !.agent = LatestRun(rs, t).agent]
       ELSE @[t]],
     !.agent = [a \in Agent |->
       IF work(a) # {}
       THEN [task   |-> First(work(a)),
             status |-> IF @[a].status \in Busy THEN @[a].status ELSE "working"]
       ELSE @[a]]]

\* _reconcile_orphaned_working_tasks
OrphanedTasks(flushed, rs) ==
  {t \in Task : flushed.task[t].status = "working" /\ ~TaskHasRun(rs, t)}

LinkedAgents(flushed, b, t) ==
  {a \in Agent : a = b.task[t].agent \/ flushed.agent[a].task = t}

\* The reservations of the orphans: those of the first linked agent, or all.
OrphanReservations(flushed, b, rs) ==
  LET owner(t) == LET linked == LinkedAgents(flushed, b, t)
                  IN  IF linked = {} THEN None ELSE First(linked)
  IN  {p \in b.reserved : /\ p[2] \in OrphanedTasks(flushed, rs)
                          /\ owner(p[2]) \in {None, p[1]}}

RequeueOrphanedTasks(flushed, b, rs) ==
  LET orphans == OrphanedTasks(flushed, rs) IN
  [agent    |-> [a \in Agent |->
     [task   |-> IF b.agent[a].task \in orphans THEN None ELSE b.agent[a].task,
      status |-> IF /\ \E t \in orphans : a \in LinkedAgents(flushed, b, t)
                    /\ b.agent[a].status \notin {"done", "stopped"}
                 THEN "waiting" ELSE b.agent[a].status]],
   task     |-> [t \in Task |->
     IF t \in orphans
     THEN [b.task[t] EXCEPT !.status = "backlog", !.agent = None,
                            !.reason = "other"]
     ELSE b.task[t]],
   reserved |-> b.reserved \ OrphanReservations(flushed, b, rs)]

\* _reconcile_startable_tasks_assigned_to_ineligible_agents
AssigneeAvailable(b, rs, t) ==
  LET a == b.task[t].agent IN
  /\ b.agent[a].status \notin Busy
  /\ b.agent[a].task \in {None, t}
  /\ ~AgentHasRun(rs, a)

UnassignIneligible(flushed, b, rs) ==
  LET startable == {t \in Task : flushed.task[t].status \in Startable}
      ownerless == {t \in startable : b.task[t].agent = None
                                      /\ b.task[t].status = "assigned"}
      misowned  == {t \in startable : b.task[t].agent # None
                                      /\ ~AssigneeAvailable(b, rs, t)} IN
  [b EXCEPT
     !.reserved = {p \in @ : ~ (p[2] \in misowned /\ p[1] = b.task[p[2]].agent)},
     !.task = [t \in Task |->
       IF t \in ownerless \cup misowned
       THEN [agent    |-> None,
             status   |-> IF @[t].status = "assigned" THEN "backlog" ELSE @[t].status,
             reason   |-> "other",
             failures |-> @[t].failures]
       ELSE @[t]]]

\* _reconcile_stale_blocked_task_assignments
StaleBlocked(b, rs, t) ==
  /\ b.task[t].status = "blocked"
  /\ b.task[t].reason \in {"none", "stale"}
  /\ ~TaskHasRun(rs, t)
  /\ b.task[t].agent # None => b.agent[b.task[t].agent].task # t

RequeueStaleBlocked(b, rs) ==
  LET stale == {t \in Task : StaleBlocked(b, rs, t)} IN
  [b EXCEPT
     !.reserved = {p \in @ : ~ (p[2] \in stale
                                /\ b.task[p[2]].agent \in {None, p[1]})},
     !.task = [t \in Task |->
       IF t \in stale
       THEN [@[t] EXCEPT !.status = "backlog", !.agent = None,
                         !.reason = "stale"]
       ELSE @[t]]]

\* _terminal_dependency_blocker_reason, with _blocked_task_is_retryable
BlockedByDependency(b, rs, t) ==
  \E d \in Deps[t] :
    /\ ~TaskHasRun(rs, d)
    /\ \/ b.task[d].status = "needs_review"
       \/ /\ b.task[d].status = "blocked"
          /\ b.task[d].reason \notin {"none", "stale"}

\* _reconcile_tasks_blocked_on_terminal_dependencies
PropagateBlockedDependencies(b, rs) ==
  LET stuck == {t \in Task : BlockedByDependency(b, rs, t)}
      freed == {t \in Task \ stuck : b.task[t].status = "blocked"
                                     /\ b.task[t].reason = "blocked_dependency"}
      owned(a) == {t \in stuck : b.task[t].agent = a} IN
  [agent    |-> [a \in Agent |->
     [task   |-> IF b.agent[a].task \in owned(a) THEN None ELSE b.agent[a].task,
      status |-> IF owned(a) # {} /\ b.agent[a].status \notin {"done", "stopped"}
                 THEN "waiting" ELSE b.agent[a].status]],
   task     |-> [t \in Task |->
     IF t \in stuck
     THEN [b.task[t] EXCEPT !.status = "blocked", !.agent = None,
                            !.reason = "blocked_dependency"]
     ELSE IF t \in freed
     THEN [b.task[t] EXCEPT !.status = "backlog", !.reason = "none"]
     ELSE b.task[t]],
   reserved |-> {p \in b.reserved :
                   ~ (p[2] \in stuck /\ b.task[p[2]].agent \in {None, p[1]})}]

\* reconcile_task_launch_state.  The third repair flushes only when it
\* publishes a release, so the fourth may filter on rows that predate both.
Reconcile(b, rs) ==
  LET b1 == ReleaseOrphanedReservations(b, rs)
      b2 == RestoreRunningTasks(b1, rs)
      b3 == RequeueOrphanedTasks(b1, b2, rs)
      flushed == IF OrphanReservations(b1, b2, rs) # {} THEN b3 ELSE b1
      b4 == UnassignIneligible(flushed, b3, rs)
      b5 == RequeueStaleBlocked(b4, rs)
  IN  PropagateBlockedDependencies(b5, rs)
=============================================================================
