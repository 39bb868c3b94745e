------------------------------- MODULE Dispatch -------------------------------
(***************************************************************************)
(* The life of a worker run: a scheduler pass or a user picks a worker and *)
(* a task, a launch prepares the worker process across several awaits and  *)
(* then claims both rows, a monitor records how the process ended, and the *)
(* manager's decision about the report is applied later still.  Stops,     *)
(* user completions, late reports, project pauses and daemon restarts cut  *)
(* in between.                                                             *)
(*                                                                         *)
(* One action is one stretch of a coroutine between two awaits; the daemon *)
(* runs coroutines on one event loop and commits before it awaits, so such *)
(* a stretch is atomic.                                                    *)
(***************************************************************************)
EXTENDS LaunchState

CONSTANTS
  Scanner,       \* coroutines that can be inside start_idle_agents at once
  LaunchBudget,  \* hard_total_worker_launch_budget
  MaxRequests,   \* start requests that can be in progress at once
  Callers        \* the sets of other callers that may take part, see Actor below

\* Callers of the service besides the scheduler passes and the monitors.
Actor == {"start",     \* POST agents/{id}/start
          "stop",      \* POST agents/{id}/stop
          "complete",  \* POST tasks/{id}/complete
          "report",    \* POST runs/{id}/report
          "pause",     \* POST projects/{id}/pause and resume
          "decide",    \* a manager that answers after an await
          "reject",    \* runners whose completion envelope is invalid
          "locked",    \* SQLite lock contention while a run is finalized
          "restart"}   \* daemon restarts

ASSUME DispatchAssumption ==
  /\ Callers \subseteq SUBSET Actor
  /\ LaunchBudget \in Nat
  /\ MaxRequests \in Nat
  /\ Scanner \cap {"user", "decision"} = {}

VARIABLES
  board,      \* agents, tasks and path_reservations
  runs,       \* agent_runs
  live,       \* runs whose worker process has not exited
  flights,    \* launches awaiting their runner, see Flight
  failures,   \* refused launches a scheduler pass has yet to look at
  retrying,   \* scheduler passes that are the one retry after a refusal
  decisions,  \* recorded reports that await the manager's decision
  stopping,   \* stop_agent calls awaiting the runner, with the rows as they read them
  paused,     \* project.status = "paused"
  actors      \* the other callers of this behaviour, chosen at the start

vars == <<board, runs, live, flights, failures, retrying, decisions, stopping,
          paused, actors>>

\* A start_agent_task coroutine and the caller that awaits it.
Flight  == [agent : Agent, task : Task, by : Scanner \cup {"user", "decision"}]
Failure == [agent : Agent, task : Task, by : Scanner, why : {"agent", "task"}]

Outcome == {"done", "needs_review", "blocked", "error"}

Init ==
  /\ board = InitialBoard
  /\ runs = <<>>
  /\ live = {}
  /\ flights = {}
  /\ failures = {}
  /\ retrying = {}
  /\ decisions = {}
  /\ stopping = {}
  /\ paused = FALSE
  /\ actors \in Callers

Open(r) == Unfinished(runs[r])

-----------------------------------------------------------------------------
(* Choosing work *)

\* Worker launches count every run row ever inserted.
GuardBlocks == Len(runs) >= LaunchBudget

\* Mutant: a task is planned before its dependencies are done.
ConsideredEarly(b, rs, a, planned) ==
  {t \in Task \ planned :
     /\ t # b.agent[a].task
     /\ ~TaskHasRun(rs, t)
     /\ b.task[t].status \in Startable
     /\ <<a, t>> \in Matches
     /\ \A p \in planned : ~PathsConflict(AllowedPaths[t], AllowedPaths[p])}

\* The tests of _find_next_safe_task other than the path locks, for a pass
\* that has already planned the tasks in planned.
Considered(b, rs, a, planned) ==
  {t \in Task \ planned :
     /\ t # b.agent[a].task
     /\ ~TaskHasRun(rs, t)
     /\ b.task[t].status \in Startable
     /\ <<a, t>> \in Matches
     /\ DependenciesMet(b, t)
     /\ \A p \in planned : ~PathsConflict(AllowedPaths[t], AllowedPaths[p])}

Candidates(b, rs, a, planned) ==
  {t \in Considered(b, rs, a, planned) : CanAssign(b, a, t)}

PathBlocked(b, rs, a, planned) ==
  Considered(b, rs, a, planned) \ Candidates(b, rs, a, planned)

\* _set_waiting_on_paths for tasks that some busy worker's locks block.
WaitOnPaths(b, T) ==
  [b EXCEPT !.task = [t \in Task |->
     IF t \in T THEN [@[t] EXCEPT !.status = "waiting_on_paths",
                                  !.reason = "other"]
     ELSE @[t]]]

Eligible(b, a) == ~AgentHasRun(runs, a) /\ b.agent[a].status \in IdleLike

\* The tasks the workers before a were given in this pass.
PlannedBefore(plan, a) == {plan[c] : c \in {c \in Agent : c < a}} \ {None}

\* Workers are served in id order, each with its best candidate; the score
\* that ranks the candidates is left open.
Plans(b) ==
  {plan \in [Agent -> Task \cup {None}] :
     \A a \in Agent :
       LET found == IF Eligible(b, a)
                    THEN Candidates(b, runs, a, PlannedBefore(plan, a)) ELSE {}
       IN  IF found = {} THEN plan[a] = None ELSE plan[a] \in found}

\* What start_idle_agents does to the rows before it launches a plan.
GateTasks(b) ==
  [b EXCEPT !.task = [t \in Task |->
     IF @[t].status \notin Startable THEN @[t]
     ELSE IF ~DependenciesMet(b, t)
     THEN [@[t] EXCEPT !.reason = "unmet_dependency",
                       !.status = IF b.task[t].agent = None THEN "backlog"
                                  ELSE b.task[t].status]
     ELSE IF @[t].reason = "unmet_dependency"
     THEN [@[t] EXCEPT !.reason = "none"]
     ELSE @[t]]]

MarkWaiting(b, plan) ==
  LET unserved == {a \in Agent : Eligible(b, a) /\ plan[a] = None}
      blocked(a) == {t \in Task : /\ b.task[t].status \in Startable
                                  /\ <<a, t>> \in Matches
                                  /\ DependenciesMet(b, t)
                                  /\ ~CanAssign(b, a, t)}
      waiters == {a \in unserved : blocked(a) # {}}
      skipped == UNION {PathBlocked(b, runs, a, PlannedBefore(plan, a)) : a \in unserved}
      first == {First(blocked(a)) : a \in waiters}
      waiting == WaitOnPaths(b, skipped \cup first)
  IN  [waiting EXCEPT !.agent = [a \in Agent |->
         IF a \in waiters THEN [@[a] EXCEPT !.status = "waiting"] ELSE @[a]]]

\* The launch guard refuses the whole pass.
GuardedOff(b) ==
  [b EXCEPT !.agent = [a \in Agent |->
     IF ~AgentHasRun(runs, a) /\ @[a].status \in IdleLike \cup {"starting"}
     THEN [@[a] EXCEPT !.status = "waiting"] ELSE @[a]]]

Planned(plan, s) ==
  {[agent |-> a, task |-> plan[a], by |-> s] : a \in {c \in Agent : plan[c] # None}}

Resting(s) ==
  /\ \A f \in flights : f.by # s
  /\ \A f \in failures : f.by # s

\* start_idle_agents from board b up to the gather that awaits its launches:
\* the boards and launches it may leave.
PassOutcomes(s, b) ==
  LET r == Reconcile(b, runs)
      g == GateTasks(r) IN
  IF GuardBlocks
  THEN {[board |-> GuardedOff(r), flights |-> flights]}
  ELSE {[board   |-> MarkWaiting(g, plan),
         flights |-> flights \cup Planned(plan, s)] : plan \in Plans(g)}

Pass(s, b) ==
  \E o \in PassOutcomes(s, b) : board' = o.board /\ flights' = o.flights

Scan(s) ==
  /\ ~paused
  /\ Resting(s)
  /\ Pass(s, board)
  /\ retrying' = retrying \ {s}
  /\ UNCHANGED <<runs, live, failures, decisions, stopping, paused, actors>>

\* POST agents/{id}/start: no repair and no look at the agent's status.  A
\* refusal by the launch guard rolls the request back.
UserStart(a) ==
  /\ "start" \in actors
  /\ Cardinality({f \in flights : f.by = "user"}) < MaxRequests
  /\ ~paused
  /\ ~AgentHasRun(runs, a)
  /\ \/ \E t \in Candidates(board, runs, a, {}) :
          /\ ~GuardBlocks
          /\ flights' = flights \cup {[agent |-> a, task |-> t, by |-> "user"]}
          /\ UNCHANGED board
     \/ /\ Candidates(board, runs, a, {}) = {}
        /\ board' = WaitOnPaths(board, PathBlocked(board, runs, a, {}))
        /\ UNCHANGED flights
  /\ UNCHANGED <<runs, live, failures, retrying, decisions, stopping, paused,
                 actors>>

-----------------------------------------------------------------------------
(* Claiming the rows once the runner has started *)

\* A completed task and a handled report end in a pass of their own.  It repairs
\* the board in the same stretch; what it launches is left to the next Scan.
Repaired(b, rs) == IF paused THEN b ELSE Reconcile(b, rs)

\* Mutants: the claim trusts the choice made before the awaits.
ClaimableByBusyAgent(f) ==
  board.task[f.task].status \in Startable /\ ~TaskHasRun(runs, f.task)

ClaimableAnyTask(f) == ~AgentHasRun(runs, f.agent)

Claimable(f) ==
  /\ ~AgentHasRun(runs, f.agent)
  /\ board.task[f.task].status \in Startable
  /\ ~TaskHasRun(runs, f.task)

NewRun(f) == [agent |-> f.agent, task |-> f.task, status |-> "starting",
              finished |-> FALSE, reported |-> FALSE]

\* The end of start_agent_task: the checks made before the awaits are made
\* again, then run, rows and reservations change in one commit.
Claim(f) ==
  /\ f \in flights
  /\ Claimable(f)
  /\ runs' = Append(runs, NewRun(f))
  /\ live' = live \cup {Len(runs) + 1}
  /\ LET b == Reserve(SetTask(SetAgent(board, f.agent, "starting", f.task),
                              f.task, "working", f.agent, "none"),
                      f.agent, f.task)
     IN  board' = IF f.by = "decision" THEN Repaired(b, runs') ELSE b
  /\ flights' = flights \ {f}
  /\ UNCHANGED <<failures, retrying, decisions, stopping, paused, actors>>

\* Mutant: the rows go back even when somebody else works with them.
DeferBlindly(b, rs, f) ==
  SetAgent(SetTask(b, f.task, "backlog", None, "other"), f.agent, "waiting", None)

\* _apply_worker_decision puts both rows back when its launch was refused.
DeferLaunch(b, rs, f) ==
  LET b1 == IF TaskHasRun(rs, f.task) THEN b
            ELSE SetTask(b, f.task, "backlog", None, "other")
  IN  IF AgentHasRun(rs, f.agent) \/ b.agent[f.agent].status = "done" THEN b1
      ELSE SetAgent(b1, f.agent, "waiting", None)

\* A refused launch stops the process it had started and tells its caller.
Refuse(f) ==
  /\ f \in flights
  /\ ~Claimable(f)
  /\ flights' = flights \ {f}
  /\ failures' = IF f.by \in Scanner
                 THEN failures \cup
                        {[agent |-> f.agent, task |-> f.task, by |-> f.by,
                          why |-> IF AgentHasRun(runs, f.agent)
                                  THEN "agent" ELSE "task"]}
                 ELSE failures
  /\ board' = IF f.by = "decision" THEN Repaired(DeferLaunch(board, runs, f), runs)
                ELSE board
  /\ UNCHANGED <<runs, live, retrying, decisions, stopping, paused, actors>>

\* The loop of start_idle_agents over the gathered results.
HandleRefusals(b, s) ==
  LET why(a) == {f.why : f \in {g \in failures : g.by = s /\ g.agent = a}} IN
  [b EXCEPT !.agent = [a \in Agent |->
     IF "agent" \in why(a) /\ @[a].status \in IdleLike
     THEN [@[a] EXCEPT !.status = "starting"]
     ELSE IF "task" \in why(a)
     THEN [task   |-> None,
           status |-> IF @[a].status = "done" THEN "done" ELSE "waiting"]
     ELSE @[a]]]

Gathering(s) == /\ \A f \in flights : f.by # s
                /\ \E f \in failures : f.by = s

\* When the last launch of a pass has ended and one was refused, the pass
\* runs once more at once; the second time it returns.
GatherResults(s) ==
  /\ Gathering(s)
  /\ LET b == HandleRefusals(board, s) IN
     IF s \in retrying \/ paused
     THEN board' = b /\ UNCHANGED flights
     ELSE Pass(s, b)
  /\ retrying' = IF s \in retrying THEN retrying \ {s} ELSE retrying \cup {s}
  /\ failures' = {f \in failures : f.by # s}
  /\ UNCHANGED <<runs, live, decisions, stopping, paused, actors>>

-----------------------------------------------------------------------------
(* _apply_worker_decision.  Decisions that create follow-up tasks are left *)
(* out.  Each operator gives the outcomes of one kind of decision about    *)
(* run r as records of a board and of the launches it starts at once.      *)

Quietly(b) == {[board |-> b, launch |-> {}]}

\* The immediate launch of task t on agent c at the end of the handler; undone
\* is the board before the decision, to which a refusal by the launch guard
\* rolls the session back.
Immediately(b, undone, rs, c, t) ==
  LET f == [agent |-> c, task |-> t, by |-> "decision"] IN
  IF ~ /\ b.task[t].status \in Startable
       /\ ~TaskHasRun(rs, t)
       /\ b.agent[c].status \in IdleLike
       /\ CanAssign(b, c, t)
       /\ DependenciesMet(b, t)
  THEN Quietly(b)
  ELSE IF AgentHasRun(rs, c) THEN Quietly(DeferLaunch(b, rs, f))
  ELSE IF Len(rs) >= LaunchBudget THEN Quietly(undone)
  ELSE {[board |-> b, launch |-> {f}]}

\* _revive_retryable_blocked_task
Revived(b, rs, t) ==
  IF b.task[t].status = "blocked" /\ ~TaskHasRun(rs, t) /\ DependenciesMet(b, t)
  THEN SetTask(b, t, "backlog", b.task[t].agent, "none") ELSE b

\* eligible_assignment_agent
Assignable(b, rs, t) ==
  {c \in Agent : /\ b.agent[c].status \in IdleLike
                 /\ b.agent[c].task \in {None, t}
                 /\ ~AgentHasRun(rs, c)}

AssignNext(b, rs, a) ==
  UNION {LET b1 == Revived(b, rs, t)
             own == IF <<a, t>> \in Matches THEN {a} ELSE {}
             named == Assignable(b1, rs, t)
             assignee(nominee) ==
               IF nominee \in named THEN {nominee} ELSE own \cap named
         IN  IF b1.task[t].status \notin Startable \/ TaskHasRun(rs, t)
             THEN Quietly(b1)
             ELSE UNION {IF assignee(nominee) = {} THEN Quietly(b1)
                         ELSE LET c == CHOOSE c \in assignee(nominee) : TRUE
                              IN  Immediately(
                                    SetTask(b1, t, "assigned", c, b1.task[t].reason),
                                    b, rs, c, t) :
                         nominee \in Agent \cup {None}} : t \in Task}

RequestFix(b, rs, a, t) ==
  IF b.task[t].failures < MaxFailures
  THEN LET b1 == SetTask(b, t, "assigned", b.task[t].agent, "other")
           c == IF b.task[t].agent = None THEN a ELSE b.task[t].agent
       IN  Immediately(b1, b, rs, c, t)
  ELSE Quietly(SetTask(b, t, "blocked", b.task[t].agent, b.task[t].reason))

MarkTask(b, t, status) ==
  Quietly(SetTask(b, t, status, b.task[t].agent, b.task[t].reason))

MarkAgent(b, a, status) == SetAgent(b, a, status, b.agent[a].task)

Escalate(b, a, t) ==
  LET b1 == MarkAgent(b, a, "waiting")
      owner == b.task[t].agent IN
  Quietly(IF b.task[t].status \notin {"blocked", "needs_review"} THEN b1
          ELSE IF owner = None
          THEN SetTask(b1, t, b.task[t].status, None, "other")
          ELSE Release(SetTask(b1, t, b.task[t].status, None, "other"), t, owner))

\* _find_next_safe_project_assignment finds work for somebody.
WorkRemains(b, rs) ==
  \E c \in Agent : /\ b.agent[c].status \in IdleLike
                   /\ ~AgentHasRun(rs, c)
                   /\ Candidates(b, rs, c, {}) # {}

\* When work remained after a done report the deterministic decision, drawn up
\* before the manager is asked, is assign_next_task and overrules the answers
\* listed last.
Decided(b, rs, r, overruled) ==
  LET a == rs[r].agent
      t == rs[r].task
  IN  AssignNext(b, rs, a)
      \cup MarkTask(b, t, "done")
      \cup Quietly(MarkAgent(b, a, "done"))
      \cup (IF overruled THEN {}
            ELSE RequestFix(b, rs, a, t) \cup MarkTask(b, t, "blocked")
                 \cup Escalate(b, a, t) \cup Quietly(MarkAgent(b, a, "waiting")))

-----------------------------------------------------------------------------
(* The monitor of a run, and the reports it or a client records *)

\* A turn.started event of the worker.
TurnStarted(r) ==
  /\ r \in live
  /\ ~runs[r].finished
  /\ runs[r].status = "starting"
  /\ runs' = [runs EXCEPT ![r].status = "working"]
  /\ board' = [board EXCEPT !.agent[runs[r].agent].status = "working"]
  /\ UNCHANGED <<live, flights, failures, retrying, decisions, stopping,
                 paused, actors>>

\* Mutant: the report's status is stored as it comes.
StatusVerbatim(outcome) == outcome

\* The status ingest_worker_report gives the task of a report.
StatusAfter(outcome) == IF outcome = "error" THEN "assigned" ELSE outcome

\* Mutant: the task is taken from the worker, which keeps its busy status.
FreeTaskOnly(b, a) == [b EXCEPT !.agent[a].task = None]

\* The worker of a run that ended waits for work.
Rests(b, a) == SetAgent(b, a, "waiting", None)

\* A decision that launched nothing is followed by its pass at once.
Handled(d, rs) ==
  /\ board' = IF d.launch = {} THEN Repaired(d.board, rs) ELSE d.board
  /\ flights' = flights \cup d.launch

\* What ingest_worker_report commits before it asks for a decision.
Ingested(b, r, outcome) ==
  LET a == runs[r].agent
      t == runs[r].task
      failed == outcome \in {"blocked", "error"}
      b1 == Rests(b, a)
      b2 == [b1 EXCEPT !.task[t].status = StatusAfter(outcome)]
      b3 == IF failed THEN CountFailure(b2, t)
            ELSE IF outcome = "done" THEN [b2 EXCEPT !.task[t].failures = 0]
            ELSE b2
  IN  Release(b3, t, a)

Finish(r, reported) ==
  runs' = [runs EXCEPT ![r].status = "ended", ![r].finished = TRUE,
                       ![r].reported = reported \/ @]

\* The manager answers in the same stretch, or after an await.
Record(r, outcome) ==
  /\ Finish(r, TRUE)
  /\ LET b == Ingested(board, r, outcome)
         overruled == outcome = "done" /\ WorkRemains(b, runs')
     IN  IF "decide" \in actors
         THEN /\ board' = b
              /\ decisions' = decisions \cup {[run |-> r, overruled |-> overruled]}
              /\ UNCHANGED flights
         ELSE /\ \E d \in Decided(b, runs', r, overruled) : Handled(d, runs')
              /\ UNCHANGED decisions

\* The monitor sees the process ended and ingests its envelope.
Ended(r, outcome) ==
  /\ r \in live
  /\ Open(r)
  /\ Record(r, outcome)
  /\ live' = live \ {r}
  /\ UNCHANGED <<failures, retrying, stopping, paused, actors>>

\* The monitor commits the terminal status, then SQLite refuses the ingest:
\* _finalize_run_with_retry sleeps with the run unfinished.
EndedLocked(r) ==
  /\ "locked" \in actors
  /\ r \in live
  /\ Open(r)
  /\ runs' = [runs EXCEPT ![r].status = "ended"]
  /\ live' = live \ {r}
  /\ UNCHANGED <<board, flights, failures, retrying, decisions, stopping,
                 paused, actors>>

FinalizeRetry(r, outcome) ==
  /\ runs[r].status = "ended"
  /\ ~runs[r].finished
  /\ Record(r, outcome)
  /\ UNCHANGED <<live, failures, retrying, stopping, paused, actors>>

\* _reject_runner_completion: the envelope did not validate, or the retries
\* of the ingest were exhausted.
Rejected(b, r) ==
  LET a == runs[r].agent
      t == runs[r].task
      b1 == CountFailure(Rests(b, a), t)
      b2 == IF b.task[t].failures = 0
            THEN SetTask(b1, t, "backlog", None, "other")
            ELSE SetTask(b1, t, "needs_review", b.task[t].agent, "other")
  IN  ReleaseOrphanedReservations(Release(b2, t, a), runs')

EndedInvalid(r) ==
  /\ "reject" \in actors
  /\ \/ r \in live /\ Open(r)
     \/ runs[r].status = "ended" /\ ~runs[r].finished
  /\ Finish(r, TRUE)
  /\ board' = Rejected(board, r)
  /\ live' = live \ {r}
  /\ UNCHANGED <<flights, failures, retrying, decisions, stopping, paused,
                 actors>>

\* A process whose run was finished for it exits; its monitor has returned.
Exit(r) ==
  /\ r \in live
  /\ runs[r].finished
  /\ live' = live \ {r}
  /\ UNCHANGED <<board, runs, flights, failures, retrying, decisions,
                 stopping, paused, actors>>

\* POST runs/{id}/report: refused only for a finished run with a report.
Report(r, outcome) ==
  /\ "report" \in actors
  /\ ~ (runs[r].finished /\ runs[r].reported)
  /\ Record(r, outcome)
  /\ UNCHANGED <<live, failures, retrying, stopping, paused, actors>>

\* The manager's answer arrives.
Decide(d) ==
  /\ d \in decisions
  /\ decisions' = decisions \ {d}
  /\ \E e \in Decided(board, runs, d.run, d.overruled) : Handled(e, runs)
  /\ UNCHANGED <<runs, live, failures, retrying, stopping, paused, actors>>

\* SQLite refuses the rows of the decision: the report stays, its follow-up is
\* left to the next pass.
DropDecision(d) ==
  /\ "locked" \in actors
  /\ d \in decisions
  /\ decisions' = decisions \ {d}
  /\ UNCHANGED <<board, runs, live, flights, failures, retrying, stopping,
                 paused, actors>>

-----------------------------------------------------------------------------
(* Stops, completions, pauses, restarts *)

\* Mutant: a stopped worker keeps its paths.
ReleaseNone(b, A) == b

ReleaseAll(b, A) == [b EXCEPT !.reserved = {p \in @ : p[1] \notin A}]

\* _reconcile_stopped_agent_state for the workers in A, the tasks their rows
\* named and the runs in R.
StoppedBoard(b, A, named, R) ==
  LET hit == named \cup {runs[r].task : r \in R} IN
  [ReleaseAll(b, A) EXCEPT
     !.agent = [a \in Agent |->
       IF a \in A THEN [status |-> "stopped", task |-> None] ELSE @[a]],
     !.task = [t \in Task |->
       IF t \in hit /\ @[t].status = "working"
       THEN [@[t] EXCEPT !.status = "assigned", !.agent = None, !.reason = "other"]
       ELSE @[t]]]

FinishAll(R) ==
  runs' = [r \in DOMAIN runs |->
    IF r \in R THEN [runs[r] EXCEPT !.status = "ended", !.finished = TRUE]
    ELSE runs[r]]

\* stop_agent up to the await of runner.stop_run; one call per agent at a time.
StopAgent(a) ==
  /\ "stop" \in actors
  /\ \A s \in stopping : s.agent # a
  /\ IF AgentHasRun(runs, a)
     THEN /\ stopping' = stopping \cup
               {[agent |-> a, task |-> board.agent[a].task,
                 runs |-> RunsOfAgent(runs, a)]}
          /\ UNCHANGED board
     ELSE /\ board' = StoppedBoard(board, {a}, {board.agent[a].task}, {})
          /\ UNCHANGED stopping
  /\ UNCHANGED <<runs, live, flights, failures, retrying, decisions, paused,
                 actors>>

\* The runner has stopped the processes; the rows read before are written.
FinishStop(s) ==
  /\ s \in stopping
  /\ stopping' = stopping \ {s}
  /\ live' = live \ s.runs
  /\ FinishAll(s.runs)
  /\ board' = StoppedBoard(board, {s.agent}, {s.task}, s.runs)
  /\ UNCHANGED <<flights, failures, retrying, decisions, paused, actors>>

LatestRunOf(t) == IF TaskHasRun(runs, t) THEN {LatestRunId(runs, t)} ELSE {}

\* complete_task_by_user: the run is finished but its process is not stopped.
CompleteTask(t) ==
  /\ "complete" \in actors
  /\ FinishAll(LatestRunOf(t))
  /\ LET a == board.task[t].agent
         b == Release(SetTask(board, t, "done", None, "none"), t, a)
         freed == IF a = None THEN b
                  ELSE SetAgent(b, a, IF b.agent[a].status = "done"
                                      THEN "done" ELSE "waiting", None)
     IN  board' = Repaired(freed, runs')
  /\ UNCHANGED <<live, flights, failures, retrying, decisions, stopping,
                 paused, actors>>

\* pause_project: every worker with a run or a busy status is stopped.
Pause ==
  /\ "pause" \in actors
  /\ ~paused
  /\ paused' = TRUE
  /\ LET halted == {a \in Agent : AgentHasRun(runs, a)
                                  \/ board.agent[a].status \in Busy}
         R == UNION {RunsOfAgent(runs, a) : a \in halted}
     IN  /\ FinishAll(R)
         /\ live' = live \ R
         /\ board' = StoppedBoard(board, halted, {board.agent[a].task : a \in halted}, R)
  /\ UNCHANGED <<flights, failures, retrying, decisions, stopping, actors>>

Resume ==
  /\ paused
  /\ paused' = FALSE
  /\ UNCHANGED <<board, runs, live, flights, failures, retrying, decisions,
                 stopping, actors>>

\* Mutant: interrupted runs keep their paths.
NoPairs(R) == {}

PairsOf(R) == {<<runs[r].agent, runs[r].task>> : r \in R}

\* What on_startup does for the runs in R, interrupted by the restart.
Interrupted(b, R) ==
  LET hit == {runs[r].task : r \in R}
      halted == {runs[r].agent : r \in R} IN
  [agent    |-> [a \in Agent |->
     IF a \in halted THEN [status |-> "waiting", task |-> None] ELSE b.agent[a]],
   task     |-> [t \in Task |->
     IF t \in hit
     THEN [b.task[t] EXCEPT !.status = "backlog", !.agent = None, !.reason = "other"]
     ELSE b.task[t]],
   reserved |-> b.reserved \ PairsOf(R)]

\* The daemon dies and on_startup repairs the rows.  Worker processes may die
\* with it or outlive it.
Restart ==
  /\ "restart" \in actors
  /\ LET R == {r \in DOMAIN runs : ~runs[r].finished}
         b == Interrupted(board, R)
     IN  /\ FinishAll(R)
         /\ board' = RequeueOrphanedTasks(b, b, runs')
  /\ live' \in {live, {}}
  /\ flights' = {}
  /\ failures' = {}
  /\ retrying' = {}
  /\ decisions' = {}
  /\ stopping' = {}
  /\ UNCHANGED <<paused, actors>>

-----------------------------------------------------------------------------

Next ==
  \/ \E s \in Scanner : Scan(s) \/ GatherResults(s)
  \/ \E a \in Agent : UserStart(a) \/ StopAgent(a)
  \/ \E f \in flights : Claim(f) \/ Refuse(f)
  \/ \E r \in DOMAIN runs : \/ TurnStarted(r)
                            \/ EndedLocked(r)
                            \/ EndedInvalid(r)
                            \/ Exit(r)
                            \/ \E o \in Outcome : \/ Ended(r, o)
                                                  \/ FinalizeRetry(r, o)
                                                  \/ Report(r, o)
  \/ \E d \in decisions : Decide(d) \/ DropDecision(d)
  \/ \E s \in stopping : FinishStop(s)
  \/ \E t \in Task : CompleteTask(t)
  \/ Pause
  \/ Resume
  \/ Restart

Spec == Init /\ [][Next]_vars

(***************************************************************************)
(* The event loop resumes every coroutine, worker processes end, and       *)
(* scheduler passes keep coming: every recorded report and every           *)
(* background turn ends in one.  The first four conjuncts are weak         *)
(* fairness as well, with ENABLED written out as a state predicate.        *)
(***************************************************************************)
PassProgresses(s) ==
  /\ ~paused
  /\ Resting(s)
  /\ s \in retrying \/ PassOutcomes(s, board) # {[board |-> board, flights |-> flights]}

Fairness ==
  /\ \A s \in Scanner : []<>~PassProgresses(s) \/ []<><<Scan(s)>>_vars
  /\ \A s \in Scanner : []<>~Gathering(s) \/ []<><<GatherResults(s)>>_vars
  /\ []<>(decisions = {}) \/ []<><<\E d \in decisions : Decide(d)>>_vars
  /\ []<>(flights = {}) \/ []<><<\E f \in flights : Claim(f) \/ Refuse(f)>>_vars
  /\ WF_vars(\E r \in DOMAIN runs, o \in Outcome : Ended(r, o))
  /\ WF_vars(\E r \in DOMAIN runs, o \in Outcome : FinalizeRetry(r, o))
  /\ WF_vars(\E s \in stopping : FinishStop(s))

FairSpec == Spec /\ Fairness
=============================================================================
