---------------------------- MODULE DispatchTypes ----------------------------
(***************************************************************************)
(* What the operators of TaskBoard, LaunchState and Dispatch make of a     *)
(* board: a board again, with every choice made from a non-empty set; no   *)
(* reservation, and no work shown, that the run table does not call for;   *)
(* and, at the end of a run, nothing left of that run.  What they launch   *)
(* are launches of a worker and a task.                                    *)
(***************************************************************************)
EXTENDS Dispatch, TLAPS, WellFoundedInduction

-----------------------------------------------------------------------------
(* The first row of a query and the last run of a task exist *)

\* A non-empty query ordered by ascending id has a first row.
LEMMA FirstExists ==
  ASSUME NEW S, S \subseteq Nat, S # {}
  PROVE  First(S) \in S
<1>1. PICK x \in S : \A y \in S : ~ (<<y, x>> \in OpToRel(<, Nat))
  BY WFMin, NatLessThanWellFounded
<1>2. \A y \in S : x =< y
  <2> SUFFICES ASSUME NEW y \in S, ~ (x =< y) PROVE FALSE
    OBVIOUS
  <2>1. <<y, x>> \in Nat \X Nat /\ y < x
    OBVIOUS
  <2>2. <<y, x>> \in OpToRel(<, Nat)
    BY <2>1 DEF OpToRel
  <2> QED
    BY <1>1, <2>2
<1> QED
  BY <1>2, Zenon DEF First, FSE!Min

\* A non-empty set of run ids has a greatest one.
LEMMA LastExists ==
  ASSUME NEW n \in Nat, NEW S, S \subseteq 1..n, S # {}
  PROVE  FSE!Max(S) \in S
<1> DEFINE D == {n - x : x \in S}
<1>1. D \subseteq Nat /\ D # {}
  <2>1. \A x \in S : n - x \in Nat
    OBVIOUS
  <2> QED
    BY <2>1, Zenon
<1>2. PICK d \in D : \A e \in D : ~ (<<e, d>> \in OpToRel(<, Nat))
  BY <1>1, WFMin, NatLessThanWellFounded
<1>3. PICK x \in S : d = n - x
  OBVIOUS
<1>4. \A y \in S : x >= y
  <2> SUFFICES ASSUME NEW y \in S, ~ (x >= y) PROVE FALSE
    OBVIOUS
  <2>1. n - y \in D /\ <<n - y, d>> \in Nat \X Nat /\ n - y < d
    BY <1>1, <1>3
  <2>2. <<n - y, d>> \in OpToRel(<, Nat)
    BY <2>1 DEF OpToRel
  <2> QED
    BY <1>2, <2>1, <2>2
<1> QED
  BY <1>4, Zenon DEF FSE!Max

\* A task with an unfinished run has a latest one, and it is a row.
LEMMA LatestRunIsRow ==
  ASSUME NEW rs \in Seq(Run), NEW t \in Task, TaskHasRun(rs, t)
  PROVE  /\ LatestRunId(rs, t) \in RunsOfTask(rs, t)
         /\ LatestRunId(rs, t) \in DOMAIN rs
         /\ LatestRun(rs, t) \in Run
<1>1. RunsOfTask(rs, t) \subseteq 1..Len(rs) /\ RunsOfTask(rs, t) # {} /\ Len(rs) \in Nat
  BY DEF TaskHasRun, RunsOfTask
<1>2. LatestRunId(rs, t) \in RunsOfTask(rs, t)
  BY <1>1, LastExists, Zenon DEF LatestRunId
<1> QED
  BY <1>1, <1>2 DEF LatestRun
-----------------------------------------------------------------------------
(* TaskBoard *)

\* Writing some columns of a task row leaves a task row.
LEMMA TaskRowWrites ==
  ASSUME NEW row \in TaskRow, NEW status \in TaskStatus,
         NEW agent \in Agent \cup {None}, NEW reason \in Reason
  PROVE  /\ [row EXCEPT !.status = status, !.reason = reason] \in TaskRow
         /\ [row EXCEPT !.reason = reason, !.status = status] \in TaskRow
         /\ [row EXCEPT !.reason = reason] \in TaskRow
         /\ [row EXCEPT !.status = status, !.agent = agent, !.reason = reason] \in TaskRow
         /\ [row EXCEPT !.status = status, !.reason = reason, !.agent = agent] \in TaskRow
         /\ row.status \in TaskStatus
<1> USE DEF TaskRow
<1>1. /\ [row EXCEPT !.status = status, !.reason = reason] \in TaskRow
      /\ [row EXCEPT !.reason = reason, !.status = status] \in TaskRow
  OBVIOUS
<1>2. [row EXCEPT !.reason = reason] \in TaskRow /\ row.status \in TaskStatus
  OBVIOUS
<1>3. [row EXCEPT !.status = status, !.agent = agent, !.reason = reason] \in TaskRow
  OBVIOUS
<1>4. [row EXCEPT !.status = status, !.reason = reason, !.agent = agent] \in TaskRow
  OBVIOUS
<1> QED
  BY <1>1, <1>2, <1>3, <1>4

\* The statuses and reasons the operators write are statuses and reasons.
LEMMA Words ==
  /\ "backlog" \in TaskStatus /\ "assigned" \in TaskStatus /\ "done" \in TaskStatus
  /\ "waiting_on_paths" \in TaskStatus /\ "working" \in TaskStatus
  /\ "needs_review" \in TaskStatus /\ "blocked" \in TaskStatus
  /\ "none" \in Reason /\ "stale" \in Reason /\ "other" \in Reason
  /\ "blocked_dependency" \in Reason /\ "unmet_dependency" \in Reason
BY DEF TaskStatus, Startable, Reason

\* Writing one worker row keeps the board a board.
LEMMA SetAgentType ==
  ASSUME NEW b \in Board, NEW a \in Agent, NEW status \in IdleLike \cup Busy,
         NEW task \in Task \cup {None}
  PROVE  SetAgent(b, a, status, task) \in Board
BY DEF Board, AgentRow, SetAgent

\* So does writing one task row.
LEMMA SetTaskType ==
  ASSUME NEW b \in Board, NEW t \in Task, NEW status \in TaskStatus,
         NEW agent \in Agent \cup {None}, NEW reason \in Reason
  PROVE  SetTask(b, t, status, agent, reason) \in Board
<1> DEFINE row == [b.task[t] EXCEPT !.status = status, !.agent = agent,
                                    !.reason = reason]
<1>1. row \in TaskRow
  BY DEF Board, TaskRow
<1>2. SetTask(b, t, status, agent, reason) = [b EXCEPT !.task = [b.task EXCEPT ![t] = row]]
  BY DEF SetTask
<1> HIDE DEF row
<1> QED
  BY <1>1, <1>2 DEF Board

\* Releases and reservations keep the board a board.
LEMMA ReservationTypes ==
  ASSUME NEW b \in Board
  PROVE  /\ \A t, a : Release(b, t, a) \in Board
         /\ \A a \in Agent, t \in Task : Reserve(b, a, t) \in Board
<1>1. \A t, a : Release(b, t, a) \in Board
  BY DEF Board, Release
<1>2. \A a \in Agent, t \in Task : Reserve(b, a, t) \in Board
  BY DEF Board, Reserve
<1> QED
  BY <1>1, <1>2

\* Counting a failure saturates.
LEMMA CountFailureType ==
  ASSUME NEW b \in Board, NEW t \in Task
  PROVE  CountFailure(b, t) \in Board
<1> DEFINE row == [b.task[t] EXCEPT !.failures = IF @ < MaxFailures THEN @ + 1 ELSE @]
<1>1. row \in TaskRow
  BY DEF Board, TaskRow, MaxFailures
<1>2. CountFailure(b, t) = [b EXCEPT !.task = [b.task EXCEPT ![t] = row]]
  BY DEF CountFailure
<1> HIDE DEF row
<1> QED
  BY <1>1, <1>2 DEF Board

-----------------------------------------------------------------------------
(* The repairs of LaunchState *)

\* The first repair keeps the board a board.
LEMMA ReleaseOrphanedReservationsType ==
  ASSUME NEW b \in Board, NEW rs
  PROVE  ReleaseOrphanedReservations(b, rs) \in Board
<1> DEFINE orphans == {a \in Agent : OrphanedLockHolder(b, rs, a)}
           agents == [a \in Agent |->
             IF a \in orphans /\ b.agent[a].status \in {"done", "stopped"}
             THEN [b.agent[a] EXCEPT !.status = "waiting"] ELSE b.agent[a]]
           kept == {p \in b.reserved : p[1] \notin orphans}
<1>1. agents \in [Agent -> AgentRow]
  <2> HIDE DEF orphans
  <2> QED
    BY DEF Board, AgentRow, IdleLike
<1>2. kept \in SUBSET (Agent \X Task)
  BY DEF Board
<1>3. ReleaseOrphanedReservations(b, rs) = [b EXCEPT !.reserved = kept, !.agent = agents]
  BY Zenon DEF ReleaseOrphanedReservations
<1> HIDE DEF agents, kept
<1> QED
  BY <1>1, <1>2, <1>3 DEF Board

\* The second repair keeps the board a board: the runs it copies are rows.
LEMMA RestoreRunningTasksType ==
  ASSUME NEW b \in Board, NEW rs \in Seq(Run)
  PROVE  RestoreRunningTasks(b, rs) \in Board
<1> DEFINE running == {t \in Task : TaskHasRun(rs, t)}
           work(a) == {t \in running : LatestRun(rs, t).agent = a}
           tasks == [t \in Task |->
             IF t \in running
             THEN [b.task[t] EXCEPT !.status = "working", !.reason = "none",
                                    !.agent = LatestRun(rs, t).agent]
             ELSE b.task[t]]
           agents == [a \in Agent |->
             IF work(a) # {}
             THEN [task   |-> First(work(a)),
                   status |-> IF b.agent[a].status \in Busy
                              THEN b.agent[a].status ELSE "working"]
             ELSE b.agent[a]]
<1>1. \A t \in running : LatestRun(rs, t).agent \in Agent
  BY LatestRunIsRow DEF Run
<1>2. \A a \in Agent : work(a) # {} => First(work(a)) \in Task
  <2> SUFFICES ASSUME NEW a \in Agent, work(a) # {} PROVE First(work(a)) \in Task
    OBVIOUS
  <2>1. work(a) \subseteq Task /\ work(a) \subseteq Nat
    BY RowsAssumption
  <2> QED
    BY <2>1, FirstExists
<1>3. tasks \in [Task -> TaskRow]
  BY <1>1, TaskRowWrites, Words DEF Board
<1> HIDE DEF work
<1>4. agents \in [Agent -> AgentRow]
  BY <1>2 DEF Board, AgentRow, Busy
<1>5. RestoreRunningTasks(b, rs) = [b EXCEPT !.task = tasks, !.agent = agents]
  BY DEF RestoreRunningTasks, work
<1> HIDE DEF tasks, agents
<1> QED
  BY <1>3, <1>4, <1>5 DEF Board

\* The third repair keeps the board a board.
LEMMA RequeueOrphanedTasksType ==
  ASSUME NEW flushed, NEW b \in Board, NEW rs
  PROVE  RequeueOrphanedTasks(flushed, b, rs) \in Board
<1> DEFINE orphans == OrphanedTasks(flushed, rs)
<1>1. orphans \subseteq Task
  BY DEF OrphanedTasks
<1> HIDE DEF orphans
<1>2. [a \in Agent |->
        [task   |-> IF b.agent[a].task \in orphans THEN None ELSE b.agent[a].task,
         status |-> IF /\ \E t \in orphans : a \in LinkedAgents(flushed, b, t)
                       /\ b.agent[a].status \notin {"done", "stopped"}
                    THEN "waiting" ELSE b.agent[a].status]] \in [Agent -> AgentRow]
  BY DEF Board, AgentRow, IdleLike
<1>3. [t \in Task |->
        IF t \in orphans
        THEN [b.task[t] EXCEPT !.status = "backlog", !.agent = None, !.reason = "other"]
        ELSE b.task[t]] \in [Task -> TaskRow]
  BY TaskRowWrites, Words DEF Board
<1>4. b.reserved \ OrphanReservations(flushed, b, rs) \subseteq Agent \X Task
  BY DEF Board
<1> QED
  BY <1>2, <1>3, <1>4 DEF Board, RequeueOrphanedTasks, orphans

\* The fourth repair keeps the board a board.
LEMMA UnassignIneligibleType ==
  ASSUME NEW flushed, NEW b \in Board, NEW rs
  PROVE  UnassignIneligible(flushed, b, rs) \in Board
<1> DEFINE startable == {t \in Task : flushed.task[t].status \in Startable}
           ownerless == {t \in startable : b.task[t].agent = None
                                           /\ b.task[t].status = "assigned"}
           misowned  == {t \in startable : b.task[t].agent # None
                                           /\ ~AssigneeAvailable(b, rs, t)}
           kept == {p \in b.reserved :
                      ~ (p[2] \in misowned /\ p[1] = b.task[p[2]].agent)}
           tasks == [t \in Task |->
             IF t \in ownerless \cup misowned
             THEN [agent    |-> None,
                   status   |-> IF b.task[t].status = "assigned" THEN "backlog"
                                ELSE b.task[t].status,
                   reason   |-> "other",
                   failures |-> b.task[t].failures]
             ELSE b.task[t]]
<1>0. \A t \in Task :
        /\ b.task[t] \in TaskRow
        /\ [agent    |-> None,
            status   |-> IF b.task[t].status = "assigned" THEN "backlog"
                         ELSE b.task[t].status,
            reason   |-> "other",
            failures |-> b.task[t].failures] \in TaskRow
  <2> SUFFICES ASSUME NEW t \in Task
               PROVE  /\ b.task[t] \in TaskRow
                      /\ [agent    |-> None,
                          status   |-> IF b.task[t].status = "assigned" THEN "backlog"
                                       ELSE b.task[t].status,
                          reason   |-> "other",
                          failures |-> b.task[t].failures] \in TaskRow
    OBVIOUS
  <2>1. b.task[t] \in TaskRow
    BY DEF Board
  <2> QED
    BY <2>1, Words DEF TaskRow
<1>1. tasks \in [Task -> TaskRow]
  <2> HIDE DEF ownerless, misowned
  <2> QED
    BY <1>0
<1>2. UnassignIneligible(flushed, b, rs) = [b EXCEPT !.reserved = kept, !.task = tasks]
  BY Zenon DEF UnassignIneligible
<1> HIDE DEF kept, tasks
<1>3. kept \in SUBSET b.reserved
  BY DEF kept
<1> QED
  BY <1>1, <1>2, <1>3 DEF Board

\* The fifth repair keeps the board a board.
LEMMA RequeueStaleBlockedType ==
  ASSUME NEW b \in Board, NEW rs
  PROVE  RequeueStaleBlocked(b, rs) \in Board
<1> DEFINE stale == {t \in Task : StaleBlocked(b, rs, t)}
           kept == {p \in b.reserved : ~ (p[2] \in stale
                                          /\ b.task[p[2]].agent \in {None, p[1]})}
           tasks == [t \in Task |->
             IF t \in stale
             THEN [b.task[t] EXCEPT !.status = "backlog", !.agent = None,
                                    !.reason = "stale"]
             ELSE b.task[t]]
<1>1. tasks \in [Task -> TaskRow]
  <2> HIDE DEF stale
  <2> QED
    BY TaskRowWrites, Words DEF Board
<1>2. RequeueStaleBlocked(b, rs) = [b EXCEPT !.reserved = kept, !.task = tasks]
  BY Zenon DEF RequeueStaleBlocked
<1> HIDE DEF kept, tasks
<1>3. kept \in SUBSET b.reserved
  BY DEF kept
<1> QED
  BY <1>1, <1>2, <1>3 DEF Board

\* The last repair keeps the board a board.
LEMMA PropagateBlockedDependenciesType ==
  ASSUME NEW b \in Board, NEW rs
  PROVE  PropagateBlockedDependencies(b, rs) \in Board
<1> DEFINE stuck == {t \in Task : BlockedByDependency(b, rs, t)}
           freed == {t \in Task \ stuck : b.task[t].status = "blocked"
                                          /\ b.task[t].reason = "blocked_dependency"}
           owned(a) == {t \in stuck : b.task[t].agent = a}
           agents == [a \in Agent |->
             [task   |-> IF b.agent[a].task \in owned(a) THEN None ELSE b.agent[a].task,
              status |-> IF owned(a) # {} /\ b.agent[a].status \notin {"done", "stopped"}
                         THEN "waiting" ELSE b.agent[a].status]]
           tasks == [t \in Task |->
             IF t \in stuck
             THEN [b.task[t] EXCEPT !.status = "blocked", !.agent = None,
                                    !.reason = "blocked_dependency"]
             ELSE IF t \in freed
             THEN [b.task[t] EXCEPT !.status = "backlog", !.reason = "none"]
             ELSE b.task[t]]
           kept == {p \in b.reserved :
                      ~ (p[2] \in stuck /\ b.task[p[2]].agent \in {None, p[1]})}
<1>1. agents \in [Agent -> AgentRow]
  <2> HIDE DEF owned
  <2> QED
    BY DEF Board, AgentRow, IdleLike
<1>2. tasks \in [Task -> TaskRow]
  <2> HIDE DEF stuck, freed
  <2> QED
    BY TaskRowWrites, Words DEF Board
<1>3. kept \subseteq Agent \X Task
  BY DEF Board
<1>4. PropagateBlockedDependencies(b, rs)
        = [agent |-> agents, task |-> tasks, reserved |-> kept]
  BY Zenon DEF PropagateBlockedDependencies
<1> HIDE DEF agents, tasks, kept
<1> QED
  BY <1>1, <1>2, <1>3, <1>4 DEF Board

\* Whatever the runs, a pass's repairs turn a board into a board.
THEOREM ReconcileType ==
  ASSUME NEW b \in Board, NEW rs \in Seq(Run)
  PROVE  Reconcile(b, rs) \in Board
BY ReleaseOrphanedReservationsType, RestoreRunningTasksType, RequeueOrphanedTasksType,
   UnassignIneligibleType, RequeueStaleBlockedType, PropagateBlockedDependenciesType,
   Zenon DEF Reconcile

-----------------------------------------------------------------------------
(* The moves of the scheduler *)

\* A board together with the launches that leave it.
Moves == [board : Board, launch : SUBSET Flight]

-----------------------------------------------------------------------------
(* A scheduler pass *)

\* Parking tasks keeps the board a board.
LEMMA WaitOnPathsType ==
  ASSUME NEW b \in Board, NEW T
  PROVE  WaitOnPaths(b, T) \in Board
<1> DEFINE tasks == [t \in Task |->
      IF t \in T THEN [b.task[t] EXCEPT !.status = "waiting_on_paths",
                                       !.reason = "other"]
      ELSE b.task[t]]
<1>1. tasks \in [Task -> TaskRow]
  BY TaskRowWrites, Words DEF Board
<1>2. WaitOnPaths(b, T) = [b EXCEPT !.task = tasks]
  BY Zenon DEF WaitOnPaths
<1> HIDE DEF tasks
<1> QED
  BY <1>1, <1>2 DEF Board

\* So does gating tasks by their dependencies.
LEMMA GateTasksType ==
  ASSUME NEW b \in Board
  PROVE  GateTasks(b) \in Board
<1> DEFINE tasks == [t \in Task |->
      IF b.task[t].status \notin Startable THEN b.task[t]
      ELSE IF ~DependenciesMet(b, t)
      THEN [b.task[t] EXCEPT !.reason = "unmet_dependency",
                             !.status = IF b.task[t].agent = None THEN "backlog"
                                        ELSE b.task[t].status]
      ELSE IF b.task[t].reason = "unmet_dependency"
      THEN [b.task[t] EXCEPT !.reason = "none"]
      ELSE b.task[t]]
<1>1. tasks \in [Task -> TaskRow]
  BY TaskRowWrites, Words DEF Board
<1>2. GateTasks(b) = [b EXCEPT !.task = tasks]
  BY Zenon DEF GateTasks
<1> HIDE DEF tasks
<1> QED
  BY <1>1, <1>2 DEF Board

\* So does marking the workers that found nothing.
LEMMA MarkWaitingType ==
  ASSUME NEW b \in Board, NEW plan
  PROVE  MarkWaiting(b, plan) \in Board
<1>1. \A w \in Board : \A A : [w EXCEPT !.agent = [a \in Agent |->
         IF a \in A THEN [w.agent[a] EXCEPT !.status = "waiting"]
         ELSE w.agent[a]]] \in Board
  <2> SUFFICES ASSUME NEW w \in Board, NEW A
               PROVE  [w EXCEPT !.agent = [a \in Agent |->
                        IF a \in A THEN [w.agent[a] EXCEPT !.status = "waiting"]
                        ELSE w.agent[a]]] \in Board
    OBVIOUS
  <2> DEFINE agents == [a \in Agent |->
               IF a \in A THEN [w.agent[a] EXCEPT !.status = "waiting"]
               ELSE w.agent[a]]
  <2>1. agents \in [Agent -> AgentRow]
    BY DEF Board, AgentRow, IdleLike
  <2> HIDE DEF agents
  <2>2. [w EXCEPT !.agent = agents] \in Board
    BY <2>1 DEF Board
  <2> QED
    BY <2>2, Zenon DEF agents
<1> QED
  BY <1>1, WaitOnPathsType, Zenon DEF MarkWaiting

\* So does a pass that the launch guard refuses.
LEMMA GuardedOffType ==
  ASSUME NEW b \in Board
  PROVE  GuardedOff(b) \in Board
BY DEF Board, AgentRow, IdleLike, GuardedOff

\* A plan's launches are launches.
LEMMA PlannedType ==
  ASSUME NEW plan \in [Agent -> Task \cup {None}], NEW s \in Scanner
  PROVE  Planned(plan, s) \subseteq Flight
BY DEF Planned, Flight

\* A pass leaves a board and launches.
LEMMA PassOutcomesType ==
  ASSUME NEW s \in Scanner, NEW b \in Board, runs \in Seq(Run), flights \subseteq Flight,
         NEW o \in PassOutcomes(s, b)
  PROVE  o.board \in Board /\ o.flights \subseteq Flight
<1> DEFINE r == Reconcile(b, runs)
           g == GateTasks(r)
<1>1. r \in Board
  BY ReconcileType
<1>2. CASE GuardBlocks
  <2>1. o = [board |-> GuardedOff(r), flights |-> flights]
    BY <1>2, Zenon DEF PassOutcomes
  <2> HIDE DEF r
  <2>2. GuardedOff(r) \in Board
    BY <1>1, GuardedOffType
  <2> QED
    BY <2>1, <2>2
<1>3. CASE ~GuardBlocks
  <2>1. PICK plan \in Plans(g) :
          o = [board |-> MarkWaiting(g, plan), flights |-> flights \cup Planned(plan, s)]
    BY <1>3, Zenon DEF PassOutcomes
  <2>2. plan \in [Agent -> Task \cup {None}]
    BY Zenon DEF Plans
  <2> HIDE DEF r
  <2>3. g \in Board
    BY <1>1, GateTasksType
  <2> HIDE DEF g
  <2>4. MarkWaiting(g, plan) \in Board /\ Planned(plan, s) \subseteq Flight
    BY <2>2, <2>3, MarkWaitingType, PlannedType
  <2> QED
    BY <2>1, <2>4
<1> QED
  BY <1>2, <1>3

\* A plan only launches tasks some worker may be given.
LEMMA CandidatesAreTasks ==
  ASSUME NEW b, NEW rs, NEW a, NEW planned
  PROVE  Candidates(b, rs, a, planned) \subseteq Task
BY DEF Candidates, Considered

-----------------------------------------------------------------------------
(* Refused launches *)

\* Putting a refused launch back keeps the board a board.
LEMMA DeferLaunchType ==
  ASSUME NEW b \in Board, NEW rs, NEW f \in Flight
  PROVE  DeferLaunch(b, rs, f) \in Board
<1>1. f.task \in Task /\ f.agent \in Agent
  BY DEF Flight
<1>2. SetTask(b, f.task, "backlog", None, "other") \in Board
  BY <1>1, SetTaskType DEF TaskStatus, Startable, Reason
<1>3. \A c \in Board : SetAgent(c, f.agent, "waiting", None) \in Board
  BY <1>1, SetAgentType DEF IdleLike
<1> QED
  BY <1>2, <1>3, Zenon DEF DeferLaunch

\* So does looking at the refusals of a pass.
LEMMA HandleRefusalsType ==
  ASSUME NEW b \in Board, NEW s
  PROVE  HandleRefusals(b, s) \in Board
<1> DEFINE why(a) == {f.why : f \in {g \in failures : g.by = s /\ g.agent = a}}
           agents == [a \in Agent |->
             IF "agent" \in why(a) /\ b.agent[a].status \in IdleLike
             THEN [b.agent[a] EXCEPT !.status = "starting"]
             ELSE IF "task" \in why(a)
             THEN [task   |-> None,
                   status |-> IF b.agent[a].status = "done" THEN "done" ELSE "waiting"]
             ELSE b.agent[a]]
<1>1. agents \in [Agent -> AgentRow]
  <2> HIDE DEF why
  <2> QED
    BY DEF Board, AgentRow, IdleLike, Busy
<1>2. HandleRefusals(b, s) = [b EXCEPT !.agent = agents]
  BY Zenon DEF HandleRefusals
<1> HIDE DEF agents
<1> QED
  BY <1>1, <1>2 DEF Board

-----------------------------------------------------------------------------
(* Decisions *)

\* A decision without a launch is a move.
LEMMA QuietlyType ==
  ASSUME NEW b \in Board
  PROVE  Quietly(b) \subseteq Moves
BY DEF Quietly, Moves

\* An immediate launch is a move.
LEMMA ImmediatelyType ==
  ASSUME NEW b \in Board, NEW undone \in Board, NEW rs,
         NEW c \in Agent, NEW t \in Task
  PROVE  Immediately(b, undone, rs, c, t) \subseteq Moves
<1> DEFINE f == [agent |-> c, task |-> t, by |-> "decision"]
<1>1. f \in Flight
  BY DEF Flight
<1> HIDE DEF f
<1>2. DeferLaunch(b, rs, f) \in Board
  BY <1>1, DeferLaunchType
<1>3. {[board |-> b, launch |-> {f}]} \subseteq Moves
  BY <1>1 DEF Moves
<1>4. /\ Quietly(b) \subseteq Moves
      /\ Quietly(DeferLaunch(b, rs, f)) \subseteq Moves
      /\ Quietly(undone) \subseteq Moves
  BY <1>2, QuietlyType
<1> QED
  BY <1>3, <1>4, Zenon DEF Immediately, f

\* Reviving a blocked task keeps the board a board.
LEMMA RevivedType ==
  ASSUME NEW b \in Board, NEW rs, NEW t \in Task
  PROVE  Revived(b, rs, t) \in Board
<1>1. SetTask(b, t, "backlog", b.task[t].agent, "none") \in Board
  <2>1. b.task[t].agent \in Agent \cup {None}
    BY DEF Board, TaskRow
  <2> QED
    BY <2>1, SetTaskType, Words
<1> QED
  BY <1>1, Zenon DEF Revived

\* assign_next_task moves.
LEMMA AssignNextType ==
  ASSUME NEW b \in Board, NEW rs, NEW a \in Agent
  PROVE  AssignNext(b, rs, a) \subseteq Moves
<1> SUFFICES ASSUME NEW e \in AssignNext(b, rs, a) PROVE e \in Moves
  OBVIOUS
<1> DEFINE b1(t) == Revived(b, rs, t)
           own(t) == IF <<a, t>> \in Matches THEN {a} ELSE {}
           named(t) == Assignable(b1(t), rs, t)
           assignee(t, n) == IF n \in named(t) THEN {n} ELSE own(t) \cap named(t)
           chosen(t, n) == CHOOSE c \in assignee(t, n) : TRUE
           assigned(t, n) == SetTask(b1(t), t, "assigned", chosen(t, n), b1(t).task[t].reason)
<1>1. PICK t \in Task :
        e \in IF b1(t).task[t].status \notin Startable \/ TaskHasRun(rs, t)
              THEN Quietly(b1(t))
              ELSE UNION {IF assignee(t, n) = {} THEN Quietly(b1(t))
                          ELSE Immediately(assigned(t, n), b, rs, chosen(t, n), t)
                          : n \in Agent \cup {None}}
  BY Zenon DEF AssignNext
<1>2. b1(t) \in Board /\ Quietly(b1(t)) \subseteq Moves
  BY RevivedType, QuietlyType
<1>3. \A n : assignee(t, n) # {} => chosen(t, n) \in Agent
  <2>1. \A n : assignee(t, n) \subseteq Agent
    BY DEF Assignable
  <2> HIDE DEF assignee
  <2> QED
    BY <2>1
<1> HIDE DEF assignee, chosen, b1
<1>4. ASSUME NEW n, assignee(t, n) # {}
      PROVE  Immediately(assigned(t, n), b, rs, chosen(t, n), t) \subseteq Moves
  <2>1. chosen(t, n) \in Agent
    BY <1>3, <1>4
  <2>2. b1(t).task[t].reason \in Reason
    BY <1>2 DEF Board, TaskRow
  <2>3. assigned(t, n) \in Board
    BY <1>2, <2>1, <2>2, SetTaskType DEF TaskStatus, Startable
  <2> HIDE DEF assigned
  <2> QED
    BY <2>1, <2>3, ImmediatelyType
<1> QED
  BY <1>1, <1>2, <1>4

\* Marking the task of a decision moves.
LEMMA MarkTaskType ==
  ASSUME NEW b \in Board, NEW t \in Task, NEW status \in TaskStatus
  PROVE  MarkTask(b, t, status) \subseteq Moves
<1>1. SetTask(b, t, status, b.task[t].agent, b.task[t].reason) \in Board
  BY SetTaskType DEF Board, TaskRow
<1> QED
  BY <1>1, QuietlyType DEF MarkTask

\* Marking the worker of a decision keeps the board a board.
LEMMA MarkAgentType ==
  ASSUME NEW b \in Board, NEW a \in Agent, NEW status \in IdleLike
  PROVE  MarkAgent(b, a, status) \in Board
<1>1. b.agent[a].task \in Task \cup {None}
  BY DEF Board, AgentRow
<1> QED
  BY <1>1, SetAgentType DEF MarkAgent

\* request_fix moves.
LEMMA RequestFixType ==
  ASSUME NEW b \in Board, NEW rs, NEW a \in Agent, NEW t \in Task
  PROVE  RequestFix(b, rs, a, t) \subseteq Moves
<1> DEFINE c == IF b.task[t].agent = None THEN a ELSE b.task[t].agent
           b1 == SetTask(b, t, "assigned", b.task[t].agent, "other")
           b2 == SetTask(b, t, "blocked", b.task[t].agent, b.task[t].reason)
<1>1. b.task[t].agent \in Agent \cup {None} /\ b.task[t].reason \in Reason
  BY DEF Board, TaskRow
<1>2. c \in Agent
  BY <1>1
<1>3. b1 \in Board /\ b2 \in Board
  BY <1>1, SetTaskType DEF TaskStatus, Startable, Reason
<1> HIDE DEF c, b1, b2
<1>4. Immediately(b1, b, rs, c, t) \subseteq Moves /\ Quietly(b2) \subseteq Moves
  BY <1>2, <1>3, ImmediatelyType, QuietlyType
<1> QED
  BY <1>4, Zenon DEF RequestFix, c, b1, b2

\* escalate_to_user moves.
LEMMA EscalateType ==
  ASSUME NEW b \in Board, NEW a \in Agent, NEW t \in Task
  PROVE  Escalate(b, a, t) \subseteq Moves
<1> DEFINE b1 == MarkAgent(b, a, "waiting")
           b2 == SetTask(b1, t, b.task[t].status, None, "other")
<1>1. b1 \in Board
  BY MarkAgentType DEF IdleLike
<1>2. b.task[t].status \in TaskStatus
  BY DEF Board, TaskRow
<1> HIDE DEF b1
<1>3. b2 \in Board
  BY <1>1, <1>2, SetTaskType DEF Reason
<1> HIDE DEF b2
<1>4. \A o : Release(b2, t, o) \in Board
  BY <1>3, ReservationTypes
<1>5. Quietly(b1) \subseteq Moves /\ Quietly(b2) \subseteq Moves
  BY <1>1, <1>3, QuietlyType
<1>6. \A o : Quietly(Release(b2, t, o)) \subseteq Moves
  BY <1>4, QuietlyType
<1> QED
  BY <1>5, <1>6, Zenon DEF Escalate, b1, b2

\* Whatever the manager decides moves the board.
LEMMA DecidedType ==
  ASSUME NEW b \in Board, NEW rs \in Seq(Run), NEW r \in DOMAIN rs, NEW overruled
  PROVE  Decided(b, rs, r, overruled) \subseteq Moves
<1> DEFINE a == rs[r].agent
           t == rs[r].task
<1>1. a \in Agent /\ t \in Task
  <2>1. rs[r] \in Run
    OBVIOUS
  <2> QED
    BY <2>1 DEF Run
<1> HIDE DEF a, t
<1>2. /\ AssignNext(b, rs, a) \subseteq Moves
      /\ RequestFix(b, rs, a, t) \subseteq Moves
      /\ Escalate(b, a, t) \subseteq Moves
  BY <1>1, AssignNextType, RequestFixType, EscalateType
<1>3. MarkTask(b, t, "done") \subseteq Moves /\ MarkTask(b, t, "blocked") \subseteq Moves
  BY <1>1, MarkTaskType DEF TaskStatus
<1>4. MarkAgent(b, a, "done") \in Board /\ MarkAgent(b, a, "waiting") \in Board
  BY <1>1, MarkAgentType DEF IdleLike
<1>5. /\ Quietly(MarkAgent(b, a, "done")) \subseteq Moves
      /\ Quietly(MarkAgent(b, a, "waiting")) \subseteq Moves
  BY <1>4, QuietlyType
<1> QED
  BY <1>2, <1>3, <1>5, Zenon DEF Decided, a, t

-----------------------------------------------------------------------------
(* Reports, stops and restarts *)

\* A report writes single fields of a task row.
LEMMA TaskFieldTypes ==
  /\ \A b \in Board, t \in Task, status \in TaskStatus :
       [b EXCEPT !.task[t].status = status] \in Board
  /\ \A b \in Board, t \in Task : [b EXCEPT !.task[t].failures = 0] \in Board
<1>1. ASSUME NEW b \in Board, NEW t \in Task, NEW status \in TaskStatus
      PROVE  [b EXCEPT !.task[t].status = status] \in Board
  <2>1. [b.task[t] EXCEPT !.status = status] \in TaskRow
    BY DEF Board, TaskRow
  <2>2. [b.task EXCEPT ![t] = [b.task[t] EXCEPT !.status = status]] \in [Task -> TaskRow]
    BY <2>1 DEF Board
  <2> QED
    BY <2>2 DEF Board
<1>2. ASSUME NEW b \in Board, NEW t \in Task
      PROVE  [b EXCEPT !.task[t].failures = 0] \in Board
  <2>1. [b.task[t] EXCEPT !.failures = 0] \in TaskRow
    BY DEF Board, TaskRow, MaxFailures
  <2>2. [b.task EXCEPT ![t] = [b.task[t] EXCEPT !.failures = 0]] \in [Task -> TaskRow]
    BY <2>1 DEF Board
  <2> QED
    BY <2>2 DEF Board
<1> QED
  BY <1>1, <1>2

\* Ingesting a report keeps the board a board.
LEMMA IngestedType ==
  ASSUME NEW b \in Board, runs \in Seq(Run), NEW r \in DOMAIN runs, NEW o \in Outcome
  PROVE  Ingested(b, r, o) \in Board
<1> DEFINE a == runs[r].agent
           t == runs[r].task
           b1 == Rests(b, a)
           b2 == [b1 EXCEPT !.task[t].status = StatusAfter(o)]
           b3 == IF o \in {"blocked", "error"} THEN CountFailure(b2, t)
                 ELSE IF o = "done" THEN [b2 EXCEPT !.task[t].failures = 0]
                 ELSE b2
<1>1. a \in Agent /\ t \in Task
  <2>1. runs[r] \in Run
    OBVIOUS
  <2> QED
    BY <2>1 DEF Run
<1>2. Ingested(b, r, o) = Release(b3, t, a)
  BY Zenon DEF Ingested
<1> HIDE DEF a, t
<1>3. b1 \in Board
  BY <1>1, SetAgentType DEF IdleLike, Rests
<1> HIDE DEF b1
<1>4. b2 \in Board
  <2>1. StatusAfter(o) \in TaskStatus
    BY DEF TaskStatus, Startable, StatusAfter, Outcome
  <2> QED
    BY <1>1, <1>3, <2>1, TaskFieldTypes, Zenon
<1> HIDE DEF b2
<1>5. [b2 EXCEPT !.task[t].failures = 0] \in Board
  BY <1>1, <1>4, TaskFieldTypes, Zenon
<1>6. b3 \in Board
  BY <1>1, <1>4, <1>5, CountFailureType
<1> HIDE DEF b3
<1> QED
  BY <1>2, <1>6, ReservationTypes

\* Rejecting a completion keeps the board a board.
LEMMA RejectedType ==
  ASSUME NEW b \in Board, runs \in Seq(Run), NEW r \in DOMAIN runs
  PROVE  Rejected(b, r) \in Board
<1> DEFINE a == runs[r].agent
           t == runs[r].task
           b1 == CountFailure(Rests(b, a), t)
           b2 == IF b.task[t].failures = 0
                 THEN SetTask(b1, t, "backlog", None, "other")
                 ELSE SetTask(b1, t, "needs_review", b.task[t].agent, "other")
<1>1. a \in Agent /\ t \in Task
  <2>1. runs[r] \in Run
    OBVIOUS
  <2> QED
    BY <2>1 DEF Run
<1>2. Rejected(b, r) = ReleaseOrphanedReservations(Release(b2, t, a), runs')
  BY Zenon DEF Rejected
<1> HIDE DEF a, t
<1>3. b1 \in Board
  <2>1. Rests(b, a) \in Board
    BY <1>1, SetAgentType DEF IdleLike, Rests
  <2> QED
    BY <1>1, <2>1, CountFailureType
<1> HIDE DEF b1
<1>4. b.task[t].agent \in Agent \cup {None}
  BY <1>1 DEF Board, TaskRow
<1>5. b2 \in Board
  BY <1>1, <1>3, <1>4, SetTaskType DEF TaskStatus, Startable, Reason
<1> HIDE DEF b2
<1>6. Release(b2, t, a) \in Board
  BY <1>5, ReservationTypes
<1> QED
  BY <1>2, <1>6, ReleaseOrphanedReservationsType

\* Stopping workers keeps the board a board.
LEMMA StoppedBoardType ==
  ASSUME NEW b \in Board, NEW A, NEW named, NEW R
  PROVE  StoppedBoard(b, A, named, R) \in Board
<1> DEFINE hit == named \cup {runs[r].task : r \in R}
           agents == [a \in Agent |->
             IF a \in A THEN [status |-> "stopped", task |-> None] ELSE b.agent[a]]
           tasks == [t \in Task |->
             IF t \in hit /\ b.task[t].status = "working"
             THEN [b.task[t] EXCEPT !.status = "assigned", !.agent = None,
                                    !.reason = "other"]
             ELSE b.task[t]]
<1>1. agents \in [Agent -> AgentRow]
  BY DEF Board, AgentRow, IdleLike
<1>2. tasks \in [Task -> TaskRow]
  <2> HIDE DEF hit
  <2> QED
    BY TaskRowWrites, Words DEF Board
<1>3. /\ ReleaseAll(b, A) \in Board
      /\ ReleaseAll(b, A).agent = b.agent
      /\ ReleaseAll(b, A).task = b.task
  BY DEF Board, ReleaseAll
<1>4. StoppedBoard(b, A, named, R)
        = [ReleaseAll(b, A) EXCEPT !.agent = agents, !.task = tasks]
  BY <1>3, Zenon DEF StoppedBoard
<1> HIDE DEF agents, tasks
<1> QED
  BY <1>1, <1>2, <1>3, <1>4 DEF Board

\* What the startup repair does for interrupted runs keeps the board a board.
LEMMA InterruptedType ==
  ASSUME NEW b \in Board, NEW R
  PROVE  Interrupted(b, R) \in Board
<1> DEFINE hit == {runs[r].task : r \in R}
           halted == {runs[r].agent : r \in R}
           agents == [a \in Agent |->
             IF a \in halted THEN [status |-> "waiting", task |-> None] ELSE b.agent[a]]
           tasks == [t \in Task |->
             IF t \in hit
             THEN [b.task[t] EXCEPT !.status = "backlog", !.agent = None,
                                    !.reason = "other"]
             ELSE b.task[t]]
           kept == b.reserved \ PairsOf(R)
<1>1. agents \in [Agent -> AgentRow]
  <2> HIDE DEF halted
  <2> QED
    BY DEF Board, AgentRow, IdleLike
<1>2. tasks \in [Task -> TaskRow]
  <2> HIDE DEF hit
  <2> QED
    BY TaskRowWrites, Words DEF Board
<1>3. kept \subseteq Agent \X Task
  BY DEF Board
<1>4. Interrupted(b, R) = [agent |-> agents, task |-> tasks, reserved |-> kept]
  BY Zenon DEF Interrupted
<1> HIDE DEF agents, tasks, kept
<1> QED
  BY <1>1, <1>2, <1>3, <1>4 DEF Board

-----------------------------------------------------------------------------
(* What the operators may add.  Repairs, passes and decisions never        *)
(* reserve a path, and show a task as being worked on, or give a running   *)
(* task to a worker, only as the run table says.                           *)

NoMoreHeld(b, c, rs) ==
  /\ c.reserved \subseteq b.reserved
  /\ \A t \in Task :
       /\ c.task[t].status = "working" => b.task[t].status = "working" \/ TaskHasRun(rs, t)
       /\ TaskHasRun(rs, t) =>
            c.task[t].agent \in {None, b.task[t].agent, LatestRun(rs, t).agent}

\* Doing nothing adds nothing, and neither do two steps that add nothing.
LEMMA NoMoreHeldOrder ==
  /\ \A b, rs : NoMoreHeld(b, b, rs)
  /\ \A b, c, d, rs : NoMoreHeld(b, c, rs) /\ NoMoreHeld(c, d, rs) => NoMoreHeld(b, d, rs)
<1>1. \A b, rs : NoMoreHeld(b, b, rs)
  BY DEF NoMoreHeld
<1>2. ASSUME NEW b, NEW c, NEW d, NEW rs, NoMoreHeld(b, c, rs), NoMoreHeld(c, d, rs)
      PROVE  NoMoreHeld(b, d, rs)
  <2>1. d.reserved \subseteq b.reserved
    BY <1>2 DEF NoMoreHeld
  <2>2. ASSUME NEW t \in Task
        PROVE  /\ d.task[t].status = "working"
                    => b.task[t].status = "working" \/ TaskHasRun(rs, t)
               /\ TaskHasRun(rs, t) =>
                    d.task[t].agent \in {None, b.task[t].agent, LatestRun(rs, t).agent}
    BY <1>2 DEF NoMoreHeld
  <2> QED
    BY <2>1, <2>2 DEF NoMoreHeld
<1> QED
  BY <1>1, <1>2

\* Writing worker rows adds nothing.
LEMMA SetAgentHolds ==
  ASSUME NEW b, NEW a, NEW status, NEW task, NEW rs
  PROVE  NoMoreHeld(b, SetAgent(b, a, status, task), rs)
BY DEF NoMoreHeld, SetAgent

\* Writing a task row that does not say "working" adds nothing, unless it
\* gives a running task away.
LEMMA SetTaskHolds ==
  ASSUME NEW b \in Board, NEW t \in Task, NEW status, NEW agent, NEW reason, NEW rs,
         status # "working" \/ status = b.task[t].status,
         agent \in {None, b.task[t].agent} \/ ~TaskHasRun(rs, t)
  PROVE  NoMoreHeld(b, SetTask(b, t, status, agent, reason), rs)
<1> DEFINE row == [b.task[t] EXCEPT !.status = status, !.agent = agent,
                                    !.reason = reason]
           c == SetTask(b, t, status, agent, reason)
<1>1. b.task[t] \in TaskRow /\ b.task \in [Task -> TaskRow]
  BY DEF Board
<1>2. row.status = status /\ row.agent = agent
  BY <1>1 DEF TaskRow
<1>3. c = [b EXCEPT !.task = [b.task EXCEPT ![t] = row]]
  BY DEF SetTask
<1>4. c.reserved = b.reserved /\ c.task = [b.task EXCEPT ![t] = row]
  BY <1>3 DEF Board
<1> HIDE DEF row, c
<1> QED
  BY <1>1, <1>2, <1>4 DEF NoMoreHeld, c

\* A release adds nothing.
LEMMA ReleaseHolds ==
  ASSUME NEW b \in Board, NEW t, NEW a, NEW rs
  PROVE  NoMoreHeld(b, Release(b, t, a), rs)
BY DEF NoMoreHeld, Release, Board

\* The first repair releases.
LEMMA ReleaseOrphanedReservationsHolds ==
  ASSUME NEW b \in Board, NEW rs
  PROVE  NoMoreHeld(b, ReleaseOrphanedReservations(b, rs), rs)
<1> DEFINE c == ReleaseOrphanedReservations(b, rs)
<1>1. c.reserved \subseteq b.reserved /\ c.task = b.task
  BY DEF ReleaseOrphanedReservations, Board
<1> QED
  BY <1>1 DEF NoMoreHeld

\* The second repair copies the run table.
LEMMA RestoreRunningTasksHolds ==
  ASSUME NEW b \in Board, NEW rs
  PROVE  NoMoreHeld(b, RestoreRunningTasks(b, rs), rs)
<1> DEFINE running == {t \in Task : TaskHasRun(rs, t)}
           row(t) == IF t \in running
                     THEN [b.task[t] EXCEPT !.status = "working", !.reason = "none",
                                            !.agent = LatestRun(rs, t).agent]
                     ELSE b.task[t]
           c == RestoreRunningTasks(b, rs)
<1>1. c.reserved = b.reserved /\ c.task = [t \in Task |-> row(t)]
  BY Zenon DEF RestoreRunningTasks, Board
<1>2. ASSUME NEW t \in Task
      PROVE  /\ t \notin running => row(t) = b.task[t]
             /\ t \in running => row(t).agent = LatestRun(rs, t).agent
  <2>1. b.task[t] \in TaskRow
    BY DEF Board
  <2> QED
    BY <2>1 DEF TaskRow
<1>3. \A t \in Task : t \in running <=> TaskHasRun(rs, t)
  OBVIOUS
<1> HIDE DEF running, row, c
<1> QED
  BY <1>1, <1>2, <1>3 DEF NoMoreHeld, c

\* The third repair requeues.
LEMMA RequeueOrphanedTasksHolds ==
  ASSUME NEW flushed, NEW b \in Board, NEW rs
  PROVE  NoMoreHeld(b, RequeueOrphanedTasks(flushed, b, rs), rs)
<1> DEFINE orphans == OrphanedTasks(flushed, rs)
           row(t) == IF t \in orphans
                     THEN [b.task[t] EXCEPT !.status = "backlog", !.agent = None,
                                            !.reason = "other"]
                     ELSE b.task[t]
           c == RequeueOrphanedTasks(flushed, b, rs)
<1>1. c.reserved \subseteq b.reserved /\ c.task = [t \in Task |-> row(t)]
  BY DEF RequeueOrphanedTasks
<1>2. \A t \in Task : row(t).status \in {"backlog", b.task[t].status}
                      /\ row(t).agent \in {None, b.task[t].agent}
  BY DEF Board, TaskRow
<1> HIDE DEF row, c
<1> QED
  BY <1>1, <1>2 DEF NoMoreHeld, c

\* The fourth repair unassigns.
LEMMA UnassignIneligibleHolds ==
  ASSUME NEW flushed, NEW b \in Board, NEW rs
  PROVE  NoMoreHeld(b, UnassignIneligible(flushed, b, rs), rs)
<1> DEFINE startable == {t \in Task : flushed.task[t].status \in Startable}
           ownerless == {t \in startable : b.task[t].agent = None
                                           /\ b.task[t].status = "assigned"}
           misowned  == {t \in startable : b.task[t].agent # None
                                           /\ ~AssigneeAvailable(b, rs, t)}
           kept == {p \in b.reserved :
                      ~ (p[2] \in misowned /\ p[1] = b.task[p[2]].agent)}
           taken == ownerless \cup misowned
           row(t) == IF t \in taken
                     THEN [agent    |-> None,
                           status   |-> IF b.task[t].status = "assigned" THEN "backlog"
                                        ELSE b.task[t].status,
                           reason   |-> "other",
                           failures |-> b.task[t].failures]
                     ELSE b.task[t]
           c == UnassignIneligible(flushed, b, rs)
<1>1. c = [b EXCEPT !.reserved = kept, !.task = [t \in Task |-> row(t)]]
  BY Zenon DEF UnassignIneligible
<1>2. kept \subseteq b.reserved
  OBVIOUS
<1> HIDE DEF taken, kept
<1>3. \A t \in Task : row(t).status \in {"backlog", b.task[t].status}
                      /\ row(t).agent \in {None, b.task[t].agent}
  OBVIOUS
<1> HIDE DEF row, c
<1>4. c.reserved \subseteq b.reserved /\ c.task = [t \in Task |-> row(t)]
  BY <1>1, <1>2 DEF Board
<1> QED
  BY <1>3, <1>4 DEF NoMoreHeld, c

\* The fifth repair requeues.
LEMMA RequeueStaleBlockedHolds ==
  ASSUME NEW b \in Board, NEW rs
  PROVE  NoMoreHeld(b, RequeueStaleBlocked(b, rs), rs)
<1> DEFINE stale == {t \in Task : StaleBlocked(b, rs, t)}
           kept == {p \in b.reserved : ~ (p[2] \in stale
                                          /\ b.task[p[2]].agent \in {None, p[1]})}
           row(t) == IF t \in stale
                     THEN [b.task[t] EXCEPT !.status = "backlog", !.agent = None,
                                            !.reason = "stale"]
                     ELSE b.task[t]
           c == RequeueStaleBlocked(b, rs)
<1>1. c = [b EXCEPT !.reserved = kept, !.task = [t \in Task |-> row(t)]]
  BY Zenon DEF RequeueStaleBlocked
<1>2. kept \subseteq b.reserved
  OBVIOUS
<1> HIDE DEF stale, kept
<1>3. \A t \in Task : row(t).status \in {"backlog", b.task[t].status}
                      /\ row(t).agent \in {None, b.task[t].agent}
  BY DEF Board, TaskRow
<1> HIDE DEF row, c
<1>4. c.reserved \subseteq b.reserved /\ c.task = [t \in Task |-> row(t)]
  BY <1>1, <1>2 DEF Board
<1> QED
  BY <1>3, <1>4 DEF NoMoreHeld, c

\* The last repair blocks and frees.
LEMMA PropagateBlockedDependenciesHolds ==
  ASSUME NEW b \in Board, NEW rs
  PROVE  NoMoreHeld(b, PropagateBlockedDependencies(b, rs), rs)
<1> DEFINE stuck == {t \in Task : BlockedByDependency(b, rs, t)}
           freed == {t \in Task \ stuck : b.task[t].status = "blocked"
                                          /\ b.task[t].reason = "blocked_dependency"}
           row(t) == IF t \in stuck
                     THEN [b.task[t] EXCEPT !.status = "blocked", !.agent = None,
                                            !.reason = "blocked_dependency"]
                     ELSE IF t \in freed
                     THEN [b.task[t] EXCEPT !.status = "backlog", !.reason = "none"]
                     ELSE b.task[t]
           c == PropagateBlockedDependencies(b, rs)
<1>1. c.reserved \subseteq b.reserved /\ c.task = [t \in Task |-> row(t)]
  BY DEF PropagateBlockedDependencies
<1> HIDE DEF stuck, freed
<1>2. \A t \in Task : row(t).status \in {"backlog", "blocked", b.task[t].status}
                      /\ row(t).agent \in {None, b.task[t].agent}
  BY DEF Board, TaskRow
<1> HIDE DEF row, c
<1> QED
  BY <1>1, <1>2 DEF NoMoreHeld, c

\* So a pass's repairs together add nothing but what the run table says.
LEMMA ReconcileHolds ==
  ASSUME NEW b \in Board, NEW rs \in Seq(Run)
  PROVE  NoMoreHeld(b, Reconcile(b, rs), rs)
<1> DEFINE b1 == ReleaseOrphanedReservations(b, rs)
           b2 == RestoreRunningTasks(b1, rs)
           b3 == RequeueOrphanedTasks(b1, b2, rs)
           flushed == IF OrphanReservations(b1, b2, rs) # {} THEN b3 ELSE b1
           b4 == UnassignIneligible(flushed, b3, rs)
           b5 == RequeueStaleBlocked(b4, rs)
<1>1. Reconcile(b, rs) = PropagateBlockedDependencies(b5, rs)
  BY Zenon DEF Reconcile
<1>2. b1 \in Board /\ NoMoreHeld(b, b1, rs)
  BY ReleaseOrphanedReservationsType, ReleaseOrphanedReservationsHolds
<1> HIDE DEF b1
<1>3. b2 \in Board /\ NoMoreHeld(b1, b2, rs)
  BY <1>2, RestoreRunningTasksType, RestoreRunningTasksHolds
<1> HIDE DEF b2
<1>4. b3 \in Board /\ NoMoreHeld(b2, b3, rs)
  BY <1>3, RequeueOrphanedTasksType, RequeueOrphanedTasksHolds
<1> HIDE DEF b3, flushed
<1>5. b4 \in Board /\ NoMoreHeld(b3, b4, rs)
  BY <1>4, UnassignIneligibleType, UnassignIneligibleHolds
<1> HIDE DEF b4
<1>6. b5 \in Board /\ NoMoreHeld(b4, b5, rs)
  BY <1>5, RequeueStaleBlockedType, RequeueStaleBlockedHolds
<1> HIDE DEF b5
<1>7. NoMoreHeld(b5, PropagateBlockedDependencies(b5, rs), rs)
  BY <1>6, PropagateBlockedDependenciesHolds
<1>8. NoMoreHeld(b, b3, rs)
  BY <1>2, <1>3, <1>4, NoMoreHeldOrder, Zenon
<1> QED
  BY <1>1, <1>5, <1>6, <1>7, <1>8, NoMoreHeldOrder, Zenon

\* Parking tasks adds nothing.
LEMMA WaitOnPathsHolds ==
  ASSUME NEW b \in Board, NEW T, NEW rs
  PROVE  NoMoreHeld(b, WaitOnPaths(b, T), rs)
<1> DEFINE row(t) == IF t \in T THEN [b.task[t] EXCEPT !.status = "waiting_on_paths",
                                                      !.reason = "other"]
                     ELSE b.task[t]
           c == WaitOnPaths(b, T)
<1>1. c.reserved = b.reserved /\ c.task = [t \in Task |-> row(t)]
  BY DEF WaitOnPaths, Board
<1>2. \A t \in Task : row(t).status \in {"waiting_on_paths", b.task[t].status}
                      /\ row(t).agent = b.task[t].agent
  BY DEF Board, TaskRow
<1> HIDE DEF row, c
<1> QED
  BY <1>1, <1>2 DEF NoMoreHeld, c

\* So does gating tasks by their dependencies.
LEMMA GateTasksHolds ==
  ASSUME NEW b \in Board, NEW rs
  PROVE  NoMoreHeld(b, GateTasks(b), rs)
<1> DEFINE row(t) == IF b.task[t].status \notin Startable THEN b.task[t]
                     ELSE IF ~DependenciesMet(b, t)
                     THEN [b.task[t] EXCEPT !.reason = "unmet_dependency",
                                            !.status = IF b.task[t].agent = None THEN "backlog"
                                                       ELSE b.task[t].status]
                     ELSE IF b.task[t].reason = "unmet_dependency"
                     THEN [b.task[t] EXCEPT !.reason = "none"]
                     ELSE b.task[t]
           c == GateTasks(b)
<1>1. c = [b EXCEPT !.task = [t \in Task |-> row(t)]]
  BY Zenon DEF GateTasks
<1>2. \A t \in Task : row(t).status \in {"backlog", b.task[t].status}
                      /\ row(t).agent = b.task[t].agent
  BY DEF Board, TaskRow
<1> HIDE DEF row, c
<1>3. c.reserved = b.reserved /\ c.task = [t \in Task |-> row(t)]
  BY <1>1 DEF Board
<1> QED
  BY <1>2, <1>3 DEF NoMoreHeld, c

\* Marking workers changes no task and no reservation beyond the parked tasks.
LEMMA MarkWaitingParks ==
  ASSUME NEW b \in Board, NEW plan
  PROVE  \E T : /\ MarkWaiting(b, plan).task = WaitOnPaths(b, T).task
                /\ MarkWaiting(b, plan).reserved = b.reserved
                /\ \A t \in T : b.task[t].status \in Startable
<1> DEFINE unserved == {a \in Agent : Eligible(b, a) /\ plan[a] = None}
           blocked(a) == {t \in Task : /\ b.task[t].status \in Startable
                                       /\ <<a, t>> \in Matches
                                       /\ DependenciesMet(b, t)
                                       /\ ~CanAssign(b, a, t)}
           waiters == {a \in unserved : blocked(a) # {}}
           skipped == UNION {PathBlocked(b, runs, a, PlannedBefore(plan, a)) : a \in unserved}
           first == {First(blocked(a)) : a \in waiters}
           T == skipped \cup first
           agents(w) == [a \in Agent |->
             IF a \in waiters THEN [w.agent[a] EXCEPT !.status = "waiting"] ELSE w.agent[a]]
<1>1. MarkWaiting(b, plan)
        = [WaitOnPaths(b, T) EXCEPT !.agent = agents(WaitOnPaths(b, T))]
  BY Zenon DEF MarkWaiting
<1>2. \A t \in skipped : b.task[t].status \in Startable
  BY Zenon DEF PathBlocked, Considered
<1>3. \A t \in first : b.task[t].status \in Startable
  <2> SUFFICES ASSUME NEW a \in waiters PROVE b.task[First(blocked(a))].status \in Startable
    BY Zenon
  <2>1. blocked(a) \subseteq Nat /\ blocked(a) # {}
    BY RowsAssumption
  <2>2. First(blocked(a)) \in blocked(a)
    BY <2>1, FirstExists
  <2> QED
    BY <2>2, Zenon
<1>4. \A t \in T : b.task[t].status \in Startable
  BY <1>2, <1>3, Zenon
<1> HIDE DEF T, agents
<1>5. WaitOnPaths(b, T) \in Board /\ WaitOnPaths(b, T).reserved = b.reserved
  <2>1. WaitOnPaths(b, T) \in Board
    BY WaitOnPathsType
  <2>2. WaitOnPaths(b, T).reserved = b.reserved
    BY DEF WaitOnPaths, Board
  <2> QED
    BY <2>1, <2>2
<1> DEFINE w == WaitOnPaths(b, T)
<1> HIDE DEF w
<1>6. [w EXCEPT !.agent = agents(w)].task = w.task
  <2>1. w \in Board
    BY <1>5 DEF w
  <2> QED
    BY <2>1 DEF Board
<1>7. [w EXCEPT !.agent = agents(w)].reserved = w.reserved
  <2>1. w \in Board
    BY <1>5 DEF w
  <2> QED
    BY <2>1 DEF Board
<1> QED
  BY <1>1, <1>4, <1>5, <1>6, <1>7, Zenon DEF w

\* A pass adds nothing beyond its repairs.
LEMMA PassOutcomesHolds ==
  ASSUME NEW s \in Scanner, NEW b \in Board, runs \in Seq(Run),
         NEW o \in PassOutcomes(s, b)
  PROVE  NoMoreHeld(b, o.board, runs)
<1> DEFINE r == Reconcile(b, runs)
           g == GateTasks(r)
<1>1. r \in Board /\ NoMoreHeld(b, r, runs)
  BY ReconcileType, ReconcileHolds
<1>2. CASE GuardBlocks
  <2>1. o = [board |-> GuardedOff(r), flights |-> flights]
    BY <1>2, Zenon DEF PassOutcomes
  <2> HIDE DEF r
  <2>2. GuardedOff(r).task = r.task /\ GuardedOff(r).reserved = r.reserved
    BY <1>1 DEF GuardedOff, Board
  <2>3. NoMoreHeld(r, GuardedOff(r), runs)
    BY <2>2 DEF NoMoreHeld
  <2>4. o.board = GuardedOff(r)
    BY <2>1
  <2> QED
    BY <1>1, <2>3, <2>4, NoMoreHeldOrder, Zenon
<1>3. CASE ~GuardBlocks
  <2>1. PICK plan \in Plans(g) :
          o = [board |-> MarkWaiting(g, plan), flights |-> flights \cup Planned(plan, s)]
    BY <1>3, Zenon DEF PassOutcomes
  <2> HIDE DEF r
  <2>2. g \in Board /\ NoMoreHeld(r, g, runs)
    BY <1>1, GateTasksType, GateTasksHolds
  <2> HIDE DEF g
  <2>3. PICK T : /\ MarkWaiting(g, plan).task = WaitOnPaths(g, T).task
                 /\ MarkWaiting(g, plan).reserved = g.reserved
                 /\ \A t \in T : g.task[t].status \in Startable
    BY <2>2, MarkWaitingParks, Zenon
  <2>4. NoMoreHeld(g, WaitOnPaths(g, T), runs)
    BY <2>2, WaitOnPathsHolds
  <2>5. NoMoreHeld(g, MarkWaiting(g, plan), runs)
    BY <2>3, <2>4 DEF NoMoreHeld
  <2>6. o.board = MarkWaiting(g, plan)
    BY <2>1
  <2> QED
    BY <1>1, <2>2, <2>5, <2>6, NoMoreHeldOrder, Zenon
<1> QED
  BY <1>2, <1>3

\* Putting a refused launch back adds nothing.
LEMMA DeferLaunchHolds ==
  ASSUME NEW b \in Board, NEW rs, NEW f \in Flight
  PROVE  NoMoreHeld(b, DeferLaunch(b, rs, f), rs)
<1> DEFINE b1 == IF TaskHasRun(rs, f.task) THEN b
                 ELSE SetTask(b, f.task, "backlog", None, "other")
<1>1. f.task \in Task
  BY DEF Flight
<1>2. NoMoreHeld(b, b1, rs)
  BY <1>1, SetTaskHolds, NoMoreHeldOrder
<1>3. NoMoreHeld(b1, SetAgent(b1, f.agent, "waiting", None), rs)
  BY SetAgentHolds
<1>4. \/ DeferLaunch(b, rs, f) = b1
      \/ DeferLaunch(b, rs, f) = SetAgent(b1, f.agent, "waiting", None)
  BY Zenon DEF DeferLaunch
<1> HIDE DEF b1
<1> QED
  BY <1>2, <1>3, <1>4, NoMoreHeldOrder, Zenon

\* So does looking at the refusals of a pass.
LEMMA HandleRefusalsHolds ==
  ASSUME NEW b \in Board, NEW s, NEW rs
  PROVE  NoMoreHeld(b, HandleRefusals(b, s), rs)
<1> DEFINE c == HandleRefusals(b, s)
<1>1. c.task = b.task /\ c.reserved = b.reserved
  BY DEF HandleRefusals, Board
<1> QED
  BY <1>1 DEF NoMoreHeld

\* An immediate launch adds nothing to the board it started from, and launches
\* only a task whose dependencies are done on the board it leaves.
LEMMA ImmediatelyHolds ==
  ASSUME NEW b \in Board, NEW undone, NEW rs, NEW c \in Agent, NEW t \in Task,
         NoMoreHeld(undone, b, rs), NEW e \in Immediately(b, undone, rs, c, t)
  PROVE  /\ NoMoreHeld(undone, e.board, rs)
         /\ \A f \in e.launch : DependenciesMet(e.board, f.task)
<1> DEFINE f == [agent |-> c, task |-> t, by |-> "decision"]
<1>1. f \in Flight /\ f.task = t
  BY DEF Flight
<1> HIDE DEF f
<1>2. NoMoreHeld(b, DeferLaunch(b, rs, f), rs)
  BY <1>1, DeferLaunchHolds
<1>3. \/ e \in Quietly(b)
      \/ e \in Quietly(DeferLaunch(b, rs, f))
      \/ e \in Quietly(undone)
      \/ e = [board |-> b, launch |-> {f}] /\ DependenciesMet(b, t)
  BY Zenon DEF Immediately, f
<1>4. CASE e \in Quietly(b) \/ e \in Quietly(DeferLaunch(b, rs, f)) \/ e \in Quietly(undone)
  <2>1. e.launch = {} /\ e.board \in {b, DeferLaunch(b, rs, f), undone}
    BY <1>4 DEF Quietly
  <2> QED
    BY <1>2, <2>1, NoMoreHeldOrder, Zenon
<1>5. CASE e = [board |-> b, launch |-> {f}] /\ DependenciesMet(b, t)
  BY <1>1, <1>5
<1> QED
  BY <1>3, <1>4, <1>5

\* What a decision about a board may leave.
Modest(b, rs, e) ==
  /\ NoMoreHeld(b, e.board, rs)
  /\ \A f \in e.launch : DependenciesMet(e.board, f.task)

\* A decision that launches nothing and adds nothing is modest.
LEMMA QuietlyModest ==
  ASSUME NEW b, NEW c, NEW rs, NoMoreHeld(b, c, rs), NEW e \in Quietly(c)
  PROVE  Modest(b, rs, e)
BY DEF Quietly, Modest

\* assign_next_task is modest.
LEMMA AssignNextModest ==
  ASSUME NEW b \in Board, NEW rs, NEW a \in Agent, NEW e \in AssignNext(b, rs, a)
  PROVE  Modest(b, rs, e)
<1> DEFINE b1(t) == Revived(b, rs, t)
           own(t) == IF <<a, t>> \in Matches THEN {a} ELSE {}
           named(t) == Assignable(b1(t), rs, t)
           assignee(t, n) == IF n \in named(t) THEN {n} ELSE own(t) \cap named(t)
           chosen(t, n) == CHOOSE c \in assignee(t, n) : TRUE
           assigned(t, n) == SetTask(b1(t), t, "assigned", chosen(t, n), b1(t).task[t].reason)
<1>1. PICK t \in Task :
        e \in IF b1(t).task[t].status \notin Startable \/ TaskHasRun(rs, t)
              THEN Quietly(b1(t))
              ELSE UNION {IF assignee(t, n) = {} THEN Quietly(b1(t))
                          ELSE Immediately(assigned(t, n), b, rs, chosen(t, n), t)
                          : n \in Agent \cup {None}}
  BY Zenon DEF AssignNext
<1>2. b1(t) \in Board
  BY RevivedType
<1>3. NoMoreHeld(b, b1(t), rs)
  <2>1. NoMoreHeld(b, SetTask(b, t, "backlog", b.task[t].agent, "none"), rs)
    BY SetTaskHolds
  <2> QED
    BY <2>1, NoMoreHeldOrder, Zenon DEF Revived
<1>4. \A n : assignee(t, n) # {} => chosen(t, n) \in Agent
  <2>1. \A n : assignee(t, n) \subseteq Agent
    BY DEF Assignable
  <2> HIDE DEF assignee
  <2> QED
    BY <2>1
<1> HIDE DEF assignee, chosen, b1
<1>5. ASSUME NEW n, assignee(t, n) # {}, ~TaskHasRun(rs, t),
             e \in Immediately(assigned(t, n), b, rs, chosen(t, n), t)
      PROVE  Modest(b, rs, e)
  <2>1. chosen(t, n) \in Agent
    BY <1>4, <1>5
  <2>2. b1(t).task[t].reason \in Reason
    BY <1>2 DEF Board, TaskRow
  <2>3. assigned(t, n) \in Board
    BY <1>2, <2>1, <2>2, SetTaskType DEF TaskStatus, Startable
  <2>4. NoMoreHeld(b1(t), assigned(t, n), rs)
    BY <1>2, <1>5, SetTaskHolds
  <2> HIDE DEF assigned
  <2>5. NoMoreHeld(b, assigned(t, n), rs)
    BY <1>3, <2>4, NoMoreHeldOrder, Zenon
  <2> QED
    BY <1>5, <2>1, <2>3, <2>5, ImmediatelyHolds DEF Modest
<1>6. CASE e \in Quietly(b1(t))
  BY <1>3, <1>6, QuietlyModest
<1>7. CASE ~TaskHasRun(rs, t) /\ \E n : /\ assignee(t, n) # {}
                  /\ e \in Immediately(assigned(t, n), b, rs, chosen(t, n), t)
  BY <1>5, <1>7
<1> QED
  BY <1>1, <1>6, <1>7, Zenon

\* Marking the task of a decision is modest.
LEMMA MarkTaskModest ==
  ASSUME NEW b \in Board, NEW t \in Task, NEW status, status # "working", NEW rs,
         NEW e \in MarkTask(b, t, status)
  PROVE  Modest(b, rs, e)
<1>1. NoMoreHeld(b, SetTask(b, t, status, b.task[t].agent, b.task[t].reason), rs)
  BY SetTaskHolds
<1> QED
  BY <1>1, QuietlyModest DEF MarkTask

\* So is a fix.
LEMMA RequestFixModest ==
  ASSUME NEW b \in Board, NEW rs, NEW a \in Agent, NEW t \in Task,
         NEW e \in RequestFix(b, rs, a, t)
  PROVE  Modest(b, rs, e)
<1> DEFINE c == IF b.task[t].agent = None THEN a ELSE b.task[t].agent
           b1 == SetTask(b, t, "assigned", b.task[t].agent, "other")
           b2 == SetTask(b, t, "blocked", b.task[t].agent, b.task[t].reason)
<1>1. b.task[t].agent \in Agent \cup {None}
  BY DEF Board, TaskRow
<1>2. c \in Agent
  BY <1>1
<1>3. b1 \in Board
  BY <1>1, SetTaskType DEF TaskStatus, Startable, Reason
<1>4. NoMoreHeld(b, b1, rs) /\ NoMoreHeld(b, b2, rs)
  BY SetTaskHolds
<1>5. e \in Immediately(b1, b, rs, c, t) \/ e \in Quietly(b2)
  BY Zenon DEF RequestFix
<1> HIDE DEF c, b1, b2
<1> QED
  BY <1>2, <1>3, <1>4, <1>5, ImmediatelyHolds, QuietlyModest DEF Modest

\* So is an escalation.
LEMMA EscalateModest ==
  ASSUME NEW b \in Board, NEW a \in Agent, NEW t \in Task, NEW rs,
         NEW e \in Escalate(b, a, t)
  PROVE  Modest(b, rs, e)
<1> DEFINE b1 == MarkAgent(b, a, "waiting")
           b2 == SetTask(b1, t, b.task[t].status, None, "other")
<1>1. b1 \in Board
  BY MarkAgentType DEF IdleLike
<1>2. NoMoreHeld(b, b1, rs)
  BY SetAgentHolds DEF MarkAgent
<1>3. b1.task = b.task
  BY DEF MarkAgent, SetAgent, Board
<1>4. b.task[t].status \in TaskStatus
  BY DEF Board, TaskRow
<1> HIDE DEF b1
<1>5. b2 \in Board
  BY <1>1, <1>4, SetTaskType DEF Reason
<1>6. NoMoreHeld(b1, b2, rs)
  BY <1>1, <1>3, SetTaskHolds
<1> HIDE DEF b2
<1>7. NoMoreHeld(b, b2, rs)
  BY <1>2, <1>6, NoMoreHeldOrder, Zenon
<1>8. \A o : NoMoreHeld(b, Release(b2, t, o), rs)
  BY <1>5, <1>7, ReleaseHolds, NoMoreHeldOrder, Zenon
<1>9. e \in Quietly(b1) \/ e \in Quietly(b2) \/ \E o : e \in Quietly(Release(b2, t, o))
  BY Zenon DEF Escalate, b1, b2
<1> QED
  BY <1>2, <1>7, <1>8, <1>9, QuietlyModest, Zenon

\* Whatever the manager decides about a run is modest.
LEMMA DecidedModest ==
  ASSUME NEW b \in Board, NEW rs \in Seq(Run), NEW r \in DOMAIN rs, NEW overruled,
         NEW e \in Decided(b, rs, r, overruled)
  PROVE  Modest(b, rs, e)
<1> DEFINE a == rs[r].agent
           t == rs[r].task
<1>1. a \in Agent /\ t \in Task
  <2>1. rs[r] \in Run
    OBVIOUS
  <2> QED
    BY <2>1 DEF Run
<1>2. \/ e \in AssignNext(b, rs, a)
      \/ e \in MarkTask(b, t, "done")
      \/ e \in MarkTask(b, t, "blocked")
      \/ e \in Quietly(MarkAgent(b, a, "done"))
      \/ e \in Quietly(MarkAgent(b, a, "waiting"))
      \/ e \in RequestFix(b, rs, a, t)
      \/ e \in Escalate(b, a, t)
  BY Zenon DEF Decided
<1> HIDE DEF a, t
<1>3. \A status : NoMoreHeld(b, MarkAgent(b, a, status), rs)
  BY SetAgentHolds DEF MarkAgent
<1> QED
  BY <1>1, <1>2, <1>3, AssignNextModest, MarkTaskModest, RequestFixModest, EscalateModest,
     QuietlyModest, Zenon

-----------------------------------------------------------------------------
(* What the end of a run takes back *)

\* From b to c the paths of worker a and task t are released, t is not shown as
\* being worked on, and no task is given to anybody.
Frees(b, c, a, t) ==
  /\ c.reserved = b.reserved \ {<<a, t>>}
  /\ c.task[t].status # "working"
  /\ \A u \in Task \ {t} : c.task[u].status = b.task[u].status
  /\ \A u \in Task : c.task[u].agent \in {None, b.task[u].agent}

\* Writing the failure count of a task writes nothing else.
LEMMA FailuresOnly ==
  ASSUME NEW b \in Board, NEW t \in Task,
         NEW c \in {CountFailure(b, t), [b EXCEPT !.task[t].failures = 0]}
  PROVE  /\ c.reserved = b.reserved
         /\ \A u \in Task : /\ c.task[u].status = b.task[u].status
                            /\ c.task[u].agent = b.task[u].agent
<1> DEFINE row(n) == [b.task[t] EXCEPT !.failures = n]
<1>1. b.task[t] \in TaskRow /\ b.task \in [Task -> TaskRow]
  BY DEF Board
<1>2. \A n : row(n).status = b.task[t].status /\ row(n).agent = b.task[t].agent
  BY <1>1 DEF TaskRow
<1>3. PICK n : c = [b EXCEPT !.task = [b.task EXCEPT ![t] = row(n)]]
  BY DEF CountFailure
<1> HIDE DEF row
<1>4. c.reserved = b.reserved /\ c.task = [b.task EXCEPT ![t] = row(n)]
  BY <1>3 DEF Board
<1> QED
  BY <1>1, <1>2, <1>4

\* Freeing a worker writes no task row and no reservation.
LEMMA RestsOnly ==
  ASSUME NEW b \in Board, NEW a
  PROVE  Rests(b, a).reserved = b.reserved /\ Rests(b, a).task = b.task
BY DEF Rests, SetAgent, Board

\* A release of a worker's task takes the pair away.
LEMMA ReleasePair ==
  ASSUME NEW b \in Board, NEW a \in Agent, NEW t \in Task
  PROVE  /\ Release(b, t, a).task = b.task
         /\ Release(b, t, a).reserved = b.reserved \ {<<a, t>>}
<1>1. Release(b, t, a).task = b.task
  BY DEF Release, Board
<1>2. Release(b, t, a).reserved = {p \in b.reserved : ~ (a \in {None, p[1]} /\ t \in {None, p[2]})}
  BY DEF Release, Board
<1>3. b.reserved \subseteq Agent \X Task /\ a # None /\ t # None
  BY RowsAssumption DEF Board
<1> QED
  BY <1>1, <1>2, <1>3

\* Writing the status, the worker and the reason of a task row.
LEMMA SetTaskFields ==
  ASSUME NEW b \in Board, NEW t \in Task, NEW status, NEW agent, NEW reason
  PROVE  LET c == SetTask(b, t, status, agent, reason) IN
         /\ c.reserved = b.reserved
         /\ c.task[t].status = status /\ c.task[t].agent = agent
         /\ \A u \in Task \ {t} : c.task[u] = b.task[u]
<1> DEFINE row == [b.task[t] EXCEPT !.status = status, !.agent = agent,
                                    !.reason = reason]
           c == SetTask(b, t, status, agent, reason)
<1>1. b.task[t] \in TaskRow /\ b.task \in [Task -> TaskRow]
  BY DEF Board
<1>2. row.status = status /\ row.agent = agent
  BY <1>1 DEF TaskRow
<1>3. c = [b EXCEPT !.task = [b.task EXCEPT ![t] = row]]
  BY DEF SetTask
<1>4. c.reserved = b.reserved /\ c.task = [b.task EXCEPT ![t] = row]
  BY <1>3 DEF Board
<1> HIDE DEF row, c
<1>5. c.task[t] = row /\ \A u \in Task \ {t} : c.task[u] = b.task[u]
  BY <1>1, <1>4
<1> QED
  BY <1>2, <1>4, <1>5, Zenon DEF c

\* A report frees the worker's task.
LEMMA IngestedFrees ==
  ASSUME NEW b \in Board, runs \in Seq(Run), NEW r \in DOMAIN runs, NEW o \in Outcome
  PROVE  Frees(b, Ingested(b, r, o), runs[r].agent, runs[r].task)
<1> DEFINE a == runs[r].agent
           t == runs[r].task
           b1 == Rests(b, a)
           b2 == [b1 EXCEPT !.task[t].status = StatusAfter(o)]
           b3 == IF o \in {"blocked", "error"} THEN CountFailure(b2, t)
                 ELSE IF o = "done" THEN [b2 EXCEPT !.task[t].failures = 0]
                 ELSE b2
<1>1. a \in Agent /\ t \in Task
  <2>1. runs[r] \in Run
    OBVIOUS
  <2> QED
    BY <2>1 DEF Run
<1>2. Ingested(b, r, o) = Release(b3, t, a)
  BY Zenon DEF Ingested
<1> HIDE DEF a, t
<1>3. b1 \in Board /\ b1.reserved = b.reserved /\ b1.task = b.task
  BY <1>1, SetAgentType, RestsOnly DEF IdleLike, Rests
<1> HIDE DEF b1
<1>4. StatusAfter(o) \in TaskStatus \ {"working"}
  BY DEF TaskStatus, Startable, StatusAfter, Outcome
<1>5. b2 \in Board
  BY <1>1, <1>3, <1>4, TaskFieldTypes, Zenon
<1>6. /\ b2.reserved = b.reserved
      /\ b2.task[t].status # "working"
      /\ \A u \in Task \ {t} : b2.task[u] = b.task[u]
      /\ b2.task[t].agent = b.task[t].agent
  <2> DEFINE row == [b1.task[t] EXCEPT !.status = StatusAfter(o)]
  <2>1. b2 = [b1 EXCEPT !.task = [b1.task EXCEPT ![t] = row]]
    OBVIOUS
  <2>2. row.status = StatusAfter(o) /\ row.agent = b1.task[t].agent
    BY <1>1, <1>3 DEF Board, TaskRow
  <2> HIDE DEF row
  <2>3. b2.reserved = b1.reserved /\ b2.task = [b1.task EXCEPT ![t] = row]
    BY <1>3, <2>1 DEF Board
  <2>4. b2.task[t] = row /\ \A u \in Task \ {t} : b2.task[u] = b1.task[u]
    BY <1>1, <1>3, <2>3 DEF Board
  <2> QED
    BY <1>3, <1>4, <2>2, <2>3, <2>4, Zenon
<1> HIDE DEF b2
<1>7. b3 \in Board
  <2>1. [b2 EXCEPT !.task[t].failures = 0] \in Board
    BY <1>1, <1>5, TaskFieldTypes, Zenon
  <2> QED
    BY <1>1, <1>5, <2>1, CountFailureType
<1>8. /\ b3.reserved = b2.reserved
      /\ \A u \in Task : /\ b3.task[u].status = b2.task[u].status
                         /\ b3.task[u].agent = b2.task[u].agent
  <2>1. b3 = b2 \/ b3 \in {CountFailure(b2, t), [b2 EXCEPT !.task[t].failures = 0]}
    BY Zenon
  <2> HIDE DEF b3
  <2> QED
    BY <1>1, <1>5, <2>1, FailuresOnly
<1> HIDE DEF b3
<1>9. /\ Release(b3, t, a).task = b3.task
      /\ Release(b3, t, a).reserved = b3.reserved \ {<<a, t>>}
  BY <1>1, <1>7, ReleasePair
<1>10. /\ b3.task[t].status # "working"
       /\ \A u \in Task \ {t} : b3.task[u].status = b.task[u].status
       /\ \A u \in Task : b3.task[u].agent \in {None, b.task[u].agent}
  BY <1>1, <1>6, <1>8
<1> QED
  BY <1>2, <1>6, <1>8, <1>9, <1>10 DEF Frees, a, t

\* So does a rejected completion, before it looks for orphaned reservations.
LEMMA RejectedFrees ==
  ASSUME NEW b \in Board, runs \in Seq(Run), NEW r \in DOMAIN runs
  PROVE  \E c \in Board : /\ Frees(b, c, runs[r].agent, runs[r].task)
                          /\ Rejected(b, r) = ReleaseOrphanedReservations(c, runs')
<1> DEFINE a == runs[r].agent
           t == runs[r].task
           b0 == Rests(b, a)
           b1 == CountFailure(b0, t)
           b2 == IF b.task[t].failures = 0
                 THEN SetTask(b1, t, "backlog", None, "other")
                 ELSE SetTask(b1, t, "needs_review", b.task[t].agent, "other")
           b3 == Release(b2, t, a)
<1>1. a \in Agent /\ t \in Task
  <2>1. runs[r] \in Run
    OBVIOUS
  <2> QED
    BY <2>1 DEF Run
<1>2. Rejected(b, r) = ReleaseOrphanedReservations(b3, runs')
  BY Zenon DEF Rejected
<1> HIDE DEF a, t
<1>3. b0 \in Board /\ b0.reserved = b.reserved /\ b0.task = b.task
  BY <1>1, SetAgentType, RestsOnly DEF IdleLike, Rests
<1> HIDE DEF b0
<1>4. b1 \in Board
  BY <1>1, <1>3, CountFailureType
<1>5. /\ b1.reserved = b.reserved
      /\ \A u \in Task : /\ b1.task[u].status = b.task[u].status
                         /\ b1.task[u].agent = b.task[u].agent
  BY <1>1, <1>3, FailuresOnly
<1> HIDE DEF b1
<1>6. b.task[t].agent \in Agent \cup {None}
  BY <1>1 DEF Board, TaskRow
<1>7. b2 \in Board
  BY <1>1, <1>4, <1>6, SetTaskType DEF TaskStatus, Startable, Reason
<1>8. /\ b2.reserved = b.reserved
      /\ b2.task[t].status # "working" /\ b2.task[t].agent \in {None, b.task[t].agent}
      /\ \A u \in Task \ {t} : b2.task[u] = b1.task[u]
  <2>1. CASE b.task[t].failures = 0
    <3>1. b2 = SetTask(b1, t, "backlog", None, "other")
      BY <2>1
    <3> HIDE DEF b2
    <3> QED
      BY <1>1, <1>4, <1>5, <3>1, SetTaskFields
  <2>2. CASE b.task[t].failures # 0
    <3>1. b2 = SetTask(b1, t, "needs_review", b.task[t].agent, "other")
      BY <2>2
    <3> HIDE DEF b2
    <3> QED
      BY <1>1, <1>4, <1>5, <3>1, SetTaskFields
  <2> QED
    BY <2>1, <2>2
<1> HIDE DEF b2
<1>9. b3 \in Board /\ b3.task = b2.task /\ b3.reserved = b2.reserved \ {<<a, t>>}
  BY <1>1, <1>7, ReservationTypes, ReleasePair
<1> HIDE DEF b3
<1>10. /\ b3.task[t].status # "working"
       /\ \A u \in Task \ {t} : b3.task[u].status = b.task[u].status
       /\ \A u \in Task : b3.task[u].agent \in {None, b.task[u].agent}
  BY <1>1, <1>5, <1>8, <1>9
<1>11. Frees(b, b3, a, t)
  BY <1>8, <1>9, <1>10 DEF Frees
<1> QED
  BY <1>2, <1>9, <1>11, Zenon DEF a, t

\* Stopping workers releases what they hold, shows no task as being worked on
\* that was not, and none of the runs it ends.
LEMMA StoppedBoardFrees ==
  ASSUME NEW b \in Board, NEW A, NEW named, NEW R
  PROVE  LET c == StoppedBoard(b, A, named, R) IN
         /\ c.reserved = {p \in b.reserved : p[1] \notin A}
         /\ \A u \in Task :
              /\ c.task[u].status = "working"
                   => b.task[u].status = "working" /\ \A r \in R : runs[r].task # u
              /\ c.task[u].agent \in {None, b.task[u].agent}
<1> DEFINE c == StoppedBoard(b, A, named, R)
           hit == named \cup {runs[r].task : r \in R}
           row(t) == IF t \in hit /\ b.task[t].status = "working"
                     THEN [b.task[t] EXCEPT !.status = "assigned", !.agent = None,
                                            !.reason = "other"]
                     ELSE b.task[t]
<1>1. /\ ReleaseAll(b, A).task = b.task
      /\ ReleaseAll(b, A).reserved = {p \in b.reserved : p[1] \notin A}
      /\ ReleaseAll(b, A) \in Board
  BY DEF ReleaseAll, Board
<1>2. c.task = [t \in Task |-> row(t)] /\ c.reserved = {p \in b.reserved : p[1] \notin A}
  <2> DEFINE w == ReleaseAll(b, A)
             agents == [a \in Agent |->
               IF a \in A THEN [status |-> "stopped", task |-> None] ELSE w.agent[a]]
             tasks == [t \in Task |->
               IF t \in hit /\ w.task[t].status = "working"
               THEN [w.task[t] EXCEPT !.status = "assigned", !.agent = None,
                                      !.reason = "other"]
               ELSE w.task[t]]
  <2>1. c = [w EXCEPT !.agent = agents, !.task = tasks]
    BY Zenon DEF StoppedBoard
  <2>2. tasks = [t \in Task |-> row(t)]
    BY <1>1
  <2> HIDE DEF w, agents, tasks, row, c
  <2>3. w \in Board /\ w.reserved = {p \in b.reserved : p[1] \notin A}
    BY <1>1 DEF w
  <2>4. c.task = tasks /\ c.reserved = w.reserved
    BY <2>1, <2>3 DEF Board
  <2> QED
    BY <2>2, <2>3, <2>4
<1>3. \A r \in R : runs[r].task \in hit
  BY Zenon
<1>4. ASSUME NEW u \in Task
      PROVE  /\ row(u).status = "working" => b.task[u].status = "working" /\ u \notin hit
             /\ row(u).agent \in {None, b.task[u].agent}
  <2>1. b.task[u] \in TaskRow
    BY DEF Board
  <2> HIDE DEF hit
  <2> QED
    BY <2>1 DEF TaskRow
<1> HIDE DEF c, hit, row
<1>5. ASSUME NEW u \in Task
      PROVE  /\ c.task[u].status = "working"
                   => b.task[u].status = "working" /\ \A r \in R : runs[r].task # u
             /\ c.task[u].agent \in {None, b.task[u].agent}
  BY <1>2, <1>3, <1>4
<1> QED
  BY <1>2, <1>5, Zenon DEF c

\* So does the startup repair for the runs it interrupts.
LEMMA InterruptedFrees ==
  ASSUME NEW b \in Board, NEW R
  PROVE  LET c == Interrupted(b, R) IN
         /\ c.reserved = b.reserved \ PairsOf(R)
         /\ \A u \in Task :
              /\ c.task[u].status = "working"
                   => b.task[u].status = "working" /\ \A r \in R : runs[r].task # u
              /\ c.task[u].agent \in {None, b.task[u].agent}
<1> DEFINE c == Interrupted(b, R)
           hit == {runs[r].task : r \in R}
           row(t) == IF t \in hit
                     THEN [b.task[t] EXCEPT !.status = "backlog", !.agent = None,
                                            !.reason = "other"]
                     ELSE b.task[t]
<1>1. c.task = [t \in Task |-> row(t)] /\ c.reserved = b.reserved \ PairsOf(R)
  BY DEF Interrupted
<1>2. \A r \in R : runs[r].task \in hit
  BY Zenon
<1>3. ASSUME NEW u \in Task
      PROVE  /\ row(u).status = "working" => b.task[u].status = "working" /\ u \notin hit
             /\ row(u).agent \in {None, b.task[u].agent}
  <2>1. b.task[u] \in TaskRow
    BY DEF Board
  <2> HIDE DEF hit
  <2> QED
    BY <2>1 DEF TaskRow
<1> HIDE DEF c, hit, row
<1>4. ASSUME NEW u \in Task
      PROVE  /\ c.task[u].status = "working"
                   => b.task[u].status = "working" /\ \A r \in R : runs[r].task # u
             /\ c.task[u].agent \in {None, b.task[u].agent}
  BY <1>1, <1>2, <1>3
<1> QED
  BY <1>1, <1>4, Zenon DEF c

-----------------------------------------------------------------------------
(* What a pass launches *)

\* A pass plans only tasks whose dependencies are done, and what it does to the
\* rows after that leaves done tasks done.
LEMMA PassLaunchesModest ==
  ASSUME NEW s \in Scanner, NEW b \in Board, runs \in Seq(Run),
         NEW o \in PassOutcomes(s, b)
  PROVE  \A f \in o.flights \ flights : DependenciesMet(o.board, f.task)
<1> DEFINE r == Reconcile(b, runs)
           g == GateTasks(r)
<1>1. CASE GuardBlocks
  <2>1. o = [board |-> GuardedOff(r), flights |-> flights]
    BY <1>1, Zenon DEF PassOutcomes
  <2> QED
    BY <2>1
<1>2. CASE ~GuardBlocks
  <2>1. PICK plan \in Plans(g) :
          o = [board |-> MarkWaiting(g, plan), flights |-> flights \cup Planned(plan, s)]
    BY <1>2, Zenon DEF PassOutcomes
  <2>2. g \in Board
    BY ReconcileType, GateTasksType
  <2> HIDE DEF r, g
  <2>3. \A a \in Agent : plan[a] # None =>
          plan[a] \in Candidates(g, runs, a, PlannedBefore(plan, a))
    BY Zenon DEF Plans
  <2>4. \A a \in Agent : plan[a] # None => plan[a] \in Task /\ DependenciesMet(g, plan[a])
    BY <2>3, Zenon DEF Candidates, Considered
  <2>5. PICK T : /\ MarkWaiting(g, plan).task = WaitOnPaths(g, T).task
                 /\ \A t \in T : g.task[t].status \in Startable
    BY <2>2, MarkWaitingParks, Zenon
  <2>6. \A t \in Task : g.task[t].status = "done" => WaitOnPaths(g, T).task[t] = g.task[t]
    <3>1. WaitOnPaths(g, T).task
            = [t \in Task |-> IF t \in T THEN [g.task[t] EXCEPT !.status = "waiting_on_paths",
                                                              !.reason = "other"]
                             ELSE g.task[t]]
      BY <2>2 DEF WaitOnPaths, Board
    <3>2. \A t \in Task : g.task[t].status = "done" => t \notin T
      BY <2>5 DEF Startable
    <3> QED
      BY <3>1, <3>2
  <2>7. \A t \in Task : DependenciesMet(g, t) => DependenciesMet(o.board, t)
    <3>1. o.board.task = WaitOnPaths(g, T).task
      BY <2>1, <2>5
    <3>2. \A t \in Task : Deps[t] \subseteq Task
      BY RowsAssumption
    <3> QED
      BY <2>6, <3>1, <3>2 DEF DependenciesMet
  <2>8. \A f \in o.flights \ flights : \E a \in Agent : plan[a] # None /\ f.task = plan[a]
    BY <2>1 DEF Planned
  <2> QED
    BY <2>4, <2>7, <2>8
<1> QED
  BY <1>1, <1>2

=============================================================================
