------------------------------ MODULE TaskBoard ------------------------------
(***************************************************************************)
(* The rows the worker scheduler reads and writes: workers, tasks and path *)
(* reservations, with the predicates of task_board.py and the task helpers *)
(* of manager.py that only read them.                                      *)
(*                                                                         *)
(* A path is the sequence of its segments: the whole-workspace path "." is *)
(* the empty sequence, so the code's test `left.startswith(right + "/")`   *)
(* is the prefix relation.  Names stand for their lower-case form.         *)
(* Agent and Task are row ids: agents are scanned by id and tasks by       *)
(* (priority, id), and a task's number is its place in that order.         *)
(***************************************************************************)
EXTENDS Naturals, Sequences, FiniteSets

SE == INSTANCE SequencesExt

CONSTANTS
  Agent,         \* ids of the worker agents of one project
  Task,          \* ids of its tasks, in scheduling order
  AllowedPaths,  \* allowed_paths_json of each task: a set of paths
  Deps,          \* dependencies_json of each task: a set of tasks
  Matches,       \* the pairs <<agent, task>> whose match score is positive
  None           \* NULL in an agent or task reference

ASSUME RowsAssumption ==
  /\ Agent \subseteq Nat
  /\ Task \subseteq Nat
  /\ None \notin Agent
  /\ None \notin Task
  /\ Deps \in [Task -> SUBSET Task]
  /\ Matches \subseteq Agent \X Task

-----------------------------------------------------------------------------

\* Mutant: a parked task is not looked at again.
StartableUnparked == {"backlog", "assigned"}

Startable == {"backlog", "assigned", "waiting_on_paths"}

\* The statuses TASK_OPEN_STATUSES lists, and "done".
TaskStatus ==
  Startable \cup {"working", "needs_review", "blocked", "done"}

\* Statuses in which a worker can be given work.
IdleLike == {"idle", "waiting", "done", "stopped"}
Busy     == {"starting", "working"}

(***************************************************************************)
(* What a task's waiting_reason text says, as far as the code tells texts  *)
(* apart: empty, the stale-assignment requeue text, the text of a blocking *)
(* dependency, the text of an unmet dependency, or any other text.         *)
(***************************************************************************)
Reason == {"none", "stale", "blocked_dependency", "unmet_dependency", "other"}

\* failure_count is compared with 1 and 2 only, so it saturates at 2.
MaxFailures == 2

AgentRow == [status : IdleLike \cup Busy, task : Task \cup {None}]
TaskRow  == [status : TaskStatus, agent : Agent \cup {None},
             reason : Reason, failures : 0..MaxFailures]

Board == [agent    : [Agent -> AgentRow],
          task     : [Task -> TaskRow],
          reserved : SUBSET (Agent \X Task)]

InitialBoard ==
  [agent    |-> [a \in Agent |-> [status |-> "idle", task |-> None]],
   task     |-> [t \in Task |-> [status |-> "backlog", agent |-> None,
                                 reason |-> "none", failures |-> 0]],
   reserved |-> {}]

-----------------------------------------------------------------------------
(* task_board.py *)

PathsConflict(left, right) ==
  \E p \in left, q \in right : SE!IsPrefix(p, q) \/ SE!IsPrefix(q, p)

\* locked_paths_json of an agent: _refresh_agent_locks recomputes it from the
\* unreleased reservations after every change of them.
LockedPaths(b, a) ==
  UNION {AllowedPaths[t] : t \in {u \in Task : <<a, u>> \in b.reserved}}

\* Mutant: a worker that is still starting blocks nobody.
ConflictingWithWorking(b, t) ==
  {a \in Agent : /\ b.agent[a].status = "working"
                 /\ PathsConflict(LockedPaths(b, a), AllowedPaths[t])}

ConflictingAgents(b, t) ==
  {a \in Agent : /\ b.agent[a].status \in Busy
                 /\ PathsConflict(LockedPaths(b, a), AllowedPaths[t])}

CanAssign(b, a, t) ==
  /\ b.task[t].status \in Startable
  /\ ConflictingAgents(b, t) \subseteq {a}

-----------------------------------------------------------------------------
(* manager.py helpers on the rows *)

DependenciesMet(b, t) == \A d \in Deps[t] : b.task[d].status = "done"

\* _release_reservations(task_id = t, agent_id = a), either of them optional.
Release(b, t, a) ==
  [b EXCEPT !.reserved =
     {p \in @ : ~ /\ a \in {None, p[1]}
                  /\ t \in {None, p[2]}}]

\* _reserve_task_paths: the agent's earlier reservations of the task are
\* released and its paths are taken again.
Reserve(b, a, t) == [b EXCEPT !.reserved = @ \cup {<<a, t>>}]

SetAgent(b, a, status, task) ==
  [b EXCEPT !.agent[a] = [status |-> status, task |-> task]]

SetTask(b, t, status, agent, reason) ==
  [b EXCEPT !.task[t] = [@ EXCEPT !.status = status,
                                  !.agent = agent,
                                  !.reason = reason]]

CountFailure(b, t) ==
  [b EXCEPT !.task[t].failures = IF @ < MaxFailures THEN @ + 1 ELSE @]
=============================================================================
