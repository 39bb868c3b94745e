------------------------- MODULE OrchestrationTurns -------------------------
(***************************************************************************)
(* The background manager turns of one orchestration session               *)
(* (orchestration.py, OrchestrationCoordinator).  A wake-up (a user        *)
(* request, an answered decision, a resume, a recorded report) writes the  *)
(* session row inside a request's transaction and schedules an asyncio     *)
(* task; the transaction commits after the handler returned.  The          *)
(* coordinator keeps one task per session in a slot (_tasks[id]): while    *)
(* the task in the slot is unfinished a wake-up is only noted, and the     *)
(* done-callback of that task schedules what was noted.  A turn that fails *)
(* may put a retry into the slot before it ends itself.  The tasks and the *)
(* note live in memory; a restart keeps the row alone.                     *)
(***************************************************************************)
EXTENDS Naturals

CONSTANTS
  TaskId,       \* identities of asyncio tasks; one is used again once freed
  None,
  MaxFailures,  \* MAX_BACKGROUND_FAILURES
  MaxInputs,    \* bound: wake-ups and restarts of a behaviour
  Actors        \* which of "fail", "restart", "wake" take part

ASSUME TurnAssumption ==
  /\ None \notin TaskId
  /\ TaskId # {}
  /\ MaxFailures \in Nat \ {0}
  /\ MaxInputs \in Nat

VARIABLES
  row,      \* the committed session: status, background failures, and
            \* whether its project is paused
  staged,   \* the row a request wrote and has not committed; None: no request
  tasks,    \* the asyncio tasks: phase, the status a turn loaded, the status
            \* it is about to write, and whether it slept before the latest
            \* wake-up came
  slot,     \* the task _tasks holds for the session
  queued,   \* queued_reason is set
  unheard,  \* history: a wake-up committed after the last turn started
  inputs    \* counts inputs, for MaxInputs

vars == <<row, staged, tasks, slot, queued, unheard, inputs>>

Live == {"initializing", "planning", "running"}
Over == {"completed", "failed", "paused"}
Status == Live \cup Over \cup {"waiting_for_user"}
Phase == {"free", "sleep", "work", "write", "done"}
Unfinished == {"sleep", "work", "write"}

Free == [phase |-> "free", loaded |-> "planning", result |-> "planning",
         early |-> FALSE]
Sleeping == [Free EXCEPT !.phase = "sleep"]
Working == [Free EXCEPT !.phase = "work"]
Done == [Free EXCEPT !.phase = "done"]

Row == [status : Status, failures : Nat, paused : BOOLEAN]

TypeOK ==
  /\ row \in Row
  /\ staged \in {None} \cup Row
  /\ tasks \in [TaskId -> [phase : Phase, loaded : Status, result : Status,
                          early : BOOLEAN]]
  /\ slot \in TaskId \cup {None}
  /\ queued \in BOOLEAN
  /\ unheard \in BOOLEAN
  /\ inputs \in Nat

\* The session as its first request left it: one turn scheduled.
Init ==
  /\ row = [status |-> "planning", failures |-> 0, paused |-> FALSE]
  /\ staged = None
  /\ slot \in TaskId
  /\ tasks = [t \in TaskId |-> IF t = slot THEN Sleeping ELSE Free]
  /\ queued = FALSE
  /\ unheard = TRUE
  /\ inputs = 0

-----------------------------------------------------------------------------
(***************************** Scheduling ********************************)

SlotBusy == slot # None /\ tasks[slot].phase \in Unfinished

\* _schedule_background_turn: note the wake-up, or put a new task that sleeps
\* 0.1 s into the slot.
Schedule ==
  \/ /\ SlotBusy
     /\ queued' = TRUE
     /\ tasks' = [tasks EXCEPT ![slot].early = tasks[slot].phase = "sleep"]
     /\ UNCHANGED slot
  \/ /\ ~SlotBusy
     /\ \E t \in TaskId : /\ tasks[t].phase = "free"
                         /\ tasks' = [tasks EXCEPT ![t] = Sleeping]
                         /\ slot' = t
     /\ queued' = FALSE

Input == inputs < MaxInputs /\ inputs' = inputs + 1

\* A request flushes its write, which takes SQLite's write lock, and then
\* schedules a turn.
Wake(new) ==
  /\ "wake" \in Actors
  /\ staged = None
  /\ Input
  /\ Schedule
  /\ staged' = new
  /\ UNCHANGED <<row, unheard>>

Planning == [row EXCEPT !.status = "planning"]

UserRequest == Wake(Planning)

Answer == row.status # "completed" /\ Wake(Planning)

FollowUp == row.status \in Live /\ Wake(Planning)

Resume == Wake([Planning EXCEPT !.paused = FALSE])

\* The dependency that owns the request's session commits it.
CommitRequest ==
  /\ staged # None
  /\ row' = staged
  /\ staged' = None
  /\ unheard' = TRUE
  /\ UNCHANGED <<tasks, slot, queued, inputs>>

\* Pausing and resuming outside a turn: the endpoints run in worker threads.
SetRow(new) ==
  /\ staged = None
  /\ row' = new
  /\ UNCHANGED <<staged, tasks, slot, queued, unheard, inputs>>

Pause == SetRow([row EXCEPT !.status = "paused", !.paused = TRUE])

ProjectPause == ~row.paused /\ SetRow([row EXCEPT !.paused = TRUE])

ProjectResume == row.paused /\ SetRow([row EXCEPT !.paused = FALSE])

-----------------------------------------------------------------------------
(******************************* A turn **********************************)

TurnStart(t) ==
  /\ tasks[t].phase = "sleep"
  /\ row.status \notin Over
  /\ ~row.paused
  /\ staged = None
  /\ row' = Planning
  /\ tasks' = [tasks EXCEPT ![t] = Working]
  /\ unheard' = FALSE
  /\ UNCHANGED <<staged, slot, queued, inputs>>

\* Mutant: the turn does not wait for the request that scheduled it.
NoWait(t) == TRUE

\* A task sleeps so long that every request made before it was created has
\* committed when its turn starts.
Outlasted(t) == staged # None => tasks[t].early

\* The turn returns at once: the session is over, or the project is paused.
TurnSkip(t) ==
  /\ tasks[t].phase = "sleep"
  /\ Outlasted(t)
  /\ \/ row.status \in Over /\ row' = row
     \/ /\ row.status \notin Over
        /\ row.paused
        /\ staged = None
        /\ row' = [row EXCEPT !.status = "paused"]
  /\ tasks' = [tasks EXCEPT ![t] = Done]
  /\ UNCHANGED <<staged, slot, queued, unheard, inputs>>

\* Mutant: the status of a finished handoff is the status of the session.
HandoffStatus == IF row.paused THEN {"paused"} ELSE {"ready", "running", "planning"}

\* _derive_runtime_state, over decisions, tasks, workers and handoff that
\* other components change at any time.
Derived == IF row.paused
           THEN {"waiting_for_user", "paused"}
           ELSE {"waiting_for_user", "completed", "running", "planning"}

\* After its awaits the turn loads the session and project once more.
TurnRead(t) ==
  /\ tasks[t].phase = "work"
  /\ \E s \in Derived :
       tasks' = [tasks EXCEPT ![t] = [Free EXCEPT !.phase = "write",
                                                   !.loaded = row.status,
                                                   !.result = s]]
  /\ UNCHANGED <<row, staged, slot, queued, unheard, inputs>>

\* A column whose value did not change since it was loaded is not written.
TurnWrite(t) ==
  /\ tasks[t].phase = "write"
  /\ staged = None
  /\ row' = [row EXCEPT !.failures = 0,
                        !.status = IF tasks[t].loaded = tasks[t].result
                                   THEN @ ELSE tasks[t].result]
  /\ tasks' = [tasks EXCEPT ![t] = Done]
  /\ UNCHANGED <<staged, slot, queued, unheard, inputs>>

\* Mutant: a retry leaves the count of failures alone.
Uncounted == row.failures

CountedFailure == row.failures + 1

\* The handler of the exception: a transient failure within the limit puts
\* a retry into the slot and overwrites the note; any other ends the session.
TurnFail(t) ==
  /\ "fail" \in Actors
  /\ \/ tasks[t].phase \in {"work", "write"}
     \/ tasks[t].phase = "sleep" /\ row.status \notin Over /\ ~row.paused
  /\ staged = None
  /\ \/ /\ CountedFailure < MaxFailures
        /\ row' = [row EXCEPT !.status = "planning", !.failures = CountedFailure]
        /\ \E u \in TaskId :
             /\ tasks[u].phase = "free"
             /\ tasks' = [tasks EXCEPT ![t] = Done, ![u] = Sleeping]
             /\ slot' = u
        /\ queued' = FALSE
     \/ /\ \E s \in {"paused", "failed"} :
             row' = [row EXCEPT !.status = s, !.failures = CountedFailure]
        /\ tasks' = [tasks EXCEPT ![t] = Done]
        /\ UNCHANGED <<slot, queued>>
  /\ UNCHANGED <<staged, unheard, inputs>>

\* Mutant: the callback takes whatever the slot holds for its own task.
AnySlot(t) == TRUE

Holds(t) == slot = t

\* _background_task_done: only the task in the slot clears it, and schedules
\* the wake-up noted meanwhile.
DoneCallback(t) ==
  /\ tasks[t].phase = "done"
  /\ tasks' = [tasks EXCEPT ![t] = IF Holds(t) /\ queued THEN Sleeping ELSE Free]
  /\ slot' = IF ~Holds(t) THEN slot ELSE IF queued THEN t ELSE None
  /\ queued' = (queued /\ ~Holds(t))
  /\ UNCHANGED <<row, staged, unheard, inputs>>

\* The daemon stops or crashes, and on_startup reconciles the session.
Restart ==
  /\ "restart" \in Actors
  /\ Input
  /\ staged' = None
  /\ queued' = FALSE
  /\ \/ /\ row.status \in Live
        /\ row' = Planning
        /\ slot' \in TaskId
        /\ tasks' = [t \in TaskId |-> IF t = slot' THEN Sleeping ELSE Free]
     \/ /\ row.status \notin Live
        /\ row' = row
        /\ slot' = None
        /\ tasks' = [t \in TaskId |-> Free]
  /\ UNCHANGED unheard

TurnStep(t) == \/ TurnStart(t) \/ TurnSkip(t) \/ TurnRead(t) \/ TurnWrite(t)
               \/ TurnFail(t) \/ DoneCallback(t)

Next ==
  \/ UserRequest \/ Answer \/ FollowUp \/ Resume \/ CommitRequest
  \/ Pause \/ ProjectPause \/ ProjectResume
  \/ \E t \in TaskId : TurnStep(t)
  \/ Restart

Spec == Init /\ [][Next]_vars

\* The event loop runs every ready task, and a handled request commits.
FairSpec == /\ Spec
            /\ WF_vars(CommitRequest)
            /\ \A t \in TaskId : WF_vars(TurnStep(t))

-----------------------------------------------------------------------------
(***************************** Properties ********************************)

\* No two turns of a session are under way at once: two would generate tasks
\* and start workers from the same board.  It hangs on the slot surviving
\* retries, late callbacks and wake-ups between a task's end and its callback.
TurnsNeverOverlap ==
  \A t, u \in TaskId :
    tasks[t].phase \in {"work", "write"} /\ tasks[u].phase \in {"work", "write"}
      => t = u

\* CODEX_PLUGIN_MODE.md:39, "Mission Control resumes background orchestration":
\* once inputs cease, every wake-up that committed has been followed by the
\* start of a turn, unless the session is over or waits for its user.
WakeUpsAreHeard ==
  <>[](unheard => row.status \in Over \cup {"waiting_for_user"})

\* Turns beget turns only finitely often: without new inputs the retries run
\* out and the slot is empty for good.
TurnsSettle == <>[](slot = None)

\* "Mission Control is paused until the project is resumed."
\* (orchestration.py:1332): a session that was paused does not stay so once
\* its project is resumed.
ResumedProjectContinues ==
  row.status = "paused" /\ ~row.paused ~> row.status # "paused" \/ row.paused

=============================================================================
