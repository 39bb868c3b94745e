------------------------------- MODULE LoginJobs --------------------------------
(* Sign-in and sign-out flows of the Codex CLI: one flow at a time, each a task  *)
(* of the event loop around a process, which may outlive the daemon.             *)
EXTENDS Naturals, FiniteSets

CONSTANTS
  Job,          \* the flows users start
  KeyJob,       \* those that send an API key to the process
  None,
  MaxRestarts   \* bound: restarts of the daemon

ASSUME LoginAssumption == KeyJob \subseteq Job /\ None \notin Job /\ MaxRestarts \in Nat

VARIABLES
  status,       \* jobs: what each flow shows, "unknown" before and after its daemon
  active,       \* active_job_id
  task,         \* where the task of each flow is; "lost" once it has raised
  process,      \* its process: "none", "up", or how it exited
  restarts

loginVars == <<status, active, task, process, restarts>>

Outcome == {"succeeded", "failed"}

LoginTypeOK ==
  /\ status \in [Job -> {"unknown", "queued", "running"} \cup Outcome]
  /\ active \in Job \cup {None}
  /\ task \in [Job -> {"none", "queued", "feed", "read", "wait", "done", "lost"}]
  /\ process \in [Job -> {"none", "up", "ok", "error"}]
  /\ restarts \in 0 .. MaxRestarts

LoginInit ==
  /\ status = [j \in Job |-> "unknown"]
  /\ active = None
  /\ task = [j \in Job |-> "none"]
  /\ process = [j \in Job |-> "none"]
  /\ restarts = 0

-------------------------------------------------------------------------------
(* Mutant: only a flow that has not begun is in the way.                         *)
NotRunning == active \notin {j \in Job : status[j] = "queued"}

Unoccupied == active = None

(* _start_job: the lock is held over no await, so this is one step.              *)
StartJob(j) ==
  /\ task[j] = "none"
  /\ Unoccupied
  /\ status' = [status EXCEPT ![j] = "queued"]
  /\ active' = j
  /\ task' = [task EXCEPT ![j] = "queued"]
  /\ UNCHANGED <<process, restarts>>

(* Mutant: the flow stays current when it ends.                                  *)
Keep == active

Released == None

(* The end of a flow: what it shows, and room for the next.                      *)
End(j, outcome) ==
  /\ status' = [status EXCEPT ![j] = outcome]
  /\ active' = Released
  /\ task' = [task EXCEPT ![j] = "done"]

(* An exception nobody catches ends the task only.                               *)
Raise(j) ==
  /\ task' = [task EXCEPT ![j] = "lost"]
  /\ UNCHANGED <<status, active>>

(* _run_job up to the process: only an OSError is caught.                        *)
Spawn(j) ==
  /\ task[j] = "queued"
  /\ \/ /\ End(j, "failed")
        /\ UNCHANGED process
     \/ /\ status' = [status EXCEPT ![j] = "running"]
        /\ task' = [task EXCEPT ![j] = IF j \in KeyJob THEN "feed" ELSE "read"]
        /\ process' = [process EXCEPT ![j] = "up"]
        /\ UNCHANGED active
     \/ Raise(j) /\ UNCHANGED process
  /\ UNCHANGED restarts

(* stdin: drain raises when the process has closed its end.                      *)
Feed(j) ==
  /\ task[j] = "feed"
  /\ \/ task' = [task EXCEPT ![j] = "read"] /\ UNCHANGED <<status, active>>
     \/ process[j] # "up" /\ Raise(j)
  /\ UNCHANGED <<process, restarts>>

(* The streams end with the process; a line over the reader's limit raises.      *)
Read(j) ==
  /\ task[j] = "read"
  /\ \/ process[j] # "up" /\ task' = [task EXCEPT ![j] = "wait"] /\ UNCHANGED <<status, active>>
     \/ Raise(j)
  /\ UNCHANGED <<process, restarts>>

(* Mutants: whatever the process says; its code as the status.                   *)
AnyExit(j) == "succeeded"

CodeAsStatus(j) == process[j]

OutcomeOf(j) == IF process[j] = "ok" THEN "succeeded" ELSE "failed"

(* The log is written, which may fail, before the flow is given up.              *)
Finish(j) ==
  /\ task[j] = "wait"
  /\ \/ End(j, OutcomeOf(j))
     \/ Raise(j)
  /\ UNCHANGED <<process, restarts>>

(* The CLI exits when the user is through, or gives up.                          *)
Exit(j) ==
  /\ process[j] = "up"
  /\ \E code \in {"ok", "error"} : process' = [process EXCEPT ![j] = code]
  /\ UNCHANGED <<status, active, task, restarts>>

(* The daemon restarts: it knows no flow, and their processes go on.             *)
Restart ==
  /\ restarts < MaxRestarts
  /\ restarts' = restarts + 1
  /\ status' = [j \in Job |-> "unknown"]
  /\ active' = None
  /\ task' = [j \in Job |-> IF task[j] = "none" THEN "none" ELSE "done"]
  /\ UNCHANGED process

Work(j) == Spawn(j) \/ Feed(j) \/ Read(j) \/ Finish(j)

LoginNext ==
  \/ \E j \in Job : StartJob(j) \/ Work(j) \/ Exit(j)
  \/ Restart

LoginSpec == LoginInit /\ [][LoginNext]_loginVars

(* The event loop runs the tasks; a user may leave the CLI waiting for ever.     *)
LoginFairSpec == LoginSpec /\ \A j \in Job : WF_loginVars(Work(j))

-------------------------------------------------------------------------------
Unfinished(j) == task[j] \in {"queued", "feed", "read", "wait"}

(* The daemon never runs two flows at once, and the flow it calls current is the *)
(* one it runs: but for one whose task has raised, which stays current for ever. *)
OneFlow ==
  \A j \in Job : Unfinished(j) \/ task[j] = "lost" => active = j

(* A flow shown as succeeded had a process that says so, and a flow shown as     *)
(* failed never one that does (_run_job, exit_code).                             *)
ShowsTheExit ==
  \A j \in Job :
    /\ status[j] = "succeeded" => process[j] = "ok"
    /\ status[j] = "failed" => process[j] # "ok"

(* Users may sign in again: a flow that raises nothing gives way to the next     *)
(* unless its process is up (_run_job).                                          *)
FlowGivesWay ==
  \A j \in Job : []<>(active # j \/ task[j] = "lost" \/ process[j] = "up")

(* "completed auth jobs do not block new jobs" (test_auth.py:77): once the       *)
(* process of a flow has ended, the next flow may start.                         *)
CompletedFlowGivesWay ==
  \A j \in Job : []<>(active # j \/ process[j] \notin {"ok", "error"})
===============================================================================
