---------------------------- MODULE DispatchProof ----------------------------
(***************************************************************************)
(* Proofs for any number of workers and tasks, any paths and matches and   *)
(* any launch budget.  Whoever calls, and whatever the dependencies,       *)
(* Dispatch is well typed, no worker and no task ever has two unfinished   *)
(* runs, the run table implements ExclusiveAssignment, locks and work end  *)
(* with their run, and no launch overtakes an unfinished dependency.       *)
(* Without dependencies and with well-timed callers, the board and the run *)
(* table agree, and no pass starts work on a path another worker changes.  *)
(***************************************************************************)
EXTENDS DispatchProperties, DispatchTypes, SequenceTheorems

-----------------------------------------------------------------------------
(* The run table *)

\* Rows of the run table are runs.
LEMMA RowIsRun ==
  ASSUME runs \in Seq(Run), NEW r \in DOMAIN runs
  PROVE  runs[r] \in Run /\ runs[r].agent \in Agent /\ runs[r].task \in Task
<1>1. runs[r] \in Run
  OBVIOUS
<1> QED
  BY <1>1 DEF Run

\* Finishing a run rewrites its row.
LEMMA FinishType ==
  ASSUME runs \in Seq(Run), NEW r \in DOMAIN runs, NEW reported \in BOOLEAN,
         Finish(r, reported)
  PROVE  runs' \in Seq(Run) /\ DOMAIN runs' = DOMAIN runs
<1> DEFINE row == [runs[r] EXCEPT !.status = "ended", !.finished = TRUE,
                                  !.reported = reported \/ @]
<1>1. runs[r] \in Run
  BY RowIsRun
<1>2. row \in Run
  BY <1>1 DEF Run
<1>3. runs' = [runs EXCEPT ![r] = row]
  BY DEF Finish
<1> HIDE DEF row
<1> QED
  BY <1>2, <1>3

\* Finishing several runs rewrites their rows.
LEMMA FinishAllType ==
  ASSUME runs \in Seq(Run), NEW R, FinishAll(R)
  PROVE  runs' \in Seq(Run) /\ DOMAIN runs' = DOMAIN runs
<1> DEFINE row(r) == IF r \in R
                     THEN [runs[r] EXCEPT !.status = "ended", !.finished = TRUE]
                     ELSE runs[r]
<1>1. \A r \in DOMAIN runs : row(r) \in Run
  <2> SUFFICES ASSUME NEW r \in DOMAIN runs PROVE row(r) \in Run
    OBVIOUS
  <2>1. runs[r] \in Run
    BY RowIsRun
  <2> QED
    BY <2>1 DEF Run
<1>2. runs' = [r \in DOMAIN runs |-> row(r)]
  BY DEF FinishAll
<1> HIDE DEF row
<1>3. DOMAIN runs = 1..Len(runs) /\ Len(runs) \in Nat
  OBVIOUS
<1> QED
  BY <1>1, <1>2, <1>3

\* A step of a run's status rewrites its row.
LEMMA StatusType ==
  ASSUME runs \in Seq(Run), NEW r \in DOMAIN runs, NEW status \in Busy \cup {"ended"},
         runs' = [runs EXCEPT ![r].status = status]
  PROVE  runs' \in Seq(Run) /\ DOMAIN runs' = DOMAIN runs
<1> DEFINE row == [runs[r] EXCEPT !.status = status]
<1>1. row \in Run
  BY RowIsRun DEF Run
<1>2. runs' = [runs EXCEPT ![r] = row]
  OBVIOUS
<1> HIDE DEF row
<1> QED
  BY <1>1, <1>2

-----------------------------------------------------------------------------
(* Type correctness *)

\* The initial state is well typed.
LEMMA InitType == Init => TypeOK
<1> SUFFICES ASSUME Init PROVE TypeOK
  OBVIOUS
<1>1. board.agent \in [Agent -> AgentRow]
  BY DEF Init, InitialBoard, AgentRow, IdleLike
<1>2. board.task \in [Task -> TaskRow]
  BY DEF Init, InitialBoard, TaskRow, TaskStatus, Startable, Reason, MaxFailures
<1>3. board \in Board
  BY <1>1, <1>2 DEF Init, InitialBoard, Board
<1>4. runs \in Seq(Run)
  <2>1. runs = <<>>
    BY DEF Init
  <2> QED
    BY <2>1
<1>5. /\ live \subseteq DOMAIN runs /\ flights \subseteq Flight
      /\ failures \subseteq Failure /\ retrying \subseteq Scanner
      /\ decisions \subseteq [run : DOMAIN runs, overruled : BOOLEAN]
      /\ stopping \subseteq [agent : Agent, task : Task \cup {None},
                             runs : SUBSET DOMAIN runs]
      /\ paused \in BOOLEAN
  BY Zenon DEF Init
<1> QED
  BY <1>3, <1>4, <1>5, Zenon DEF TypeOK

\* Starting a pass keeps the types.
LEMMA PassType ==
  ASSUME TypeOK, NEW s \in Scanner, NEW b \in Board, Pass(s, b)
  PROVE  board' \in Board /\ flights' \subseteq Flight
<1>1. PICK o \in PassOutcomes(s, b) : board' = o.board /\ flights' = o.flights
  BY Zenon DEF Pass
<1> QED
  BY <1>1, PassOutcomesType DEF TypeOK

\* The repairs of a trailing pass keep the types.
LEMMA RepairedType ==
  ASSUME NEW b \in Board, NEW rs \in Seq(Run)
  PROVE  Repaired(b, rs) \in Board
BY ReconcileType, Zenon DEF Repaired

\* So does what a decision leaves.
LEMMA HandledType ==
  ASSUME TypeOK, NEW d \in Moves, NEW rs \in Seq(Run), Handled(d, rs)
  PROVE  board' \in Board /\ flights' \subseteq Flight
<1>1. d.board \in Board /\ d.launch \subseteq Flight
  BY DEF Moves
<1>2. board' \in Board
  BY <1>1, RepairedType, Zenon DEF Handled
<1> QED
  BY <1>1, <1>2 DEF Handled, TypeOK

\* Scheduler passes keep the types.
LEMMA ScanType ==
  ASSUME TypeOK, NEW s \in Scanner, Scan(s)
  PROVE  TypeOK'
<1>1. board' \in Board /\ flights' \subseteq Flight
  BY PassType DEF Scan, TypeOK
<1> QED
  BY <1>1 DEF Scan, TypeOK

\* So does the end of a pass.
LEMMA GatherResultsType ==
  ASSUME TypeOK, NEW s \in Scanner, GatherResults(s)
  PROVE  TypeOK'
<1>1. HandleRefusals(board, s) \in Board
  BY HandleRefusalsType DEF TypeOK
<1>2. board' \in Board /\ flights' \subseteq Flight
  <2>1. CASE s \in retrying \/ paused
    BY <1>1, <2>1 DEF GatherResults, TypeOK
  <2>2. CASE ~ (s \in retrying \/ paused)
    <3>1. Pass(s, HandleRefusals(board, s))
      BY <2>2, Zenon DEF GatherResults
    <3> QED
      BY <1>1, <3>1, PassType
  <2> QED
    BY <2>1, <2>2
<1> QED
  BY <1>2 DEF GatherResults, TypeOK

\* So does a user's start.
LEMMA UserStartType ==
  ASSUME TypeOK, NEW a \in Agent, UserStart(a)
  PROVE  TypeOK'
<1>1. board' \in Board /\ flights' \subseteq Flight
  <2>1. CASE \E t \in Candidates(board, runs, a, {}) :
               /\ flights' = flights \cup {[agent |-> a, task |-> t, by |-> "user"]}
               /\ UNCHANGED board
    BY <2>1, CandidatesAreTasks DEF TypeOK, Flight
  <2>2. CASE /\ board' = WaitOnPaths(board, PathBlocked(board, runs, a, {}))
             /\ UNCHANGED flights
    BY <2>2, WaitOnPathsType DEF TypeOK
  <2> QED
    BY <2>1, <2>2, Zenon DEF UserStart
<1> QED
  BY <1>1 DEF UserStart, TypeOK

\* So does a claim: the new row is a run.
LEMMA ClaimType ==
  ASSUME TypeOK, NEW f \in flights, Claim(f)
  PROVE  /\ TypeOK'
         /\ NewRun(f) \in Run
<1>1. f \in Flight /\ f.agent \in Agent /\ f.task \in Task
  BY DEF TypeOK, Flight
<1>2. NewRun(f) \in Run
  BY <1>1 DEF NewRun, Run, Busy
<1>3. /\ runs' \in Seq(Run)
      /\ DOMAIN runs \subseteq DOMAIN runs'
      /\ Len(runs) + 1 \in DOMAIN runs'
  <2>1. runs \in Seq(Run) /\ runs' = Append(runs, NewRun(f))
    BY DEF TypeOK, Claim
  <2> QED
    BY <1>2, <2>1
<1>4. board' \in Board
  <2> DEFINE b0 == SetTask(SetAgent(board, f.agent, "starting", f.task),
                           f.task, "working", f.agent, "none")
             b == Reserve(b0, f.agent, f.task)
  <2>1. SetAgent(board, f.agent, "starting", f.task) \in Board
    BY <1>1, SetAgentType DEF TypeOK, Busy
  <2>2. b0 \in Board
    BY <1>1, <2>1, SetTaskType DEF TaskStatus, Reason
  <2>3. b \in Board
    BY <1>1, <2>2, ReservationTypes, Zenon
  <2>4. board' = IF f.by = "decision" THEN Repaired(b, runs') ELSE b
    BY Zenon DEF Claim
  <2> HIDE DEF b
  <2> QED
    BY <1>3, <2>3, <2>4, RepairedType, Zenon
<1> QED
  BY <1>2, <1>3, <1>4 DEF Claim, TypeOK

\* So does a refusal.
LEMMA RefuseType ==
  ASSUME TypeOK, NEW f \in flights, Refuse(f)
  PROVE  TypeOK'
<1>1. f \in Flight /\ f.agent \in Agent /\ f.task \in Task
  BY DEF TypeOK, Flight
<1>2. board' \in Board
  <2>1. DeferLaunch(board, runs, f) \in Board
    BY <1>1, DeferLaunchType DEF TypeOK
  <2>2. Repaired(DeferLaunch(board, runs, f), runs) \in Board
    BY <2>1, RepairedType DEF TypeOK
  <2> QED
    BY <2>2, Zenon DEF Refuse, TypeOK
<1>3. failures' \subseteq Failure
  BY <1>1 DEF Refuse, TypeOK, Failure
<1> QED
  BY <1>2, <1>3 DEF Refuse, TypeOK

\* A step that keeps the run ids and touches board, runs, launches and
\* decisions only, well typed, keeps the types.
LEMMA SameRunsType ==
  ASSUME TypeOK, board' \in Board, runs' \in Seq(Run), DOMAIN runs' = DOMAIN runs,
         live' \subseteq live, flights' \subseteq Flight,
         decisions' \subseteq [run : DOMAIN runs, overruled : BOOLEAN],
         stopping' \subseteq stopping,
         UNCHANGED <<failures, retrying, paused>>
  PROVE  TypeOK'
BY DEF TypeOK

\* A turn.started event keeps the types.
LEMMA TurnStartedType ==
  ASSUME TypeOK, NEW r \in DOMAIN runs, TurnStarted(r)
  PROVE  TypeOK'
<1>1. runs' \in Seq(Run) /\ DOMAIN runs' = DOMAIN runs
  BY StatusType DEF TurnStarted, TypeOK, Busy
<1>2. board' \in Board
  <2>1. runs[r].agent \in Agent
    BY RowIsRun DEF TypeOK
  <2>2. [board.agent[runs[r].agent] EXCEPT !.status = "working"] \in AgentRow
    BY <2>1 DEF TypeOK, Board, AgentRow, Busy
  <2> DEFINE row == [board.agent[runs[r].agent] EXCEPT !.status = "working"]
             a == runs[r].agent
  <2>3. board' = [board EXCEPT !.agent = [board.agent EXCEPT ![a] = row]]
    BY DEF TurnStarted
  <2> HIDE DEF row, a
  <2> QED
    BY <2>2, <2>3 DEF TypeOK, Board, row
<1> QED
  BY <1>1, <1>2, SameRunsType DEF TurnStarted, TypeOK

\* Recording a report and deciding about it keeps the types.
LEMMA RecordType ==
  ASSUME TypeOK, NEW r \in DOMAIN runs, NEW outcome \in Outcome, Record(r, outcome)
  PROVE  /\ runs' \in Seq(Run) /\ DOMAIN runs' = DOMAIN runs
         /\ board' \in Board /\ flights' \subseteq Flight
         /\ decisions' \subseteq [run : DOMAIN runs, overruled : BOOLEAN]
<1> DEFINE b == Ingested(board, r, outcome)
           overruled == outcome = "done" /\ WorkRemains(b, runs')
           answered == /\ board' = b
                       /\ decisions' = decisions \cup {[run |-> r, overruled |-> overruled]}
                       /\ UNCHANGED flights
           decided == /\ \E d \in Decided(b, runs', r, overruled) : Handled(d, runs')
                      /\ UNCHANGED decisions
<1>1. runs' \in Seq(Run) /\ DOMAIN runs' = DOMAIN runs
  BY FinishType DEF Record, TypeOK
<1>2. b \in Board
  BY IngestedType DEF TypeOK
<1>3. overruled \in BOOLEAN
  BY Zenon
<1>4. answered \/ decided
  BY Zenon DEF Record
<1> HIDE DEF b, overruled
<1>5. CASE answered
  <2>1. [run |-> r, overruled |-> overruled] \in [run : DOMAIN runs, overruled : BOOLEAN]
    BY <1>3, Zenon
  <2> QED
    BY <1>1, <1>2, <1>5, <2>1, Zenon DEF TypeOK
<1>6. CASE decided
  <2>1. PICK d \in Decided(b, runs', r, overruled) : Handled(d, runs')
    BY <1>6
  <2>2. d \in Moves
    BY <1>1, <1>2, DecidedType
  <2> DEFINE rs == runs'
  <2>3. rs \in Seq(Run) /\ Handled(d, rs)
    BY <1>1, <2>1
  <2> HIDE DEF rs
  <2>4. board' \in Board /\ flights' \subseteq Flight
    BY <2>2, <2>3, HandledType
  <2> QED
    BY <1>1, <1>6, <2>4 DEF TypeOK
<1> QED
  BY <1>4, <1>5, <1>6

\* The end of a worker, at once, after a lock or with a bad envelope, and
\* reports from clients, keep the types.
LEMMA EndedType ==
  ASSUME TypeOK, NEW r \in DOMAIN runs, NEW outcome \in Outcome,
         Ended(r, outcome) \/ FinalizeRetry(r, outcome) \/ Report(r, outcome)
  PROVE  TypeOK'
<1>1. Record(r, outcome)
  BY DEF Ended, FinalizeRetry, Report
<1>2. live' \subseteq live /\ UNCHANGED <<failures, retrying, stopping, paused>>
  BY DEF Ended, FinalizeRetry, Report
<1> QED
  BY <1>1, <1>2, RecordType, SameRunsType

\* A lock between the terminal status and the ingest keeps the types.
LEMMA EndedLockedType ==
  ASSUME TypeOK, NEW r \in DOMAIN runs, EndedLocked(r)
  PROVE  TypeOK'
<1>1. runs' \in Seq(Run) /\ DOMAIN runs' = DOMAIN runs
  BY StatusType DEF EndedLocked, TypeOK
<1> QED
  BY <1>1, SameRunsType DEF EndedLocked, TypeOK

\* A rejected completion keeps the types.
LEMMA EndedInvalidType ==
  ASSUME TypeOK, NEW r \in DOMAIN runs, EndedInvalid(r)
  PROVE  TypeOK'
<1>1. runs' \in Seq(Run) /\ DOMAIN runs' = DOMAIN runs
  BY FinishType DEF EndedInvalid, TypeOK
<1>2. board' \in Board
  BY RejectedType DEF EndedInvalid, TypeOK
<1> QED
  BY <1>1, <1>2, SameRunsType DEF EndedInvalid, TypeOK

\* A decision that arrives late, or never, keeps the types.
LEMMA DecideType ==
  ASSUME TypeOK, NEW d \in decisions, Decide(d) \/ DropDecision(d)
  PROVE  TypeOK'
<1>1. decisions' \subseteq [run : DOMAIN runs, overruled : BOOLEAN]
  BY DEF Decide, DropDecision, TypeOK
<1>2. CASE Decide(d)
  <2>1. PICK e \in Decided(board, runs, d.run, d.overruled) : Handled(e, runs)
    BY <1>2, Zenon DEF Decide
  <2>2. d.run \in DOMAIN runs
    BY DEF TypeOK
  <2>3. e \in Moves
    BY <2>2, DecidedType DEF TypeOK
  <2>4. board' \in Board /\ flights' \subseteq Flight
    BY <2>1, <2>3, HandledType DEF TypeOK
  <2> QED
    BY <1>1, <1>2, <2>4, SameRunsType DEF Decide, TypeOK
<1>3. CASE DropDecision(d)
  BY <1>1, <1>3, SameRunsType DEF DropDecision, TypeOK
<1> QED
  BY <1>2, <1>3

\* The exit of a process whose run is finished keeps the types.
LEMMA ExitType ==
  ASSUME TypeOK, NEW r \in DOMAIN runs, Exit(r)
  PROVE  TypeOK'
BY SameRunsType DEF Exit, TypeOK

\* A stop keeps the types, before and after the await.
LEMMA StopAgentType ==
  ASSUME TypeOK, NEW a \in Agent, StopAgent(a)
  PROVE  TypeOK'
<1>1. board' \in Board
  <2>1. board \in Board /\ StoppedBoard(board, {a}, {board.agent[a].task}, {}) \in Board
    BY StoppedBoardType DEF TypeOK
  <2> QED
    BY <2>1 DEF StopAgent
<1>2. [agent |-> a, task |-> board.agent[a].task, runs |-> RunsOfAgent(runs, a)]
        \in [agent : Agent, task : Task \cup {None}, runs : SUBSET DOMAIN runs]
  BY DEF TypeOK, Board, AgentRow, RunsOfAgent
<1> QED
  BY <1>1, <1>2 DEF StopAgent, TypeOK

LEMMA FinishStopType ==
  ASSUME TypeOK, NEW s \in stopping, FinishStop(s)
  PROVE  TypeOK'
<1>1. runs' \in Seq(Run) /\ DOMAIN runs' = DOMAIN runs
  BY FinishAllType DEF FinishStop, TypeOK
<1>2. board' \in Board
  BY StoppedBoardType, Zenon DEF FinishStop, TypeOK
<1> QED
  BY <1>1, <1>2, SameRunsType DEF FinishStop, TypeOK

\* A completion by the user keeps the types.
LEMMA CompleteTaskType ==
  ASSUME TypeOK, NEW t \in Task, CompleteTask(t)
  PROVE  TypeOK'
<1> DEFINE a == board.task[t].agent
           done == SetTask(board, t, "done", None, "none")
           b == Release(done, t, a)
           status == IF b.agent[a].status = "done" THEN "done" ELSE "waiting"
<1>1. runs' \in Seq(Run) /\ DOMAIN runs' = DOMAIN runs
  BY FinishAllType DEF CompleteTask, TypeOK
<1>2. a \in Agent \cup {None}
  BY DEF TypeOK, Board, TaskRow
<1>3. done \in Board
  BY SetTaskType DEF TypeOK, TaskStatus, Reason
<1>4. b \in Board
  BY <1>3, ReservationTypes
<1>5. status \in IdleLike
  BY DEF IdleLike
<1> DEFINE freed == IF a = None THEN b ELSE SetAgent(b, a, status, None)
           rs == runs'
<1>6. board' = Repaired(freed, rs)
  BY Zenon DEF CompleteTask
<1> HIDE DEF a, b, status
<1>7. freed \in Board
  <2>1. CASE a = None
    BY <1>4, <2>1
  <2>2. CASE a # None
    BY <1>2, <1>4, <1>5, <2>2, SetAgentType
  <2> QED
    BY <2>1, <2>2
<1>8. rs \in Seq(Run)
  BY <1>1
<1> HIDE DEF freed, rs
<1>9. board' \in Board
  BY <1>6, <1>7, <1>8, RepairedType
<1> QED
  BY <1>1, <1>9, SameRunsType DEF CompleteTask, TypeOK

\* A pause, its end and a restart keep the types.
LEMMA PauseType ==
  ASSUME TypeOK, Pause
  PROVE  TypeOK'
<1> DEFINE halted == {a \in Agent : AgentHasRun(runs, a)
                                    \/ board.agent[a].status \in Busy}
           R == UNION {RunsOfAgent(runs, a) : a \in halted}
<1>1. FinishAll(R) /\ board' = StoppedBoard(board, halted, {board.agent[a].task : a \in halted}, R)
  BY Zenon DEF Pause
<1> HIDE DEF halted, R
<1>2. runs' \in Seq(Run) /\ DOMAIN runs' = DOMAIN runs
  BY <1>1, FinishAllType DEF TypeOK
<1>3. board' \in Board
  BY <1>1, StoppedBoardType DEF TypeOK
<1>4. live' \subseteq live
  BY DEF Pause
<1> QED
  BY <1>2, <1>3, <1>4 DEF Pause, TypeOK

LEMMA ResumeType ==
  ASSUME TypeOK, Resume
  PROVE  TypeOK'
BY DEF Resume, TypeOK

LEMMA RestartType ==
  ASSUME TypeOK, Restart
  PROVE  TypeOK'
<1> DEFINE R == {r \in DOMAIN runs : ~runs[r].finished}
           b == Interrupted(board, R)
<1>1. FinishAll(R) /\ board' = RequeueOrphanedTasks(b, b, runs')
  BY Zenon DEF Restart
<1>2. b \in Board
  BY InterruptedType DEF TypeOK
<1> HIDE DEF R, b
<1>3. runs' \in Seq(Run) /\ DOMAIN runs' = DOMAIN runs
  BY <1>1, FinishAllType DEF TypeOK
<1>4. board' \in Board
  BY <1>1, <1>2, RequeueOrphanedTasksType
<1>5. live' \subseteq live
  BY DEF Restart
<1> QED
  BY <1>3, <1>4, <1>5 DEF Restart, TypeOK

\* A step of Next is a step of one of its actions.
LEMMA NextCases ==
  ASSUME Next
  PROVE  \/ \E s \in Scanner : Scan(s)
         \/ \E s \in Scanner : GatherResults(s)
         \/ \E a \in Agent : UserStart(a)
         \/ \E a \in Agent : StopAgent(a)
         \/ \E f \in flights : Claim(f)
         \/ \E f \in flights : Refuse(f)
         \/ \E r \in DOMAIN runs : TurnStarted(r)
         \/ \E r \in DOMAIN runs : EndedLocked(r)
         \/ \E r \in DOMAIN runs : EndedInvalid(r)
         \/ \E r \in DOMAIN runs : Exit(r)
         \/ \E r \in DOMAIN runs, o \in Outcome :
              Ended(r, o) \/ FinalizeRetry(r, o) \/ Report(r, o)
         \/ \E d \in decisions : Decide(d) \/ DropDecision(d)
         \/ \E s \in stopping : FinishStop(s)
         \/ \E t \in Task : CompleteTask(t)
         \/ Pause
         \/ Resume
         \/ Restart
BY Zenon DEF Next

\* Every step keeps the types.
LEMMA NextType ==
  ASSUME TypeOK, [Next]_vars
  PROVE  TypeOK'
<1>1. CASE UNCHANGED vars
  BY <1>1 DEF vars, TypeOK
<1>2. CASE Next
  BY <1>2, NextCases, ScanType, GatherResultsType, UserStartType, StopAgentType,
     ClaimType, RefuseType, TurnStartedType, EndedLockedType, EndedInvalidType,
     ExitType, EndedType, DecideType, FinishStopType, CompleteTaskType, PauseType,
     ResumeType, RestartType, Zenon
<1> QED
  BY <1>1, <1>2

\* Every reachable state is well typed (TypeOK of DispatchProperties).
THEOREM TypeCorrect == Spec => []TypeOK
<1>1. Init => TypeOK
  BY InitType
<1>2. TypeOK /\ [Next]_vars => TypeOK'
  BY NextType
<1> QED
  BY <1>1, <1>2, PTL DEF Spec

-----------------------------------------------------------------------------
(* Exclusive runs.  Only a claim opens a run; every other step leaves the  *)
(* rows their worker and task and can only close them.                     *)

RunsOnlyClose ==
  /\ DOMAIN runs' = DOMAIN runs
  /\ \A r \in DOMAIN runs :
       /\ runs'[r].agent = runs[r].agent
       /\ runs'[r].task = runs[r].task
       /\ Unfinished(runs'[r]) => Unfinished(runs[r])

\* Writing the end of a run only closes it.
LEMMA FinishCloses ==
  ASSUME runs \in Seq(Run), NEW r \in DOMAIN runs, NEW reported \in BOOLEAN,
         Finish(r, reported)
  PROVE  RunsOnlyClose
<1> DEFINE row == [runs[r] EXCEPT !.status = "ended", !.finished = TRUE,
                                  !.reported = reported \/ @]
<1>1. runs' = [runs EXCEPT ![r] = row]
  BY DEF Finish
<1>2. /\ row.agent = runs[r].agent /\ row.task = runs[r].task
      /\ ~Unfinished(row)
  BY RowIsRun DEF Run, Unfinished
<1> HIDE DEF row
<1> QED
  BY <1>1, <1>2 DEF RunsOnlyClose

\* So does ending several runs.
LEMMA FinishAllCloses ==
  ASSUME runs \in Seq(Run), NEW R, FinishAll(R)
  PROVE  RunsOnlyClose
<1> SUFFICES ASSUME NEW r \in DOMAIN runs
             PROVE  /\ runs'[r].agent = runs[r].agent
                    /\ runs'[r].task = runs[r].task
                    /\ Unfinished(runs'[r]) => Unfinished(runs[r])
  BY FinishAllType DEF RunsOnlyClose
<1>1. runs[r] \in Run
  BY RowIsRun
<1>2. runs'[r] = IF r \in R
                 THEN [runs[r] EXCEPT !.status = "ended", !.finished = TRUE]
                 ELSE runs[r]
  BY DEF FinishAll
<1>3. CASE r \in R
  BY <1>1, <1>2, <1>3 DEF Run, Unfinished
<1>4. CASE r \notin R
  BY <1>2, <1>4
<1> QED
  BY <1>3, <1>4

\* A new status of an unfinished run closes it or leaves it open.
LEMMA StatusCloses ==
  ASSUME runs \in Seq(Run), NEW r \in DOMAIN runs, NEW status \in Busy \cup {"ended"},
         runs' = [runs EXCEPT ![r].status = status],
         status = "ended" \/ Unfinished(runs[r])
  PROVE  RunsOnlyClose
<1> DEFINE row == [runs[r] EXCEPT !.status = status]
<1>1. runs' = [runs EXCEPT ![r] = row]
  OBVIOUS
<1>2. /\ row.agent = runs[r].agent /\ row.task = runs[r].task
      /\ Unfinished(row) => Unfinished(runs[r])
  BY RowIsRun DEF Run, Unfinished
<1> HIDE DEF row
<1> QED
  BY <1>1, <1>2 DEF RunsOnlyClose

\* Only a claim opens a run.
LEMMA OnlyClaimOpens ==
  ASSUME TypeOK, [Next]_vars
  PROVE  RunsOnlyClose \/ \E f \in flights : Claim(f)
<1> USE DEF TypeOK
<1>1. ASSUME UNCHANGED runs PROVE RunsOnlyClose
  BY <1>1 DEF RunsOnlyClose
<1>2. ASSUME NEW r \in DOMAIN runs, NEW o \in Outcome,
             Ended(r, o) \/ FinalizeRetry(r, o) \/ Report(r, o)
      PROVE  RunsOnlyClose
  <2>1. Finish(r, TRUE)
    BY <1>2 DEF Ended, FinalizeRetry, Report, Record
  <2> QED
    BY <2>1, FinishCloses
<1>3. ASSUME NEW r \in DOMAIN runs, TurnStarted(r) \/ EndedLocked(r) \/ EndedInvalid(r)
      PROVE  RunsOnlyClose
  <2>1. CASE TurnStarted(r)
    <3>1. runs' = [runs EXCEPT ![r].status = "working"] /\ Unfinished(runs[r])
      BY <2>1 DEF TurnStarted, Unfinished
    <3> QED
      BY <3>1, StatusCloses DEF Busy
  <2>2. CASE EndedLocked(r)
    BY <2>2, StatusCloses DEF EndedLocked
  <2>3. CASE EndedInvalid(r)
    BY <2>3, FinishCloses DEF EndedInvalid
  <2> QED
    BY <1>3, <2>1, <2>2, <2>3
<1>4. ASSUME \/ \E s \in stopping : FinishStop(s)
             \/ \E t \in Task : CompleteTask(t)
             \/ Pause
             \/ Restart
      PROVE  RunsOnlyClose
  <2>1. \E R : FinishAll(R)
    BY <1>4, Zenon DEF FinishStop, CompleteTask, Pause, Restart
  <2> QED
    BY <2>1, FinishAllCloses
<1>5. ASSUME \/ \E s \in Scanner : Scan(s) \/ GatherResults(s)
             \/ \E a \in Agent : UserStart(a) \/ StopAgent(a)
             \/ \E f \in flights : Refuse(f)
             \/ \E r \in DOMAIN runs : Exit(r)
             \/ \E d \in decisions : Decide(d) \/ DropDecision(d)
             \/ Resume
             \/ UNCHANGED vars
      PROVE  UNCHANGED runs
  BY <1>5 DEF Scan, GatherResults, UserStart, StopAgent, Refuse, Exit, Decide,
     DropDecision, Resume, vars
<1> QED
  BY <1>1, <1>2, <1>3, <1>4, <1>5, NextCases, Zenon

\* A claim adds one open run, whose worker and task had none.
LEMMA ClaimOpensOne ==
  ASSUME TypeOK, NEW f \in flights, Claim(f)
  PROVE  LET n == Len(runs) + 1 IN
         /\ DOMAIN runs' = DOMAIN runs \cup {n}
         /\ n \notin DOMAIN runs
         /\ \A r \in DOMAIN runs : runs'[r] = runs[r]
         /\ runs'[n].agent = f.agent /\ runs'[n].task = f.task
         /\ Unfinished(runs'[n])
         /\ \A r \in DOMAIN runs :
              Open(r) => runs[r].agent # f.agent /\ runs[r].task # f.task
<1>1. NewRun(f) \in Run
  BY ClaimType
<1>2. runs \in Seq(Run) /\ runs' = Append(runs, NewRun(f))
  BY DEF TypeOK, Claim
<1>3. Unfinished(NewRun(f)) /\ NewRun(f).agent = f.agent /\ NewRun(f).task = f.task
  BY DEF NewRun, Unfinished
<1>4. \A r \in DOMAIN runs :
        Open(r) => runs[r].agent # f.agent /\ runs[r].task # f.task
  BY DEF Claim, Claimable, AgentHasRun, TaskHasRun, RunsOfAgent, RunsOfTask, Open
<1> QED
  BY <1>1, <1>2, <1>3, <1>4

\* No step gives a worker or a task a second unfinished run.
LEMMA NextExclusive ==
  ASSUME TypeOK, ExclusiveRuns, [Next]_vars
  PROVE  ExclusiveRuns'
<1> SUFFICES ASSUME NEW r \in DOMAIN runs', NEW q \in DOMAIN runs',
                    Unfinished(runs'[r]), Unfinished(runs'[q]),
                    runs'[r].agent = runs'[q].agent \/ runs'[r].task = runs'[q].task
             PROVE  r = q
  BY DEF ExclusiveRuns, Open
<1>1. CASE RunsOnlyClose
  BY <1>1 DEF RunsOnlyClose, ExclusiveRuns, Open
<1>2. CASE \E f \in flights : Claim(f)
  <2>1. PICK f \in flights : Claim(f)
    BY <1>2
  <2> QED
    BY <2>1, ClaimOpensOne DEF ExclusiveRuns, Open
<1> QED
  BY <1>1, <1>2, OnlyClaimOpens

\* No worker and no task ever has two unfinished runs, whatever callers,
\* races, stops and restarts do (ExclusiveRuns of DispatchProperties).
THEOREM RunsStayExclusive == Spec => []ExclusiveRuns
<1>1. Init => ExclusiveRuns
  BY DEF Init, ExclusiveRuns
<1>2. TypeOK /\ ExclusiveRuns /\ [Next]_vars => ExclusiveRuns'
  BY NextExclusive
<1> QED
  BY <1>1, <1>2, TypeCorrect, PTL DEF Spec

-----------------------------------------------------------------------------
(* Refinement *)

\* Every step of Dispatch begins one pair of ExclusiveAssignment or ends some.
LEMMA StepRefines ==
  ASSUME TypeOK, [Next]_vars
  PROVE  Assignment!Next
<1>1. CASE RunsOnlyClose
  <2>1. Working(runs') \subseteq Working(runs)
    BY <1>1 DEF RunsOnlyClose, Working
  <2> QED
    BY <2>1 DEF Assignment!Next, Assignment!Finish
<1>2. CASE \E f \in flights : Claim(f)
  <2>1. PICK f \in flights : Claim(f)
    BY <1>2
  <2>2. f.agent \in Agent /\ f.task \in Task
    BY DEF TypeOK, Flight
  <2>3. Working(runs') = Working(runs) \cup {<<f.agent, f.task>>}
    BY <2>1, ClaimOpensOne DEF Working
  <2>4. \A p \in Working(runs) : p[1] # f.agent /\ p[2] # f.task
    BY <2>1, ClaimOpensOne DEF Working, Open
  <2>5. Assignment!Begin(f.agent, f.task)
    BY <2>3, <2>4 DEF Assignment!Begin
  <2> QED
    BY <2>2, <2>5 DEF Assignment!Next
<1> QED
  BY <1>1, <1>2, OnlyClaimOpens

\* The run table implements ExclusiveAssignment: work begins one pair at a
\* time, for a free worker and a free task, and is never handed over silently.
THEOREM DispatchImplementsAssignment == Spec => ImplementsAssignment
<1>1. Init => Assignment!Init
  BY DEF Init, Assignment!Init, Working
<1>2. TypeOK /\ [Next]_vars => [Assignment!Next]_(Working(runs))
  BY StepRefines
<1> QED
  BY <1>1, <1>2, TypeCorrect, PTL DEF Spec, ImplementsAssignment, Assignment!Spec

-----------------------------------------------------------------------------
(* Nothing outlives its run.  The inductive invariant adds that the row of *)
(* a running task names its worker or nobody, by which complete_task_by_   *)
(* user finds the reservations, and that a stop closes runs of its worker. *)

Backed(b, rs) ==
  /\ b.reserved \subseteq
       {<<rs[r].agent, rs[r].task>> : r \in {q \in DOMAIN rs : ~rs[q].finished}}
  /\ \A t \in Task : b.task[t].status = "working"
       => \E r \in DOMAIN rs : ~rs[r].finished /\ rs[r].task = t
  /\ \A r \in DOMAIN rs : Unfinished(rs[r])
       => b.task[rs[r].task].agent \in {None, rs[r].agent}

StopsOwnRuns == \A s \in stopping : \A r \in s.runs : runs[r].agent = s.agent

BackedInv == TypeOK /\ ExclusiveRuns /\ Backed(board, runs) /\ StopsOwnRuns

\* What adds nothing stays backed.
LEMMA BackedHolds ==
  ASSUME NEW b \in Board, NEW c \in Board, NEW rs \in Seq(Run), Backed(b, rs),
         NoMoreHeld(b, c, rs),
         \A r, q \in DOMAIN rs : Unfinished(rs[r]) /\ Unfinished(rs[q])
                                 /\ rs[r].task = rs[q].task => r = q
  PROVE  Backed(c, rs)
<1>1. c.reserved \subseteq
        {<<rs[r].agent, rs[r].task>> : r \in {q \in DOMAIN rs : ~rs[q].finished}}
  BY DEF Backed, NoMoreHeld
<1>2. ASSUME NEW t \in Task, c.task[t].status = "working"
      PROVE  \E r \in DOMAIN rs : ~rs[r].finished /\ rs[r].task = t
  <2>1. CASE b.task[t].status = "working"
    BY <2>1 DEF Backed
  <2>2. CASE TaskHasRun(rs, t)
    BY <2>2 DEF TaskHasRun, RunsOfTask, Unfinished
  <2> QED
    BY <1>2, <2>1, <2>2 DEF NoMoreHeld
<1>3. ASSUME NEW r \in DOMAIN rs, Unfinished(rs[r])
      PROVE  c.task[rs[r].task].agent \in {None, rs[r].agent}
  <2> DEFINE t == rs[r].task
  <2>1. rs[r] \in Run
    OBVIOUS
  <2>2. t \in Task
    BY <2>1 DEF Run
  <2>3. r \in RunsOfTask(rs, t)
    BY <1>3 DEF RunsOfTask
  <2>4. TaskHasRun(rs, t)
    BY <2>3 DEF TaskHasRun
  <2>5. LatestRunId(rs, t) \in RunsOfTask(rs, t)
    BY <2>2, <2>4, LatestRunIsRow
  <2>6. LatestRunId(rs, t) = r
    BY <1>3, <2>5 DEF RunsOfTask
  <2>7. LatestRun(rs, t).agent = rs[r].agent
    BY <2>6 DEF LatestRun
  <2>8. b.task[t].agent \in {None, rs[r].agent}
    BY <1>3 DEF Backed
  <2> QED
    BY <2>2, <2>4, <2>7, <2>8 DEF NoMoreHeld
<1> QED
  BY <1>1, <1>2, <1>3 DEF Backed

\* From board b and run table rs to c and ss, the runs in R may end: their paths
\* are released and their tasks are no longer "working".
Closes(b, c, rs, ss, R) ==
  /\ DOMAIN ss = DOMAIN rs
  /\ \A r \in DOMAIN rs : /\ ss[r].agent = rs[r].agent /\ ss[r].task = rs[r].task
                          /\ Unfinished(ss[r]) => Unfinished(rs[r])
                          /\ r \notin R => ss[r].finished = rs[r].finished
                          /\ rs[r].task \in Task
  /\ c.reserved \subseteq b.reserved
  /\ \A r \in R \cap DOMAIN rs : <<rs[r].agent, rs[r].task>> \notin c.reserved
  /\ \A t \in Task : c.task[t].status = "working"
       => b.task[t].status = "working" /\ \A r \in R \cap DOMAIN rs : rs[r].task # t
  /\ \A t \in Task : c.task[t].agent \in {None, b.task[t].agent}

\* Such a step keeps a board backed.
LEMMA BackedCloses ==
  ASSUME NEW b, NEW c, NEW rs, NEW ss, NEW R, Backed(b, rs), Closes(b, c, rs, ss, R)
  PROVE  Backed(c, ss)
<1>a. DOMAIN ss = DOMAIN rs
  BY DEF Closes
<1>b. \A r \in DOMAIN rs : /\ ss[r].agent = rs[r].agent /\ ss[r].task = rs[r].task
                           /\ Unfinished(ss[r]) => Unfinished(rs[r])
                           /\ r \notin R => ss[r].finished = rs[r].finished
                           /\ rs[r].task \in Task
  BY DEF Closes
<1>c. /\ c.reserved \subseteq b.reserved
      /\ \A r \in R \cap DOMAIN rs : <<rs[r].agent, rs[r].task>> \notin c.reserved
  BY DEF Closes
<1>d. \A t \in Task : c.task[t].status = "working"
        => b.task[t].status = "working" /\ \A r \in R \cap DOMAIN rs : rs[r].task # t
  BY DEF Closes
<1>e. \A t \in Task : c.task[t].agent \in {None, b.task[t].agent}
  BY DEF Closes
<1>1. ASSUME NEW p \in c.reserved
      PROVE  p \in {<<ss[r].agent, ss[r].task>> : r \in {q \in DOMAIN ss : ~ss[q].finished}}
  <2>1. PICK r \in DOMAIN rs : ~rs[r].finished /\ p = <<rs[r].agent, rs[r].task>>
    BY <1>c DEF Backed
  <2>2. r \notin R
    BY <1>1, <1>c, <2>1
  <2> QED
    BY <1>a, <1>b, <2>1, <2>2
<1>2. ASSUME NEW t \in Task, c.task[t].status = "working"
      PROVE  \E r \in DOMAIN ss : ~ss[r].finished /\ ss[r].task = t
  <2>1. PICK r \in DOMAIN rs : ~rs[r].finished /\ rs[r].task = t
    BY <1>2, <1>d DEF Backed
  <2>2. r \notin R
    BY <1>2, <1>d, <2>1
  <2> QED
    BY <1>a, <1>b, <2>1, <2>2
<1>3. ASSUME NEW r \in DOMAIN ss, Unfinished(ss[r])
      PROVE  c.task[ss[r].task].agent \in {None, ss[r].agent}
  <2>1. Unfinished(rs[r]) /\ ss[r].task = rs[r].task /\ ss[r].agent = rs[r].agent
    BY <1>3, <1>a, <1>b
  <2>2. b.task[rs[r].task].agent \in {None, rs[r].agent}
    BY <1>3, <1>a, <2>1 DEF Backed
  <2>3. rs[r].task \in Task
    BY <1>3, <1>a, <1>b
  <2> QED
    BY <1>e, <2>1, <2>2, <2>3
<1> QED
  BY <1>1, <1>2, <1>3 DEF Backed

\* The closing steps as BackedCloses wants them.
LEMMA FinishBacked ==
  ASSUME TypeOK, Backed(board, runs), NEW r \in DOMAIN runs, NEW reported \in BOOLEAN,
         Finish(r, reported), NEW c \in Board,
         c.reserved \subseteq board.reserved \ {<<runs[r].agent, runs[r].task>>},
         \A t \in Task : c.task[t].status = "working"
           => board.task[t].status = "working" /\ t # runs[r].task,
         \A t \in Task : c.task[t].agent \in {None, board.task[t].agent}
  PROVE  Backed(c, runs')
<1> DEFINE ss == runs'
<1>1. RunsOnlyClose
  BY FinishCloses DEF TypeOK
<1>2. \A q \in DOMAIN runs : q # r => runs'[q] = runs[q]
  BY DEF Finish
<1>3. \A q \in DOMAIN runs : runs[q].task \in Task
  BY RowIsRun DEF TypeOK
<1>4. /\ DOMAIN ss = DOMAIN runs
      /\ \A q \in DOMAIN runs : /\ ss[q].agent = runs[q].agent /\ ss[q].task = runs[q].task
                                /\ Unfinished(ss[q]) => Unfinished(runs[q])
                                /\ q \notin {r} => ss[q].finished = runs[q].finished
  BY <1>1, <1>2 DEF RunsOnlyClose
<1>5. \A q \in {r} \cap DOMAIN runs : <<runs[q].agent, runs[q].task>> \notin c.reserved
  OBVIOUS
<1>6. \A t \in Task : c.task[t].status = "working"
        => board.task[t].status = "working" /\ \A q \in {r} \cap DOMAIN runs : runs[q].task # t
  OBVIOUS
<1>7. c.reserved \subseteq board.reserved
  OBVIOUS
<1> HIDE DEF ss
<1>8. Backed(c, ss)
  <2>1. Closes(board, c, runs, ss, {r})
    BY <1>3, <1>4, <1>5, <1>6, <1>7 DEF Closes
  <2> QED
    BY <2>1, BackedCloses
<1> QED
  BY <1>8 DEF ss

LEMMA FinishAllBacked ==
  ASSUME TypeOK, Backed(board, runs), NEW R, FinishAll(R), NEW c \in Board,
         c.reserved \subseteq board.reserved,
         \A r \in R \cap DOMAIN runs : <<runs[r].agent, runs[r].task>> \notin c.reserved,
         \A t \in Task : c.task[t].status = "working"
           => board.task[t].status = "working" /\ \A r \in R \cap DOMAIN runs : runs[r].task # t,
         \A t \in Task : c.task[t].agent \in {None, board.task[t].agent}
  PROVE  Backed(c, runs')
<1> DEFINE ss == runs'
<1>1. RunsOnlyClose
  BY FinishAllCloses DEF TypeOK
<1>2. \A q \in DOMAIN runs : q \notin R => runs'[q] = runs[q]
  BY DEF FinishAll
<1>3. \A q \in DOMAIN runs : runs[q].task \in Task
  BY RowIsRun DEF TypeOK
<1>4. /\ DOMAIN ss = DOMAIN runs
      /\ \A q \in DOMAIN runs : /\ ss[q].agent = runs[q].agent /\ ss[q].task = runs[q].task
                                /\ Unfinished(ss[q]) => Unfinished(runs[q])
                                /\ q \notin R => ss[q].finished = runs[q].finished
  BY <1>1, <1>2 DEF RunsOnlyClose
<1> HIDE DEF ss
<1>5. Backed(c, ss)
  <2>1. Closes(board, c, runs, ss, R)
    BY <1>3, <1>4 DEF Closes
  <2> QED
    BY <2>1, BackedCloses
<1> QED
  BY <1>5 DEF ss

\* Repairs and decisions keep a board backed, if no task has two open runs.
LEMMA RepairedBacked ==
  ASSUME NEW b \in Board, NEW rs \in Seq(Run), Backed(b, rs),
         \A r, q \in DOMAIN rs : Unfinished(rs[r]) /\ Unfinished(rs[q])
                                 /\ rs[r].task = rs[q].task => r = q
  PROVE  Backed(Repaired(b, rs), rs)
<1>1. NoMoreHeld(b, Repaired(b, rs), rs)
  BY ReconcileHolds, NoMoreHeldOrder, Zenon DEF Repaired
<1>2. Repaired(b, rs) \in Board
  BY RepairedType
<1> QED
  BY <1>1, <1>2, BackedHolds

LEMMA DecidedBacked ==
  ASSUME NEW b \in Board, NEW rs \in Seq(Run), Backed(b, rs),
         \A r, q \in DOMAIN rs : Unfinished(rs[r]) /\ Unfinished(rs[q])
                                 /\ rs[r].task = rs[q].task => r = q,
         NEW r \in DOMAIN rs, NEW overruled,
         NEW d \in Decided(b, rs, r, overruled), Handled(d, rs)
  PROVE  Backed(board', rs)
<1>1. d.board \in Board
  BY DecidedType DEF Moves
<1>2. NoMoreHeld(b, d.board, rs)
  BY DecidedModest DEF Modest
<1>3. Backed(d.board, rs)
  BY <1>1, <1>2, BackedHolds
<1>4. Backed(Repaired(d.board, rs), rs)
  BY <1>1, <1>3, RepairedBacked
<1> QED
  BY <1>3, <1>4, Zenon DEF Handled

\* A step that leaves the run table alone and adds nothing keeps it backed.
LEMMA SameRunsBacked ==
  ASSUME BackedInv, TypeOK', UNCHANGED runs, NoMoreHeld(board, board', runs)
  PROVE  Backed(board', runs')
<1> DEFINE c == board'
<1>1. c \in Board /\ board \in Board /\ runs \in Seq(Run) /\ NoMoreHeld(board, c, runs)
  BY DEF BackedInv, TypeOK
<1>2. \A r, q \in DOMAIN runs : Unfinished(runs[r]) /\ Unfinished(runs[q])
                                /\ runs[r].task = runs[q].task => r = q
  BY DEF BackedInv, ExclusiveRuns, Open
<1>3. Backed(board, runs)
  BY DEF BackedInv
<1> HIDE DEF c
<1>4. Backed(c, runs)
  BY <1>1, <1>2, <1>3, BackedHolds
<1> QED
  BY <1>4 DEF c

\* Passes, user starts, refusals and late decisions add nothing.
LEMMA QuietStepsBacked ==
  ASSUME BackedInv, TypeOK',
         \/ \E s \in Scanner : Scan(s) \/ GatherResults(s)
         \/ \E a \in Agent : UserStart(a)
         \/ \E f \in flights : Refuse(f)
  PROVE  Backed(board', runs')
<1> USE DEF BackedInv
<1>1. ASSUME NEW s \in Scanner, NEW b \in Board, NoMoreHeld(board, b, runs), Pass(s, b)
      PROVE  NoMoreHeld(board, board', runs)
  <2>1. PICK o \in PassOutcomes(s, b) : board' = o.board
    BY <1>1, Zenon DEF Pass
  <2>2. NoMoreHeld(b, o.board, runs)
    BY PassOutcomesHolds DEF TypeOK
  <2>3. NoMoreHeld(board, o.board, runs)
    BY <1>1, <2>2, NoMoreHeldOrder, Zenon
  <2> QED
    BY <2>1, <2>3
<1>2. board \in Board /\ NoMoreHeld(board, board, runs)
  BY NoMoreHeldOrder DEF TypeOK
<1>3. ASSUME NEW s \in Scanner, Scan(s)
      PROVE  UNCHANGED runs /\ NoMoreHeld(board, board', runs)
  BY <1>1, <1>2, <1>3 DEF Scan
<1>4. ASSUME NEW s \in Scanner, GatherResults(s)
      PROVE  UNCHANGED runs /\ NoMoreHeld(board, board', runs)
  <2>1. /\ HandleRefusals(board, s) \in Board
        /\ NoMoreHeld(board, HandleRefusals(board, s), runs)
    BY <1>2, HandleRefusalsType, HandleRefusalsHolds
  <2>2. UNCHANGED runs
    BY <1>4 DEF GatherResults
  <2>3. board' = HandleRefusals(board, s) \/ Pass(s, HandleRefusals(board, s))
    BY <1>4, Zenon DEF GatherResults
  <2>4. CASE board' = HandleRefusals(board, s)
    BY <2>1, <2>2, <2>4
  <2>5. CASE Pass(s, HandleRefusals(board, s))
    BY <1>1, <2>1, <2>2, <2>5
  <2> QED
    BY <2>3, <2>4, <2>5
<1>5. ASSUME NEW a \in Agent, UserStart(a)
      PROVE  UNCHANGED runs /\ NoMoreHeld(board, board', runs)
  <2>1. NoMoreHeld(board, WaitOnPaths(board, PathBlocked(board, runs, a, {})), runs)
    BY <1>2, WaitOnPathsHolds
  <2>2. UNCHANGED runs
    BY <1>5 DEF UserStart
  <2>3. board' = board \/ board' = WaitOnPaths(board, PathBlocked(board, runs, a, {}))
    BY <1>5, Zenon DEF UserStart
  <2> QED
    BY <1>2, <2>1, <2>2, <2>3
<1>6. ASSUME NEW f \in flights, Refuse(f)
      PROVE  UNCHANGED runs /\ NoMoreHeld(board, board', runs)
  <2> DEFINE b == DeferLaunch(board, runs, f)
  <2>1. f \in Flight
    BY DEF TypeOK
  <2>2. b \in Board /\ NoMoreHeld(board, b, runs)
    BY <1>2, <2>1, DeferLaunchType, DeferLaunchHolds
  <2>3. UNCHANGED runs /\ board' \in {board, Repaired(b, runs)}
    BY <1>6, Zenon DEF Refuse
  <2> HIDE DEF b
  <2>4. NoMoreHeld(b, Repaired(b, runs), runs)
    BY <2>2, ReconcileHolds, NoMoreHeldOrder, Zenon DEF Repaired, TypeOK
  <2> QED
    BY <1>2, <2>2, <2>3, <2>4, NoMoreHeldOrder, Zenon
<1> QED
  BY <1>3, <1>4, <1>5, <1>6, SameRunsBacked

\* No task has two open runs after the step either.
LEMMA TaskRunsExclusive ==
  ASSUME ExclusiveRuns'
  PROVE  LET rs == runs' IN
         \A r, q \in DOMAIN rs : Unfinished(rs[r]) /\ Unfinished(rs[q])
                                 /\ rs[r].task = rs[q].task => r = q
BY DEF ExclusiveRuns, Open

\* A claim backs the path it reserves and the task it marks with its run.
LEMMA ClaimBacked ==
  ASSUME BackedInv, TypeOK', ExclusiveRuns', NEW f \in flights, Claim(f)
  PROVE  Backed(board', runs')
<1> DEFINE n == Len(runs) + 1
           rs == runs'
           b0 == SetAgent(board, f.agent, "starting", f.task)
           b1 == SetTask(b0, f.task, "working", f.agent, "none")
           b == Reserve(b1, f.agent, f.task)
<1>1. TypeOK /\ Backed(board, runs) /\ board \in Board /\ runs \in Seq(Run)
  BY DEF BackedInv, TypeOK
<1>2. f.agent \in Agent /\ f.task \in Task
  BY <1>1 DEF TypeOK, Flight
<1>3. /\ DOMAIN rs = DOMAIN runs \cup {n}
      /\ n \notin DOMAIN runs
      /\ \A r \in DOMAIN runs : rs[r] = runs[r]
      /\ rs[n].agent = f.agent /\ rs[n].task = f.task
      /\ Unfinished(rs[n])
      /\ \A r \in DOMAIN runs :
           Open(r) => runs[r].agent # f.agent /\ runs[r].task # f.task
  BY <1>1, ClaimOpensOne, Zenon
<1>4. rs \in Seq(Run)
  BY DEF TypeOK
<1>5. \A r, q \in DOMAIN rs : Unfinished(rs[r]) /\ Unfinished(rs[q])
                              /\ rs[r].task = rs[q].task => r = q
  BY TaskRunsExclusive
<1>6. board' = IF f.by = "decision" THEN Repaired(b, rs) ELSE b
  BY Zenon DEF Claim
<1> HIDE DEF n, rs
<1>7. b0 \in Board /\ b0.task = board.task /\ b0.reserved = board.reserved
  <2>1. b0 \in Board
    BY <1>1, <1>2, SetAgentType DEF Busy
  <2>2. b0.task = board.task /\ b0.reserved = board.reserved
    BY <1>1 DEF SetAgent, Board
  <2> QED
    BY <2>1, <2>2
<1> HIDE DEF b0
<1>8. /\ b1 \in Board /\ b1.reserved = board.reserved
      /\ b1.task[f.task].agent = f.agent
      /\ \A u \in Task \ {f.task} : b1.task[u] = board.task[u]
  <2>1. b1 \in Board
    BY <1>2, <1>7, SetTaskType, Words
  <2>2. /\ b1.reserved = b0.reserved
        /\ b1.task[f.task].agent = f.agent
        /\ \A u \in Task \ {f.task} : b1.task[u] = b0.task[u]
    BY <1>2, <1>7, SetTaskFields
  <2> QED
    BY <1>7, <2>1, <2>2
<1> HIDE DEF b1
<1>9. b \in Board /\ b.task = b1.task /\ b.reserved = b1.reserved \cup {<<f.agent, f.task>>}
  <2>1. b \in Board
    BY <1>2, <1>8, ReservationTypes
  <2>2. b.task = b1.task /\ b.reserved = b1.reserved \cup {<<f.agent, f.task>>}
    BY <1>8 DEF Reserve, Board
  <2> QED
    BY <2>1, <2>2
<1> HIDE DEF b
<1>10. Backed(b, rs)
  <2>1. ASSUME NEW p \in b.reserved
        PROVE  p \in {<<rs[r].agent, rs[r].task>> : r \in {q \in DOMAIN rs : ~rs[q].finished}}
    <3>1. CASE p = <<f.agent, f.task>>
      BY <1>3, <3>1 DEF Unfinished
    <3>2. CASE p \in board.reserved
      <4>1. PICK r \in DOMAIN runs : ~runs[r].finished /\ p = <<runs[r].agent, runs[r].task>>
        BY <1>1, <3>2 DEF Backed
      <4> QED
        BY <1>3, <4>1
    <3> QED
      BY <1>8, <1>9, <2>1, <3>1, <3>2
  <2>2. ASSUME NEW t \in Task, b.task[t].status = "working"
        PROVE  \E r \in DOMAIN rs : ~rs[r].finished /\ rs[r].task = t
    <3>1. CASE t = f.task
      BY <1>3, <3>1 DEF Unfinished
    <3>2. CASE t # f.task
      <4>1. board.task[t].status = "working"
        BY <1>8, <1>9, <2>2, <3>2
      <4>2. PICK r \in DOMAIN runs : ~runs[r].finished /\ runs[r].task = t
        BY <1>1, <4>1 DEF Backed
      <4> QED
        BY <1>3, <4>2
    <3> QED
      BY <3>1, <3>2
  <2>3. ASSUME NEW r \in DOMAIN rs, Unfinished(rs[r])
        PROVE  b.task[rs[r].task].agent \in {None, rs[r].agent}
    <3>1. CASE r = n
      BY <1>3, <1>8, <1>9, <3>1
    <3>2. CASE r \in DOMAIN runs
      <4>1. rs[r] = runs[r] /\ runs[r].task # f.task
        BY <1>3, <2>3, <3>2 DEF Open
      <4>2. runs[r].task \in Task
        BY <1>1, <3>2, RowIsRun
      <4>3. board.task[runs[r].task].agent \in {None, runs[r].agent}
        BY <1>1, <2>3, <3>2, <4>1 DEF Backed
      <4> QED
        BY <1>8, <1>9, <4>1, <4>2, <4>3
    <3> QED
      BY <1>3, <2>3, <3>1, <3>2
  <2> QED
    BY <2>1, <2>2, <2>3 DEF Backed
<1>11. Backed(Repaired(b, rs), rs)
  BY <1>4, <1>5, <1>9, <1>10, RepairedBacked
<1> QED
  BY <1>6, <1>10, <1>11, Zenon DEF rs

\* A recorded report, and the decision that may follow at once, stay backed.
LEMMA RecordBacked ==
  ASSUME BackedInv, TypeOK', ExclusiveRuns', NEW r \in DOMAIN runs, NEW o \in Outcome,
         Record(r, o)
  PROVE  Backed(board', runs')
<1> DEFINE rs == runs'
           b == Ingested(board, r, o)
           overruled == o = "done" /\ WorkRemains(b, rs)
<1>1. TypeOK /\ Backed(board, runs) /\ board \in Board /\ runs \in Seq(Run)
  BY DEF BackedInv, TypeOK
<1>2. Finish(r, TRUE)
  BY DEF Record
<1>3. b \in Board /\ Frees(board, b, runs[r].agent, runs[r].task)
  BY <1>1, IngestedType, IngestedFrees
<1>4. \/ board' = b
      \/ \E d \in Decided(b, rs, r, overruled) : Handled(d, rs)
  BY Zenon DEF Record
<1>5. rs \in Seq(Run) /\ DOMAIN rs = DOMAIN runs
  BY <1>1, <1>2, FinishType
<1>6. \A q, p \in DOMAIN rs : Unfinished(rs[q]) /\ Unfinished(rs[p])
                              /\ rs[q].task = rs[p].task => q = p
  BY TaskRunsExclusive
<1> HIDE DEF b, overruled
<1>7. Backed(b, rs)
  BY <1>1, <1>2, <1>3, FinishBacked DEF Frees
<1> HIDE DEF rs
<1>8. CASE board' = b
  BY <1>7, <1>8 DEF rs
<1>9. CASE \E d \in Decided(b, rs, r, overruled) : Handled(d, rs)
  <2>1. PICK d \in Decided(b, rs, r, overruled) : Handled(d, rs)
    BY <1>9
  <2>2. Backed(board', rs)
    BY <1>3, <1>5, <1>6, <1>7, <2>1, DecidedBacked
  <2> QED
    BY <2>2 DEF rs
<1> QED
  BY <1>4, <1>8, <1>9

\* So does a rejected completion.
LEMMA EndedInvalidBacked ==
  ASSUME BackedInv, TypeOK', ExclusiveRuns', NEW r \in DOMAIN runs, EndedInvalid(r)
  PROVE  Backed(board', runs')
<1> DEFINE rs == runs'
           c == board'
<1>1. TypeOK /\ Backed(board, runs) /\ board \in Board /\ runs \in Seq(Run)
  BY DEF BackedInv, TypeOK
<1>2. Finish(r, TRUE) /\ c = Rejected(board, r)
  BY DEF EndedInvalid
<1>3. PICK b \in Board : /\ Frees(board, b, runs[r].agent, runs[r].task)
                         /\ c = ReleaseOrphanedReservations(b, rs)
  BY <1>1, <1>2, RejectedFrees
<1>4. rs \in Seq(Run) /\ c \in Board
  BY DEF TypeOK
<1>5. \A q, p \in DOMAIN rs : Unfinished(rs[q]) /\ Unfinished(rs[p])
                              /\ rs[q].task = rs[p].task => q = p
  BY TaskRunsExclusive
<1>6. Backed(b, rs)
  BY <1>1, <1>2, <1>3, FinishBacked DEF Frees
<1> HIDE DEF c, rs
<1>7. NoMoreHeld(b, c, rs)
  BY <1>3, ReleaseOrphanedReservationsHolds
<1>8. Backed(c, rs)
  BY <1>4, <1>5, <1>6, <1>7, BackedHolds
<1> QED
  BY <1>8 DEF c, rs

\* A step of a run's status leaves what backs the board.
LEMMA StatusBacked ==
  ASSUME BackedInv, NEW r \in DOMAIN runs, NEW status \in Busy \cup {"ended"},
         runs' = [runs EXCEPT ![r].status = status],
         status = "ended" \/ Unfinished(runs[r]),
         board'.task = board.task, board'.reserved = board.reserved
  PROVE  Backed(board', runs')
<1> DEFINE c == board'
           ss == runs'
<1>1. TypeOK /\ Backed(board, runs) /\ runs \in Seq(Run)
  BY DEF BackedInv, TypeOK
<1>2. RunsOnlyClose
  BY <1>1, StatusCloses
<1>3. \A q \in DOMAIN runs : ss[q].finished = runs[q].finished
  BY <1>1, RowIsRun DEF Run
<1>4. \A q \in DOMAIN runs : runs[q].task \in Task
  BY <1>1, RowIsRun
<1>5. /\ DOMAIN ss = DOMAIN runs
      /\ \A q \in DOMAIN runs : /\ ss[q].agent = runs[q].agent /\ ss[q].task = runs[q].task
                                /\ Unfinished(ss[q]) => Unfinished(runs[q])
                                /\ q \notin {} => ss[q].finished = runs[q].finished
  BY <1>2, <1>3 DEF RunsOnlyClose
<1>6. c.task = board.task /\ c.reserved = board.reserved
  OBVIOUS
<1> HIDE DEF c, ss
<1>7. Backed(c, ss)
  <2>1. Closes(board, c, runs, ss, {})
    BY <1>4, <1>5, <1>6 DEF Closes
  <2> QED
    BY <1>1, <2>1, BackedCloses
<1> QED
  BY <1>7 DEF c, ss

\* A completion by the user releases what the run it ends holds: the row names
\* the run's worker or nobody.
LEMMA CompleteTaskBacked ==
  ASSUME BackedInv, TypeOK', ExclusiveRuns', NEW t \in Task, CompleteTask(t)
  PROVE  Backed(board', runs')
<1> DEFINE a == board.task[t].agent
           done == SetTask(board, t, "done", None, "none")
           b == Release(done, t, a)
           status == IF b.agent[a].status = "done" THEN "done" ELSE "waiting"
           freed == IF a = None THEN b ELSE SetAgent(b, a, status, None)
           rs == runs'
           R == LatestRunOf(t)
<1>1. TypeOK /\ Backed(board, runs) /\ board \in Board /\ runs \in Seq(Run)
  BY DEF BackedInv, TypeOK
<1>2. board' = Repaired(freed, rs) /\ FinishAll(R)
  BY Zenon DEF CompleteTask
<1>3. rs \in Seq(Run)
  BY DEF TypeOK
<1>4. \A q, p \in DOMAIN rs : Unfinished(rs[q]) /\ Unfinished(rs[p])
                              /\ rs[q].task = rs[p].task => q = p
  BY TaskRunsExclusive
<1>5. a \in Agent \cup {None}
  BY <1>1 DEF Board, TaskRow
<1>6. \A r \in R : /\ r \in DOMAIN runs /\ runs[r].task = t
                   /\ a \in {None, runs[r].agent}
  <2> SUFFICES ASSUME NEW r \in R
               PROVE  /\ r \in DOMAIN runs /\ runs[r].task = t
                      /\ a \in {None, runs[r].agent}
    OBVIOUS
  <2>1. TaskHasRun(runs, t) /\ r = LatestRunId(runs, t)
    BY DEF LatestRunOf
  <2>2. r \in RunsOfTask(runs, t)
    BY <1>1, <2>1, LatestRunIsRow
  <2>3. r \in DOMAIN runs /\ runs[r].task = t /\ Unfinished(runs[r])
    BY <2>2 DEF RunsOfTask
  <2> QED
    BY <1>1, <2>3 DEF Backed
<1>7. /\ done \in Board /\ done.reserved = board.reserved
      /\ done.task[t].status = "done" /\ done.task[t].agent = None
      /\ \A u \in Task \ {t} : done.task[u] = board.task[u]
  <2>1. done \in Board
    BY <1>1, SetTaskType, Words
  <2>2. /\ done.reserved = board.reserved
        /\ done.task[t].status = "done" /\ done.task[t].agent = None
        /\ \A u \in Task \ {t} : done.task[u] = board.task[u]
    BY <1>1, SetTaskFields
  <2> QED
    BY <2>1, <2>2
<1> HIDE DEF a, done, R
<1>8. /\ b \in Board /\ b.task = done.task /\ b.reserved \subseteq board.reserved
      /\ \A p \in b.reserved : ~ (p[2] = t /\ a \in {None, p[1]})
  <2>1. b \in Board
    BY <1>7, ReservationTypes
  <2>2. b.task = done.task /\ b.reserved = {p \in done.reserved :
                                              ~ (a \in {None, p[1]} /\ t \in {None, p[2]})}
    BY <1>7 DEF Release, Board
  <2> QED
    BY <1>7, <2>1, <2>2
<1> HIDE DEF b
<1>9. freed \in Board /\ freed.task = b.task /\ freed.reserved = b.reserved
  <2>1. CASE a = None
    BY <1>8, <2>1
  <2>2. CASE a # None
    <3>1. freed = SetAgent(b, a, status, None)
      BY <2>2
    <3>2. status \in IdleLike
      BY DEF IdleLike
    <3> HIDE DEF freed, status
    <3>3. freed \in Board
      BY <1>5, <1>8, <2>2, <3>1, <3>2, SetAgentType
    <3>4. freed.task = b.task /\ freed.reserved = b.reserved
      BY <1>8, <3>1 DEF SetAgent, Board
    <3> QED
      BY <3>3, <3>4
  <2> QED
    BY <2>1, <2>2
<1> HIDE DEF freed
<1>10. \A r \in R \cap DOMAIN runs : <<runs[r].agent, runs[r].task>> \notin freed.reserved
  <2> SUFFICES ASSUME NEW r \in R, <<runs[r].agent, runs[r].task>> \in freed.reserved
               PROVE  FALSE
    OBVIOUS
  <2> DEFINE p == <<runs[r].agent, runs[r].task>>
  <2>1. p \in b.reserved /\ p[1] = runs[r].agent /\ p[2] = runs[r].task
    BY <1>9
  <2> HIDE DEF p
  <2> QED
    BY <1>6, <1>8, <2>1
<1>11. \A u \in Task : freed.task[u].status = "working"
         => board.task[u].status = "working" /\ \A r \in R \cap DOMAIN runs : runs[r].task # u
  BY <1>6, <1>7, <1>8, <1>9
<1>12. \A u \in Task : freed.task[u].agent \in {None, board.task[u].agent}
  BY <1>7, <1>8, <1>9
<1>13. Backed(freed, rs)
  BY <1>1, <1>2, <1>8, <1>9, <1>10, <1>11, <1>12, FinishAllBacked
<1> HIDE DEF rs
<1>14. Backed(Repaired(freed, rs), rs)
  BY <1>3, <1>4, <1>9, <1>13, RepairedBacked
<1> QED
  BY <1>2, <1>14 DEF rs

\* Stopping runs of the workers in A releases what they hold.
LEMMA StoppedBacked ==
  ASSUME BackedInv, NEW A, NEW named, NEW R, FinishAll(R),
         \A r \in R \cap DOMAIN runs : runs[r].agent \in A,
         board' = StoppedBoard(board, A, named, R)
  PROVE  Backed(board', runs')
<1> DEFINE c == board'
<1>1. TypeOK /\ Backed(board, runs) /\ board \in Board
  BY DEF BackedInv, TypeOK
<1>2. c \in Board
  BY <1>1, StoppedBoardType
<1>3. /\ c.reserved = {p \in board.reserved : p[1] \notin A}
      /\ \A u \in Task :
           /\ c.task[u].status = "working"
                => board.task[u].status = "working" /\ \A r \in R : runs[r].task # u
           /\ c.task[u].agent \in {None, board.task[u].agent}
  BY <1>1, StoppedBoardFrees
<1> HIDE DEF c
<1>4. \A r \in R \cap DOMAIN runs : <<runs[r].agent, runs[r].task>> \notin c.reserved
  <2> SUFFICES ASSUME NEW r \in R \cap DOMAIN runs,
                      <<runs[r].agent, runs[r].task>> \in c.reserved
               PROVE  FALSE
    OBVIOUS
  <2>1. <<runs[r].agent, runs[r].task>>[1] \notin A
    BY <1>3
  <2> QED
    BY <2>1
<1>5. Backed(c, runs')
  BY <1>1, <1>2, <1>3, <1>4, FinishAllBacked
<1> QED
  BY <1>5 DEF c

\* A restart ends every run that is left and requeues their tasks.
LEMMA RestartBacked ==
  ASSUME BackedInv, TypeOK', ExclusiveRuns', Restart
  PROVE  Backed(board', runs')
<1> DEFINE R == {r \in DOMAIN runs : ~runs[r].finished}
           b == Interrupted(board, R)
           rs == runs'
           c == board'
<1>1. TypeOK /\ Backed(board, runs) /\ board \in Board
  BY DEF BackedInv, TypeOK
<1>2. FinishAll(R) /\ c = RequeueOrphanedTasks(b, b, rs)
  BY Zenon DEF Restart
<1>3. rs \in Seq(Run) /\ c \in Board
  BY DEF TypeOK
<1>4. \A q, p \in DOMAIN rs : Unfinished(rs[q]) /\ Unfinished(rs[p])
                              /\ rs[q].task = rs[p].task => q = p
  BY TaskRunsExclusive
<1>5. b \in Board
  BY <1>1, InterruptedType
<1>6. /\ b.reserved = board.reserved \ PairsOf(R)
      /\ \A u \in Task :
           /\ b.task[u].status = "working"
                => board.task[u].status = "working" /\ \A r \in R : runs[r].task # u
           /\ b.task[u].agent \in {None, board.task[u].agent}
  BY <1>1, InterruptedFrees
<1> HIDE DEF R, b
<1>7. \A r \in R \cap DOMAIN runs : <<runs[r].agent, runs[r].task>> \notin b.reserved
  BY <1>6 DEF PairsOf
<1>8. Backed(b, rs)
  BY <1>1, <1>2, <1>5, <1>6, <1>7, FinishAllBacked
<1> HIDE DEF rs, c
<1>9. NoMoreHeld(b, c, rs)
  BY <1>2, <1>5, RequeueOrphanedTasksHolds
<1>10. Backed(c, rs)
  BY <1>3, <1>4, <1>5, <1>8, <1>9, BackedHolds
<1> QED
  BY <1>10 DEF c, rs

\* Every step keeps the board backed by runs whose end is not recorded.
LEMMA NextBacked ==
  ASSUME BackedInv, TypeOK', ExclusiveRuns', [Next]_vars
  PROVE  Backed(board', runs')
<1>1. TypeOK /\ Backed(board, runs) /\ board \in Board
  BY DEF BackedInv, TypeOK
<1>2. ASSUME UNCHANGED <<board, runs>> PROVE Backed(board', runs')
  BY <1>1, <1>2
<1>3. ASSUME NEW r \in DOMAIN runs, NEW o \in Outcome,
             Ended(r, o) \/ FinalizeRetry(r, o) \/ Report(r, o)
      PROVE  Backed(board', runs')
  <2>1. Record(r, o)
    BY <1>3 DEF Ended, FinalizeRetry, Report
  <2> QED
    BY <2>1, RecordBacked
<1>4. ASSUME NEW r \in DOMAIN runs, TurnStarted(r) PROVE Backed(board', runs')
  <2>1. /\ runs' = [runs EXCEPT ![r].status = "working"] /\ Unfinished(runs[r])
        /\ board' = [board EXCEPT !.agent[runs[r].agent].status = "working"]
    BY <1>4 DEF TurnStarted, Unfinished
  <2>2. board'.task = board.task /\ board'.reserved = board.reserved
    BY <1>1, <2>1 DEF Board
  <2> QED
    BY <2>1, <2>2, StatusBacked DEF Busy
<1>5. ASSUME NEW r \in DOMAIN runs, EndedLocked(r) PROVE Backed(board', runs')
  BY <1>5, StatusBacked DEF EndedLocked
<1>6. ASSUME NEW a \in Agent, StopAgent(a) PROVE Backed(board', runs')
  <2>1. /\ UNCHANGED runs
        /\ board' \in {board, StoppedBoard(board, {a}, {board.agent[a].task}, {})}
    BY <1>6, Zenon DEF StopAgent
  <2>2. NoMoreHeld(board, StoppedBoard(board, {a}, {board.agent[a].task}, {}), runs)
    BY <1>1, StoppedBoardFrees DEF NoMoreHeld
  <2> QED
    BY <2>1, <2>2, NoMoreHeldOrder, SameRunsBacked
<1>7. ASSUME NEW s \in stopping, FinishStop(s) PROVE Backed(board', runs')
  <2>1. FinishAll(s.runs) /\ board' = StoppedBoard(board, {s.agent}, {s.task}, s.runs)
    BY <1>7 DEF FinishStop
  <2>2. \A r \in s.runs \cap DOMAIN runs : runs[r].agent \in {s.agent}
    BY DEF BackedInv, StopsOwnRuns
  <2> QED
    BY <2>1, <2>2, StoppedBacked
<1>8. ASSUME Pause PROVE Backed(board', runs')
  <2> DEFINE halted == {a \in Agent : AgentHasRun(runs, a)
                                      \/ board.agent[a].status \in Busy}
             R == UNION {RunsOfAgent(runs, a) : a \in halted}
             named == {board.agent[a].task : a \in halted}
  <2>1. FinishAll(R) /\ board' = StoppedBoard(board, halted, named, R)
    BY <1>8, Zenon DEF Pause
  <2>2. \A r \in R \cap DOMAIN runs : runs[r].agent \in halted
    BY DEF RunsOfAgent
  <2> HIDE DEF halted, R, named
  <2> QED
    BY <2>1, <2>2, StoppedBacked
<1>9. ASSUME NEW d \in decisions, Decide(d) PROVE Backed(board', runs')
  <2>1. PICK e \in Decided(board, runs, d.run, d.overruled) : Handled(e, runs)
    BY <1>9, Zenon DEF Decide
  <2>2. d.run \in DOMAIN runs /\ runs \in Seq(Run)
    BY <1>1 DEF TypeOK
  <2>3. \A q, p \in DOMAIN runs : Unfinished(runs[q]) /\ Unfinished(runs[p])
                                  /\ runs[q].task = runs[p].task => q = p
    BY DEF BackedInv, ExclusiveRuns, Open
  <2>4. Backed(board', runs)
    BY <1>1, <2>1, <2>2, <2>3, DecidedBacked
  <2>5. UNCHANGED runs
    BY <1>9 DEF Decide
  <2> QED
    BY <2>4, <2>5
<1>10. ASSUME \/ \E r \in DOMAIN runs : Exit(r)
              \/ \E d \in decisions : DropDecision(d)
              \/ Resume
              \/ UNCHANGED vars
       PROVE  UNCHANGED <<board, runs>>
  BY <1>10 DEF Exit, DropDecision, Resume, vars
<1> QED
  BY <1>2, <1>3, <1>4, <1>5, <1>6, <1>7, <1>8, <1>9, <1>10, NextCases, QuietStepsBacked,
     ClaimBacked, EndedInvalidBacked, CompleteTaskBacked, RestartBacked, Zenon

\* A stop keeps closing runs of its own worker: no row changes its worker.
LEMMA NextStopsOwnRuns ==
  ASSUME BackedInv, [Next]_vars
  PROVE  StopsOwnRuns'
<1>1. TypeOK /\ StopsOwnRuns
  BY DEF BackedInv
<1>2. \A r \in DOMAIN runs : runs'[r].agent = runs[r].agent
  BY <1>1, OnlyClaimOpens, ClaimOpensOne DEF RunsOnlyClose
<1>3. \A s \in stopping : s.runs \subseteq DOMAIN runs
  BY <1>1 DEF TypeOK
<1>4. \A s \in stopping' \ stopping : \A r \in s.runs :
        r \in DOMAIN runs /\ runs[r].agent = s.agent
  <2>1. ASSUME NEW a \in Agent, StopAgent(a)
        PROVE  \A s \in stopping' \ stopping : \A r \in s.runs :
                 r \in DOMAIN runs /\ runs[r].agent = s.agent
    <3>1. stopping' \subseteq stopping \cup
            {[agent |-> a, task |-> board.agent[a].task, runs |-> RunsOfAgent(runs, a)]}
      BY <2>1 DEF StopAgent
    <3> QED
      BY <3>1 DEF RunsOfAgent
  <2>2. ASSUME Next, ~ \E a \in Agent : StopAgent(a) PROVE stopping' \subseteq stopping
    <3>1. CASE \/ \E s \in Scanner : Scan(s) \/ GatherResults(s)
               \/ \E a \in Agent : UserStart(a)
               \/ \E f \in flights : Claim(f) \/ Refuse(f)
      BY <3>1 DEF Scan, GatherResults, UserStart, Claim, Refuse
    <3>2. CASE \/ \E r \in DOMAIN runs : \/ TurnStarted(r) \/ EndedLocked(r)
                                         \/ EndedInvalid(r) \/ Exit(r)
               \/ \E r \in DOMAIN runs, o \in Outcome :
                    Ended(r, o) \/ FinalizeRetry(r, o) \/ Report(r, o)
      BY <3>2 DEF TurnStarted, EndedLocked, EndedInvalid, Exit, Ended, FinalizeRetry, Report
    <3>3. CASE \/ \E d \in decisions : Decide(d) \/ DropDecision(d)
               \/ \E s \in stopping : FinishStop(s)
               \/ \E t \in Task : CompleteTask(t)
               \/ Pause \/ Resume \/ Restart
      BY <3>3 DEF Decide, DropDecision, FinishStop, CompleteTask, Pause, Resume, Restart
    <3> QED
      BY <2>2, <3>1, <3>2, <3>3, NextCases, Zenon
  <2> QED
    BY <2>1, <2>2 DEF vars
<1> QED
  BY <1>1, <1>2, <1>3, <1>4 DEF StopsOwnRuns

\* Whatever callers, races, locks and restarts do, a path reservation and a
\* task shown as being worked on belong to a run whose end is not recorded yet
\* (NothingOutlivesItsRun of DispatchProperties).
THEOREM LocksAndWorkEndWithTheirRun == Spec => []NothingOutlivesItsRun
<1>1. Init => BackedInv
  <2>1. ASSUME Init PROVE Backed(board, runs) /\ StopsOwnRuns /\ ExclusiveRuns
    BY <2>1 DEF Init, InitialBoard, Backed, StopsOwnRuns, ExclusiveRuns
  <2> QED
    BY <2>1, InitType DEF BackedInv
<1>2. BackedInv /\ [Next]_vars => BackedInv'
  <2> SUFFICES ASSUME BackedInv, [Next]_vars PROVE BackedInv'
    OBVIOUS
  <2>1. TypeOK' /\ ExclusiveRuns'
    BY NextType, NextExclusive DEF BackedInv
  <2>2. Backed(board', runs') /\ StopsOwnRuns'
    BY <2>1, NextBacked, NextStopsOwnRuns
  <2> QED
    BY <2>1, <2>2 DEF BackedInv
<1>3. BackedInv => NothingOutlivesItsRun
  <2> SUFFICES ASSUME BackedInv PROVE NothingOutlivesItsRun
    OBVIOUS
  <2>1. Backed(board, runs)
    BY DEF BackedInv
  <2> QED
    BY <2>1 DEF Backed, NothingOutlivesItsRun, Owed
<1> QED
  BY <1>1, <1>2, <1>3, PTL DEF Spec

-----------------------------------------------------------------------------
(* Launches wait for dependencies *)

\* Every launch that a step starts finds the dependencies of its task done.
LEMMA NextLaunches ==
  ASSUME TypeOK, TypeOK', Next
  PROVE  \A f \in flights' \ flights : DependenciesMet(board', f.task)
<1> DEFINE Met == \A f \in flights' \ flights : DependenciesMet(board', f.task)
<1>1. board \in Board /\ runs \in Seq(Run) /\ runs' \in Seq(Run)
  BY DEF TypeOK
<1>2. ASSUME flights' \subseteq flights PROVE Met
  BY <1>2
<1>3. ASSUME NEW s \in Scanner, NEW b \in Board, Pass(s, b) PROVE Met
  <2>1. PICK o \in PassOutcomes(s, b) : board' = o.board /\ flights' = o.flights
    BY <1>3, Zenon DEF Pass
  <2>2. \A f \in o.flights \ flights : DependenciesMet(o.board, f.task)
    BY <1>1, PassLaunchesModest
  <2> QED
    BY <2>1, <2>2
<1>4. ASSUME NEW s \in Scanner, Scan(s) PROVE Met
  BY <1>1, <1>3, <1>4 DEF Scan
<1>5. ASSUME NEW s \in Scanner, GatherResults(s) PROVE Met
  <2>1. HandleRefusals(board, s) \in Board
    BY <1>1, HandleRefusalsType
  <2>2. flights' \subseteq flights \/ Pass(s, HandleRefusals(board, s))
    BY <1>5, Zenon DEF GatherResults
  <2> QED
    BY <1>2, <1>3, <2>1, <2>2
<1>6. ASSUME NEW a \in Agent, UserStart(a) PROVE Met
  <2>1. CASE \E t \in Candidates(board, runs, a, {}) :
               /\ flights' = flights \cup {[agent |-> a, task |-> t, by |-> "user"]}
               /\ UNCHANGED board
    <3>1. PICK t \in Candidates(board, runs, a, {}) :
            /\ flights' = flights \cup {[agent |-> a, task |-> t, by |-> "user"]}
            /\ UNCHANGED board
      BY <2>1
    <3>2. DependenciesMet(board, t)
      BY <3>1, Zenon DEF Candidates, Considered
    <3>3. board' = board
      BY <3>1
    <3>4. DependenciesMet(board', t)
      BY <3>2, <3>3
    <3>5. \A f \in flights' \ flights : f.task = t
      BY <3>1
    <3> QED
      BY <3>4, <3>5
  <2>2. CASE UNCHANGED flights
    BY <1>2, <2>2
  <2> QED
    BY <1>6, <2>1, <2>2, Zenon DEF UserStart
<1>7. ASSUME NEW b \in Board, NEW rs \in Seq(Run), NEW r \in DOMAIN rs, NEW overruled,
             NEW d \in Decided(b, rs, r, overruled), Handled(d, rs)
      PROVE  Met
  <2>1. \A f \in d.launch : DependenciesMet(d.board, f.task)
    BY DecidedModest DEF Modest
  <2>2. flights' = flights \cup d.launch /\ (d.launch # {} => board' = d.board)
    BY <1>7 DEF Handled
  <2> QED
    BY <2>1, <2>2
<1>8. ASSUME NEW r \in DOMAIN runs, NEW o \in Outcome,
             Ended(r, o) \/ FinalizeRetry(r, o) \/ Report(r, o)
      PROVE  Met
  <2> DEFINE rs == runs'
             b == Ingested(board, r, o)
             overruled == o = "done" /\ WorkRemains(b, rs)
  <2>1. Record(r, o) /\ Finish(r, TRUE)
    BY <1>8 DEF Ended, FinalizeRetry, Report, Record
  <2>2. \/ flights' = flights
        \/ \E d \in Decided(b, rs, r, overruled) : Handled(d, rs)
    BY <2>1, Zenon DEF Record
  <2>3. b \in Board /\ rs \in Seq(Run) /\ r \in DOMAIN rs
    BY <1>1, <2>1, IngestedType, FinishType
  <2> HIDE DEF b, rs, overruled
  <2> QED
    BY <1>2, <1>7, <2>2, <2>3
<1>9. ASSUME NEW d \in decisions, Decide(d) PROVE Met
  <2>1. PICK e \in Decided(board, runs, d.run, d.overruled) : Handled(e, runs)
    BY <1>9, Zenon DEF Decide
  <2>2. d.run \in DOMAIN runs
    BY DEF TypeOK
  <2> QED
    BY <1>1, <1>7, <2>1, <2>2
<1>10. ASSUME \/ \E a \in Agent : StopAgent(a)
              \/ \E f \in flights : Claim(f) \/ Refuse(f)
              \/ \E r \in DOMAIN runs : \/ TurnStarted(r) \/ EndedLocked(r)
                                        \/ EndedInvalid(r) \/ Exit(r)
              \/ \E d \in decisions : DropDecision(d)
              \/ \E s \in stopping : FinishStop(s)
              \/ \E t \in Task : CompleteTask(t)
              \/ Pause
              \/ Resume
              \/ Restart
       PROVE  flights' \subseteq flights
  BY <1>10 DEF StopAgent, Claim, Refuse, TurnStarted, EndedLocked, EndedInvalid, Exit,
     DropDecision, FinishStop, CompleteTask, Pause, Resume, Restart
<1> HIDE DEF Met
<1>11. Met
  BY <1>2, <1>4, <1>5, <1>6, <1>8, <1>9, <1>10, NextCases, Zenon
<1> QED
  BY <1>11 DEF Met

\* Whoever launches a task finds its dependencies done, also after the repairs
\* the launch makes (LaunchedAfterDependencies of DispatchProperties).
THEOREM LaunchesWaitForDependencies == Spec => LaunchedAfterDependencies
<1> DEFINE Met == \A f \in flights' \ flights : DependenciesMet(board', f.task)
<1>1. TypeOK /\ TypeOK' /\ [Next]_vars => [Met]_vars
  BY NextLaunches
<1> QED
  BY <1>1, TypeCorrect, PTL DEF Spec, LaunchedAfterDependencies

-----------------------------------------------------------------------------
(* Board and run table agree.  Without dependencies, without stops, late   *)
(* answers and locks, and unless clients report runs that others end, the  *)
(* tasks shown as being worked on and the reservations are exactly those   *)
(* of the unfinished runs, and a pass respects them.                       *)

Settled(b, rs) ==
  /\ \A t \in Task : b.task[t].status = "working" <=> TaskHasRun(rs, t)
  /\ b.reserved = Working(rs)

\* The rows from b to c change only for tasks that are not running.
LEMMA SettledStays ==
  ASSUME NEW b, NEW c, NEW rs, Settled(b, rs), c.reserved = b.reserved,
         \A t \in Task : IF TaskHasRun(rs, t) THEN c.task[t].status = b.task[t].status
                         ELSE c.task[t].status # "working"
  PROVE  Settled(c, rs)
BY DEF Settled

\* A reservation on a settled board belongs to a worker and a task with a run.
LEMMA ReservedRuns ==
  ASSUME NEW b, NEW rs, Settled(b, rs), NEW p \in b.reserved
  PROVE  AgentHasRun(rs, p[1]) /\ TaskHasRun(rs, p[2])
<1>1. PICK r \in DOMAIN rs : Unfinished(rs[r]) /\ p = <<rs[r].agent, rs[r].task>>
  BY DEF Settled, Working
<1>2. r \in RunsOfAgent(rs, p[1]) /\ r \in RunsOfTask(rs, p[2])
  BY <1>1 DEF RunsOfAgent, RunsOfTask
<1> QED
  BY <1>2 DEF AgentHasRun, TaskHasRun

\* Writing worker rows leaves a board settled.
LEMMA SetAgentSettled ==
  ASSUME NEW b \in Board, NEW rs, Settled(b, rs), NEW a, NEW status, NEW task
  PROVE  Settled(SetAgent(b, a, status, task), rs)
<1>1. SetAgent(b, a, status, task).task = b.task
      /\ SetAgent(b, a, status, task).reserved = b.reserved
  BY DEF SetAgent, Board
<1> QED
  BY <1>1 DEF Settled

\* So does writing the row of a task that is not running.
LEMMA SetTaskSettled ==
  ASSUME NEW b \in Board, NEW rs, Settled(b, rs), NEW t \in Task, ~TaskHasRun(rs, t),
         NEW status, status # "working", NEW agent, NEW reason
  PROVE  Settled(SetTask(b, t, status, agent, reason), rs)
<1> DEFINE c == SetTask(b, t, status, agent, reason)
<1>1. /\ c.reserved = b.reserved
      /\ c.task[t].status = status
      /\ \A u \in Task \ {t} : c.task[u] = b.task[u]
  BY SetTaskFields
<1> HIDE DEF c
<1>2. Settled(c, rs)
  BY <1>1 DEF Settled
<1> QED
  BY <1>2 DEF c

\* So does releasing the paths of a task that is not running.
LEMMA ReleaseSettled ==
  ASSUME NEW b \in Board, NEW rs, Settled(b, rs), NEW t \in Task, ~TaskHasRun(rs, t),
         NEW a
  PROVE  Settled(Release(b, t, a), rs)
<1> DEFINE c == Release(b, t, a)
<1>1. c.task = b.task
      /\ c.reserved = {p \in b.reserved : ~ (a \in {None, p[1]} /\ t \in {None, p[2]})}
  BY DEF Release, Board
<1>2. \A p \in b.reserved : t \notin {None, p[2]}
  BY ReservedRuns, RowsAssumption
<1>3. c.reserved = b.reserved
  BY <1>1, <1>2
<1> QED
  BY <1>1, <1>3, SettledStays DEF Settled

-----------------------------------------------------------------------------
(* The repairs find nothing to repair on a settled board *)

\* The first repair leaves a board settled.
LEMMA ReleaseOrphanedReservationsSettled ==
  ASSUME NEW b \in Board, NEW rs, Settled(b, rs)
  PROVE  Settled(ReleaseOrphanedReservations(b, rs), rs)
<1> DEFINE orphans == {a \in Agent : OrphanedLockHolder(b, rs, a)}
           c == ReleaseOrphanedReservations(b, rs)
<1>1. c.task = b.task /\ c.reserved = {p \in b.reserved : p[1] \notin orphans}
  BY DEF ReleaseOrphanedReservations, Board
<1>2. \A p \in b.reserved : p[1] \notin orphans
  BY ReservedRuns DEF OrphanedLockHolder
<1>3. c.reserved = b.reserved
  BY <1>1, <1>2
<1> QED
  BY <1>1, <1>3 DEF Settled

\* The second leaves it settled and marks every worker with a run as busy.
LEMMA RestoreRunningTasksSettled ==
  ASSUME NEW b \in Board, NEW rs \in Seq(Run), Settled(b, rs),
         \A r, q \in DOMAIN rs : Unfinished(rs[r]) /\ Unfinished(rs[q])
                                 /\ rs[r].task = rs[q].task => r = q
  PROVE  /\ Settled(RestoreRunningTasks(b, rs), rs)
         /\ \A a \in Agent : AgentHasRun(rs, a)
              => RestoreRunningTasks(b, rs).agent[a].status \in Busy
<1> DEFINE running == {t \in Task : TaskHasRun(rs, t)}
           work(a) == {t \in running : LatestRun(rs, t).agent = a}
           row(t) == IF t \in running
                     THEN [b.task[t] EXCEPT !.status = "working", !.reason = "none",
                                            !.agent = LatestRun(rs, t).agent]
                     ELSE b.task[t]
           agents == [a \in Agent |->
             IF work(a) # {}
             THEN [task   |-> First(work(a)),
                   status |-> IF b.agent[a].status \in Busy
                              THEN b.agent[a].status ELSE "working"]
             ELSE b.agent[a]]
           c == RestoreRunningTasks(b, rs)
<1>1. c = [b EXCEPT !.task = [t \in Task |-> row(t)], !.agent = agents]
  BY Zenon DEF RestoreRunningTasks
<1>2. \A t \in Task : IF TaskHasRun(rs, t) THEN row(t).status = "working"
                      ELSE row(t) = b.task[t]
  <2> SUFFICES ASSUME NEW t \in Task
               PROVE  IF TaskHasRun(rs, t) THEN row(t).status = "working"
                      ELSE row(t) = b.task[t]
    OBVIOUS
  <2>1. b.task[t] \in TaskRow
    BY DEF Board
  <2> QED
    BY <2>1 DEF TaskRow
<1>3. ASSUME NEW a \in Agent, AgentHasRun(rs, a) PROVE agents[a].status \in Busy
  <2>1. PICK r \in DOMAIN rs : rs[r].agent = a /\ Unfinished(rs[r])
    BY <1>3 DEF AgentHasRun, RunsOfAgent
  <2> DEFINE t == rs[r].task
  <2>2. rs[r] \in Run
    OBVIOUS
  <2>3. t \in Task
    BY <2>2 DEF Run
  <2>4. r \in RunsOfTask(rs, t)
    BY <2>1 DEF RunsOfTask
  <2>5. TaskHasRun(rs, t)
    BY <2>4 DEF TaskHasRun
  <2>6. LatestRunId(rs, t) \in RunsOfTask(rs, t)
    BY <2>3, <2>5, LatestRunIsRow
  <2>7. LatestRun(rs, t).agent = a
    BY <2>1, <2>6 DEF RunsOfTask, LatestRun
  <2>8. work(a) # {}
    BY <2>3, <2>5, <2>7
  <2> HIDE DEF work
  <2> QED
    BY <2>8 DEF Busy
<1> HIDE DEF row, agents, c
<1>4. c.reserved = b.reserved /\ c.task = [t \in Task |-> row(t)] /\ c.agent = agents
  BY <1>1 DEF Board
<1>5. Settled(c, rs)
  BY <1>2, <1>4 DEF Settled
<1> QED
  BY <1>3, <1>4, <1>5 DEF c

\* The third finds no orphan.
LEMMA RequeueOrphanedTasksSettled ==
  ASSUME NEW flushed, NEW b \in Board, NEW rs, Settled(flushed, rs), Settled(b, rs)
  PROVE  /\ Settled(RequeueOrphanedTasks(flushed, b, rs), rs)
         /\ \A a \in Agent : RequeueOrphanedTasks(flushed, b, rs).agent[a].status
                               = b.agent[a].status
<1>1. OrphanedTasks(flushed, rs) = {}
  BY DEF OrphanedTasks, Settled
<1> DEFINE c == RequeueOrphanedTasks(flushed, b, rs)
<1>2. c.reserved = b.reserved
  BY <1>1 DEF RequeueOrphanedTasks, OrphanReservations
<1>3. \A t \in Task : c.task[t] = b.task[t]
  BY <1>1 DEF RequeueOrphanedTasks
<1>4. \A a \in Agent : c.agent[a].status = b.agent[a].status
  BY <1>1 DEF RequeueOrphanedTasks
<1> HIDE DEF c
<1>5. Settled(c, rs)
  BY <1>2, <1>3 DEF Settled
<1> QED
  BY <1>4, <1>5 DEF c

\* The fourth writes only tasks that are not running.
LEMMA UnassignIneligibleSettled ==
  ASSUME NEW flushed, NEW b \in Board, NEW rs, Settled(flushed, rs), Settled(b, rs)
  PROVE  /\ Settled(UnassignIneligible(flushed, b, rs), rs)
         /\ UnassignIneligible(flushed, b, rs).agent = b.agent
<1> DEFINE startable == {t \in Task : flushed.task[t].status \in Startable}
           ownerless == {t \in startable : b.task[t].agent = None
                                           /\ b.task[t].status = "assigned"}
           misowned  == {t \in startable : b.task[t].agent # None
                                           /\ ~AssigneeAvailable(b, rs, t)}
           kept == {p \in b.reserved :
                      ~ (p[2] \in misowned /\ p[1] = b.task[p[2]].agent)}
           taken == ownerless \cup misowned
           row(t) == IF t \in taken
                     THEN [agent    |-> None,
                           status   |-> IF b.task[t].status = "assigned" THEN "backlog"
                                        ELSE b.task[t].status,
                           reason   |-> "other",
                           failures |-> b.task[t].failures]
                     ELSE b.task[t]
           c == UnassignIneligible(flushed, b, rs)
<1>1. c = [b EXCEPT !.reserved = kept, !.task = [t \in Task |-> row(t)]]
  BY Zenon DEF UnassignIneligible
<1>2. \A t \in startable : ~TaskHasRun(rs, t)
  BY DEF Settled, Startable
<1>3. kept = b.reserved
  <2>1. \A p \in b.reserved : p[2] \notin misowned
    BY <1>2, ReservedRuns
  <2> HIDE DEF misowned
  <2> QED
    BY <2>1
<1>4. taken \subseteq startable
  OBVIOUS
<1> HIDE DEF startable, taken, kept
<1>5. \A t \in Task : IF TaskHasRun(rs, t) THEN row(t).status = b.task[t].status
                      ELSE row(t).status # "working"
  BY <1>2, <1>4 DEF Settled
<1> HIDE DEF row, c
<1>6. c.reserved = b.reserved /\ c.task = [t \in Task |-> row(t)] /\ c.agent = b.agent
  BY <1>1, <1>3 DEF Board
<1>7. Settled(c, rs)
  BY <1>5, <1>6, SettledStays
<1> QED
  BY <1>6, <1>7 DEF c

\* So does the fifth.
LEMMA RequeueStaleBlockedSettled ==
  ASSUME NEW b \in Board, NEW rs, Settled(b, rs)
  PROVE  /\ Settled(RequeueStaleBlocked(b, rs), rs)
         /\ RequeueStaleBlocked(b, rs).agent = b.agent
<1> DEFINE stale == {t \in Task : StaleBlocked(b, rs, t)}
           kept == {p \in b.reserved : ~ (p[2] \in stale
                                          /\ b.task[p[2]].agent \in {None, p[1]})}
           row(t) == IF t \in stale
                     THEN [b.task[t] EXCEPT !.status = "backlog", !.agent = None,
                                            !.reason = "stale"]
                     ELSE b.task[t]
           c == RequeueStaleBlocked(b, rs)
<1>1. c = [b EXCEPT !.reserved = kept, !.task = [t \in Task |-> row(t)]]
  BY Zenon DEF RequeueStaleBlocked
<1>2. \A t \in stale : ~TaskHasRun(rs, t)
  BY DEF StaleBlocked
<1> HIDE DEF stale
<1>3. kept = b.reserved
  <2>1. \A p \in b.reserved : p[2] \notin stale
    BY <1>2, ReservedRuns
  <2> QED
    BY <2>1
<1>4. \A t \in Task : IF TaskHasRun(rs, t) THEN row(t).status = b.task[t].status
                      ELSE row(t).status # "working"
  BY <1>2 DEF Settled, Board, TaskRow
<1> HIDE DEF row, kept, c
<1>5. c.reserved = b.reserved /\ c.task = [t \in Task |-> row(t)] /\ c.agent = b.agent
  BY <1>1, <1>3 DEF Board
<1>6. Settled(c, rs)
  BY <1>4, <1>5, SettledStays
<1> QED
  BY <1>5, <1>6 DEF c

\* Without dependencies the last one only frees blocked tasks.
LEMMA PropagateBlockedDependenciesSettled ==
  ASSUME NEW b \in Board, NEW rs, Settled(b, rs), \A t \in Task : Deps[t] = {}
  PROVE  /\ Settled(PropagateBlockedDependencies(b, rs), rs)
         /\ \A a \in Agent : PropagateBlockedDependencies(b, rs).agent[a].status
                               = b.agent[a].status
<1> DEFINE stuck == {t \in Task : BlockedByDependency(b, rs, t)}
           freed == {t \in Task \ stuck : b.task[t].status = "blocked"
                                          /\ b.task[t].reason = "blocked_dependency"}
           owned(a) == {t \in stuck : b.task[t].agent = a}
           agent(a) ==
             [task   |-> IF b.agent[a].task \in owned(a) THEN None ELSE b.agent[a].task,
              status |-> IF owned(a) # {} /\ b.agent[a].status \notin {"done", "stopped"}
                         THEN "waiting" ELSE b.agent[a].status]
           row(t) == IF t \in stuck
                     THEN [b.task[t] EXCEPT !.status = "blocked", !.agent = None,
                                            !.reason = "blocked_dependency"]
                     ELSE IF t \in freed
                     THEN [b.task[t] EXCEPT !.status = "backlog", !.reason = "none"]
                     ELSE b.task[t]
           kept == {p \in b.reserved :
                      ~ (p[2] \in stuck /\ b.task[p[2]].agent \in {None, p[1]})}
           c == PropagateBlockedDependencies(b, rs)
<1>1. c = [agent |-> [a \in Agent |-> agent(a)], task |-> [t \in Task |-> row(t)],
           reserved |-> kept]
  BY Zenon DEF PropagateBlockedDependencies
<1>2. stuck = {}
  BY DEF BlockedByDependency
<1>3. \A t \in freed : b.task[t].status = "blocked"
  OBVIOUS
<1> HIDE DEF stuck, freed
<1>4. kept = b.reserved
  BY <1>2
<1>5. \A a \in Agent : agent(a).status = b.agent[a].status
  BY <1>2
<1>6. \A t \in Task : IF TaskHasRun(rs, t) THEN row(t).status = b.task[t].status
                      ELSE row(t).status # "working"
  <2> SUFFICES ASSUME NEW t \in Task
               PROVE  IF TaskHasRun(rs, t) THEN row(t).status = b.task[t].status
                      ELSE row(t).status # "working"
    OBVIOUS
  <2>1. b.task[t] \in TaskRow
    BY DEF Board
  <2>2. b.task[t].status = "working" <=> TaskHasRun(rs, t)
    BY DEF Settled
  <2>3. t \in freed => row(t).status = "backlog" /\ ~TaskHasRun(rs, t)
    BY <1>2, <1>3, <2>1, <2>2 DEF TaskRow
  <2>4. t \notin freed => row(t) = b.task[t]
    BY <1>2
  <2> QED
    BY <2>2, <2>3, <2>4
<1> HIDE DEF agent, row, kept, c
<1>7. Settled(c, rs)
  BY <1>1, <1>4, <1>6, SettledStays
<1> QED
  BY <1>1, <1>5, <1>7 DEF c

\* All repairs leave a settled board settled and its runners busy.
LEMMA ReconcileSettled ==
  ASSUME NEW b \in Board, NEW rs \in Seq(Run), Settled(b, rs),
         \A t \in Task : Deps[t] = {},
         \A r, q \in DOMAIN rs : Unfinished(rs[r]) /\ Unfinished(rs[q])
                                 /\ rs[r].task = rs[q].task => r = q
  PROVE  /\ Settled(Reconcile(b, rs), rs)
         /\ \A a \in Agent : AgentHasRun(rs, a) => Reconcile(b, rs).agent[a].status \in Busy
<1> DEFINE b1 == ReleaseOrphanedReservations(b, rs)
           b2 == RestoreRunningTasks(b1, rs)
           b3 == RequeueOrphanedTasks(b1, b2, rs)
           flushed == IF OrphanReservations(b1, b2, rs) # {} THEN b3 ELSE b1
           b4 == UnassignIneligible(flushed, b3, rs)
           b5 == RequeueStaleBlocked(b4, rs)
           b6 == PropagateBlockedDependencies(b5, rs)
<1>1. Reconcile(b, rs) = b6
  BY Zenon DEF Reconcile
<1>2. b1 \in Board /\ Settled(b1, rs)
  BY ReleaseOrphanedReservationsType, ReleaseOrphanedReservationsSettled
<1> HIDE DEF b1
<1>3. /\ b2 \in Board /\ Settled(b2, rs)
      /\ \A a \in Agent : AgentHasRun(rs, a) => b2.agent[a].status \in Busy
  BY <1>2, RestoreRunningTasksType, RestoreRunningTasksSettled
<1> HIDE DEF b2
<1>4. /\ b3 \in Board /\ Settled(b3, rs)
      /\ \A a \in Agent : b3.agent[a].status = b2.agent[a].status
  BY <1>2, <1>3, RequeueOrphanedTasksType, RequeueOrphanedTasksSettled
<1> HIDE DEF b3
<1>5. Settled(flushed, rs)
  BY <1>2, <1>4
<1> HIDE DEF flushed
<1>6. b4 \in Board /\ Settled(b4, rs) /\ b4.agent = b3.agent
  BY <1>4, <1>5, UnassignIneligibleType, UnassignIneligibleSettled
<1> HIDE DEF b4
<1>7. b5 \in Board /\ Settled(b5, rs) /\ b5.agent = b4.agent
  BY <1>6, RequeueStaleBlockedType, RequeueStaleBlockedSettled
<1> HIDE DEF b5
<1>8. Settled(b6, rs) /\ \A a \in Agent : b6.agent[a].status = b5.agent[a].status
  BY <1>7, PropagateBlockedDependenciesSettled
<1> HIDE DEF b6
<1> QED
  BY <1>1, <1>3, <1>4, <1>6, <1>7, <1>8

-----------------------------------------------------------------------------
(* Passes and refusals write only tasks that are not running *)

\* Parking startable tasks leaves a board settled.
LEMMA WaitOnPathsSettled ==
  ASSUME NEW b \in Board, NEW rs, Settled(b, rs), NEW T,
         \A t \in T : b.task[t].status \in Startable
  PROVE  Settled(WaitOnPaths(b, T), rs)
<1> DEFINE row(t) == IF t \in T THEN [b.task[t] EXCEPT !.status = "waiting_on_paths",
                                                      !.reason = "other"]
                     ELSE b.task[t]
           c == WaitOnPaths(b, T)
<1>1. c.reserved = b.reserved /\ c.task = [t \in Task |-> row(t)]
  BY DEF WaitOnPaths, Board
<1>2. \A t \in Task : t \in T => ~TaskHasRun(rs, t)
  BY DEF Settled, Startable
<1>3. \A t \in Task : IF TaskHasRun(rs, t) THEN row(t).status = b.task[t].status
                      ELSE row(t).status # "working"
  BY <1>2 DEF Settled, Board, TaskRow
<1> HIDE DEF row, c
<1>4. Settled(c, rs)
  BY <1>1, <1>3, SettledStays
<1> QED
  BY <1>4 DEF c

\* So does gating them by their dependencies.
LEMMA GateTasksSettled ==
  ASSUME NEW b \in Board, NEW rs, Settled(b, rs)
  PROVE  Settled(GateTasks(b), rs) /\ GateTasks(b).agent = b.agent
<1> DEFINE row(t) == IF b.task[t].status \notin Startable THEN b.task[t]
                     ELSE IF ~DependenciesMet(b, t)
                     THEN [b.task[t] EXCEPT !.reason = "unmet_dependency",
                                            !.status = IF b.task[t].agent = None THEN "backlog"
                                                       ELSE b.task[t].status]
                     ELSE IF b.task[t].reason = "unmet_dependency"
                     THEN [b.task[t] EXCEPT !.reason = "none"]
                     ELSE b.task[t]
           c == GateTasks(b)
<1>1. c = [b EXCEPT !.task = [t \in Task |-> row(t)]]
  BY Zenon DEF GateTasks
<1>2. \A t \in Task : IF TaskHasRun(rs, t) THEN row(t).status = b.task[t].status
                      ELSE row(t).status # "working"
  <2> SUFFICES ASSUME NEW t \in Task
               PROVE  IF TaskHasRun(rs, t) THEN row(t).status = b.task[t].status
                      ELSE row(t).status # "working"
    OBVIOUS
  <2>1. b.task[t] \in TaskRow /\ (b.task[t].status = "working" <=> TaskHasRun(rs, t))
    BY DEF Board, Settled
  <2>2. row(t).status \in {"backlog", b.task[t].status}
    BY <2>1 DEF TaskRow
  <2>3. b.task[t].status \notin Startable => row(t) = b.task[t]
    OBVIOUS
  <2> HIDE DEF row
  <2> QED
    BY <2>1, <2>2, <2>3 DEF Startable
<1> HIDE DEF row, c
<1>3. c.reserved = b.reserved /\ c.task = [t \in Task |-> row(t)] /\ c.agent = b.agent
  BY <1>1 DEF Board
<1>4. Settled(c, rs)
  BY <1>2, <1>3, SettledStays
<1> QED
  BY <1>3, <1>4 DEF c

\* So does a pass.
LEMMA PassOutcomesSettled ==
  ASSUME NEW s \in Scanner, NEW b \in Board, runs \in Seq(Run), Settled(b, runs),
         \A t \in Task : Deps[t] = {},
         \A r, q \in DOMAIN runs : Unfinished(runs[r]) /\ Unfinished(runs[q])
                                   /\ runs[r].task = runs[q].task => r = q,
         NEW o \in PassOutcomes(s, b)
  PROVE  Settled(o.board, runs)
<1> DEFINE r == Reconcile(b, runs)
           g == GateTasks(r)
<1>1. r \in Board /\ Settled(r, runs)
  BY ReconcileType, ReconcileSettled
<1>2. CASE GuardBlocks
  <2>1. o = [board |-> GuardedOff(r), flights |-> flights]
    BY <1>2, Zenon DEF PassOutcomes
  <2> HIDE DEF r
  <2>2. GuardedOff(r).task = r.task /\ GuardedOff(r).reserved = r.reserved
    BY <1>1 DEF GuardedOff, Board
  <2>3. Settled(GuardedOff(r), runs)
    BY <1>1, <2>2 DEF Settled
  <2> QED
    BY <2>1, <2>3
<1>3. CASE ~GuardBlocks
  <2>1. PICK plan \in Plans(g) :
          o = [board |-> MarkWaiting(g, plan), flights |-> flights \cup Planned(plan, s)]
    BY <1>3, Zenon DEF PassOutcomes
  <2> HIDE DEF r
  <2>2. g \in Board /\ Settled(g, runs)
    BY <1>1, GateTasksType, GateTasksSettled
  <2> HIDE DEF g
  <2>3. PICK T : /\ MarkWaiting(g, plan).task = WaitOnPaths(g, T).task
                 /\ MarkWaiting(g, plan).reserved = g.reserved
                 /\ \A t \in T : g.task[t].status \in Startable
    BY <2>2, MarkWaitingParks, Zenon
  <2>4. Settled(WaitOnPaths(g, T), runs)
    BY <2>2, <2>3, WaitOnPathsSettled
  <2>5. Settled(MarkWaiting(g, plan), runs)
    BY <2>2, <2>3, <2>4 DEF Settled
  <2> QED
    BY <2>1, <2>5
<1> QED
  BY <1>2, <1>3

\* So does putting a refused launch back.
LEMMA DeferLaunchSettled ==
  ASSUME NEW b \in Board, NEW rs, Settled(b, rs), NEW f \in Flight
  PROVE  Settled(DeferLaunch(b, rs, f), rs)
<1> DEFINE b1 == IF TaskHasRun(rs, f.task) THEN b
                 ELSE SetTask(b, f.task, "backlog", None, "other")
<1>1. f.task \in Task
  BY DEF Flight
<1>2. b1 \in Board /\ Settled(b1, rs)
  <2>1. ~TaskHasRun(rs, f.task) => /\ SetTask(b, f.task, "backlog", None, "other") \in Board
                                   /\ Settled(SetTask(b, f.task, "backlog", None, "other"), rs)
    BY <1>1, SetTaskType, SetTaskSettled, Words
  <2> QED
    BY <2>1
<1>3. \/ DeferLaunch(b, rs, f) = b1
      \/ DeferLaunch(b, rs, f) = SetAgent(b1, f.agent, "waiting", None)
  BY Zenon DEF DeferLaunch
<1> HIDE DEF b1
<1>4. Settled(SetAgent(b1, f.agent, "waiting", None), rs)
  BY <1>2, SetAgentSettled
<1> QED
  BY <1>2, <1>3, <1>4

-----------------------------------------------------------------------------
(* So do decisions about a task that is not running *)

\* An immediate launch leaves the board it found, or takes it back.
LEMMA ImmediatelySettled ==
  ASSUME NEW b \in Board, NEW undone, NEW rs, Settled(b, rs), Settled(undone, rs),
         NEW c \in Agent, NEW t \in Task, NEW e \in Immediately(b, undone, rs, c, t)
  PROVE  Settled(e.board, rs)
<1> DEFINE f == [agent |-> c, task |-> t, by |-> "decision"]
<1>1. f \in Flight
  BY DEF Flight
<1> HIDE DEF f
<1>2. Settled(DeferLaunch(b, rs, f), rs)
  BY <1>1, DeferLaunchSettled
<1>3. \/ e \in Quietly(b)
      \/ e \in Quietly(DeferLaunch(b, rs, f))
      \/ e \in Quietly(undone)
      \/ e = [board |-> b, launch |-> {f}]
  BY Zenon DEF Immediately, f
<1>4. e.board \in {b, DeferLaunch(b, rs, f), undone}
  BY <1>3 DEF Quietly
<1> QED
  BY <1>2, <1>4

\* assign_next_task writes a task that can be started.
LEMMA AssignNextSettled ==
  ASSUME NEW b \in Board, NEW rs, Settled(b, rs), NEW a \in Agent,
         NEW e \in AssignNext(b, rs, a)
  PROVE  Settled(e.board, rs)
<1> DEFINE b1(t) == Revived(b, rs, t)
           own(t) == IF <<a, t>> \in Matches THEN {a} ELSE {}
           named(t) == Assignable(b1(t), rs, t)
           assignee(t, n) == IF n \in named(t) THEN {n} ELSE own(t) \cap named(t)
           chosen(t, n) == CHOOSE c \in assignee(t, n) : TRUE
           assigned(t, n) == SetTask(b1(t), t, "assigned", chosen(t, n), b1(t).task[t].reason)
<1>1. PICK t \in Task :
        e \in IF b1(t).task[t].status \notin Startable \/ TaskHasRun(rs, t)
              THEN Quietly(b1(t))
              ELSE UNION {IF assignee(t, n) = {} THEN Quietly(b1(t))
                          ELSE Immediately(assigned(t, n), b, rs, chosen(t, n), t)
                          : n \in Agent \cup {None}}
  BY Zenon DEF AssignNext
<1>2. b1(t) \in Board
  BY RevivedType
<1>3. Settled(b1(t), rs)
  <2>1. ~TaskHasRun(rs, t) => Settled(SetTask(b, t, "backlog", b.task[t].agent, "none"), rs)
    BY SetTaskSettled
  <2> QED
    BY <2>1, Zenon DEF Revived
<1>4. \A n : assignee(t, n) # {} => chosen(t, n) \in Agent
  <2>1. \A n : assignee(t, n) \subseteq Agent
    BY DEF Assignable
  <2> HIDE DEF assignee
  <2> QED
    BY <2>1
<1> HIDE DEF assignee, chosen, b1
<1>5. ASSUME NEW n, assignee(t, n) # {}, ~TaskHasRun(rs, t),
             e \in Immediately(assigned(t, n), b, rs, chosen(t, n), t)
      PROVE  Settled(e.board, rs)
  <2>1. chosen(t, n) \in Agent
    BY <1>4, <1>5
  <2>2. b1(t).task[t].reason \in Reason
    BY <1>2 DEF Board, TaskRow
  <2>3. assigned(t, n) \in Board
    BY <1>2, <2>1, <2>2, SetTaskType DEF TaskStatus, Startable
  <2>4. Settled(assigned(t, n), rs)
    BY <1>2, <1>3, <1>5, SetTaskSettled
  <2> HIDE DEF assigned
  <2> QED
    BY <1>5, <2>1, <2>3, <2>4, ImmediatelySettled
<1>6. CASE e \in Quietly(b1(t))
  BY <1>3, <1>6 DEF Quietly
<1>7. CASE ~TaskHasRun(rs, t) /\ \E n : /\ assignee(t, n) # {}
                  /\ e \in Immediately(assigned(t, n), b, rs, chosen(t, n), t)
  BY <1>5, <1>7
<1> QED
  BY <1>1, <1>6, <1>7, Zenon

\* So does a fix of a task that is not running.
LEMMA RequestFixSettled ==
  ASSUME NEW b \in Board, NEW rs, Settled(b, rs), NEW a \in Agent, NEW t \in Task,
         ~TaskHasRun(rs, t), NEW e \in RequestFix(b, rs, a, t)
  PROVE  Settled(e.board, rs)
<1> DEFINE c == IF b.task[t].agent = None THEN a ELSE b.task[t].agent
           b1 == SetTask(b, t, "assigned", b.task[t].agent, "other")
           b2 == SetTask(b, t, "blocked", b.task[t].agent, b.task[t].reason)
<1>1. b.task[t].agent \in Agent \cup {None}
  BY DEF Board, TaskRow
<1>2. c \in Agent
  BY <1>1
<1>3. b1 \in Board
  BY <1>1, SetTaskType DEF TaskStatus, Startable, Reason
<1>4. Settled(b1, rs) /\ Settled(b2, rs)
  BY SetTaskSettled
<1>5. e \in Immediately(b1, b, rs, c, t) \/ e \in Quietly(b2)
  BY Zenon DEF RequestFix
<1> HIDE DEF c, b1, b2
<1>6. CASE e \in Quietly(b2)
  BY <1>4, <1>6 DEF Quietly
<1>7. CASE e \in Immediately(b1, b, rs, c, t)
  BY <1>2, <1>3, <1>4, <1>7, ImmediatelySettled
<1> QED
  BY <1>5, <1>6, <1>7

\* So does an escalation.
LEMMA EscalateSettled ==
  ASSUME NEW b \in Board, NEW rs, Settled(b, rs), NEW a \in Agent, NEW t \in Task,
         ~TaskHasRun(rs, t), NEW e \in Escalate(b, a, t)
  PROVE  Settled(e.board, rs)
<1> DEFINE b1 == MarkAgent(b, a, "waiting")
           b2 == SetTask(b1, t, b.task[t].status, None, "other")
<1>1. b1 \in Board
  BY MarkAgentType DEF IdleLike
<1>2. Settled(b1, rs)
  BY SetAgentSettled DEF MarkAgent
<1>3. b.task[t].status \in TaskStatus /\ b.task[t].status # "working"
  BY DEF Board, TaskRow, Settled
<1> HIDE DEF b1
<1>4. b2 \in Board
  BY <1>1, <1>3, SetTaskType DEF Reason
<1>5. Settled(b2, rs)
  BY <1>1, <1>2, <1>3, SetTaskSettled
<1> HIDE DEF b2
<1>6. \A o : Settled(Release(b2, t, o), rs)
  BY <1>4, <1>5, ReleaseSettled
<1>7. e \in Quietly(b1) \/ e \in Quietly(b2) \/ \E o : e \in Quietly(Release(b2, t, o))
  BY Zenon DEF Escalate, b1, b2
<1>8. \A c : e \in Quietly(c) => e.board = c
  BY DEF Quietly
<1> QED
  BY <1>2, <1>5, <1>6, <1>7, <1>8, Zenon

\* Whatever the manager decides about a run that ended leaves a board settled.
LEMMA DecidedSettled ==
  ASSUME NEW b \in Board, NEW rs \in Seq(Run), Settled(b, rs), NEW r \in DOMAIN rs,
         ~TaskHasRun(rs, rs[r].task), NEW overruled, NEW e \in Decided(b, rs, r, overruled)
  PROVE  Settled(e.board, rs)
<1> DEFINE a == rs[r].agent
           t == rs[r].task
<1>1. a \in Agent /\ t \in Task /\ ~TaskHasRun(rs, t)
  <2>1. rs[r] \in Run
    OBVIOUS
  <2> QED
    BY <2>1 DEF Run
<1>2. \/ e \in AssignNext(b, rs, a)
      \/ e \in MarkTask(b, t, "done")
      \/ e \in MarkTask(b, t, "blocked")
      \/ e \in Quietly(MarkAgent(b, a, "done"))
      \/ e \in Quietly(MarkAgent(b, a, "waiting"))
      \/ e \in RequestFix(b, rs, a, t)
      \/ e \in Escalate(b, a, t)
  BY Zenon DEF Decided
<1> HIDE DEF a, t
<1>3. \A status : Settled(MarkAgent(b, a, status), rs)
  BY SetAgentSettled DEF MarkAgent
<1>4. \A status : status # "working" =>
        Settled(SetTask(b, t, status, b.task[t].agent, b.task[t].reason), rs)
  BY <1>1, SetTaskSettled
<1>5. CASE e \in MarkTask(b, t, "done") \/ e \in MarkTask(b, t, "blocked")
  BY <1>4, <1>5 DEF MarkTask, Quietly
<1>6. CASE e \in Quietly(MarkAgent(b, a, "done")) \/ e \in Quietly(MarkAgent(b, a, "waiting"))
  BY <1>3, <1>6 DEF Quietly
<1> QED
  BY <1>1, <1>2, <1>5, <1>6, AssignNextSettled, RequestFixSettled, EscalateSettled, Zenon

-----------------------------------------------------------------------------
(* The steps of the run table *)

\* From run table rs to ss the runs in R end, if they had not.
EndsRuns(rs, ss, R) ==
  /\ DOMAIN ss = DOMAIN rs
  /\ \A r \in DOMAIN rs : /\ ss[r].agent = rs[r].agent /\ ss[r].task = rs[r].task
                          /\ Unfinished(ss[r]) <=> Unfinished(rs[r]) /\ r \notin R

OneRunPerTask(rs) ==
  \A r, q \in DOMAIN rs : Unfinished(rs[r]) /\ Unfinished(rs[q])
                          /\ rs[r].task = rs[q].task => r = q

\* Taking exactly the pairs of the open runs that end back leaves a board settled.
LEMMA EndsSettled ==
  ASSUME NEW b, NEW c, NEW rs, NEW ss, NEW E, Settled(b, rs), OneRunPerTask(rs),
         EndsRuns(rs, ss, E), \A r \in E : r \in DOMAIN rs /\ Unfinished(rs[r]),
         c.reserved = b.reserved \ {<<rs[r].agent, rs[r].task>> : r \in E},
         \A u \in Task : IF \E r \in E : rs[r].task = u
                         THEN c.task[u].status # "working"
                         ELSE c.task[u].status = "working" <=> b.task[u].status = "working"
  PROVE  Settled(c, ss)
<1>1. c.reserved = Working(ss)
  <2>1. ASSUME NEW p \in c.reserved PROVE p \in Working(ss)
    <3>1. PICK q \in DOMAIN rs : Unfinished(rs[q]) /\ p = <<rs[q].agent, rs[q].task>>
      BY <2>1 DEF Settled, Working
    <3>2. q \notin E
      BY <2>1, <3>1
    <3> QED
      BY <3>1, <3>2 DEF EndsRuns, Working
  <2>2. ASSUME NEW p \in Working(ss) PROVE p \in c.reserved
    <3>1. PICK q \in DOMAIN ss : Unfinished(ss[q]) /\ p = <<ss[q].agent, ss[q].task>>
      BY <2>2 DEF Working
    <3>2. /\ q \in DOMAIN rs /\ Unfinished(rs[q]) /\ q \notin E
          /\ p = <<rs[q].agent, rs[q].task>>
      BY <3>1 DEF EndsRuns
    <3>3. p \in b.reserved
      BY <3>2 DEF Settled, Working
    <3>4. \A r \in E : rs[r].task # rs[q].task
      BY <3>2 DEF OneRunPerTask
    <3> QED
      BY <3>2, <3>3, <3>4
  <2> QED
    BY <2>1, <2>2
<1>2. ASSUME NEW u \in Task PROVE c.task[u].status = "working" <=> TaskHasRun(ss, u)
  <2>1. TaskHasRun(ss, u) <=> \E q \in DOMAIN rs : Unfinished(rs[q]) /\ q \notin E
                                                  /\ rs[q].task = u
    BY DEF TaskHasRun, RunsOfTask, EndsRuns
  <2>2. CASE \E r \in E : rs[r].task = u
    BY <2>1, <2>2 DEF OneRunPerTask
  <2>3. CASE ~ \E r \in E : rs[r].task = u
    <3>1. TaskHasRun(ss, u) <=> TaskHasRun(rs, u)
      BY <2>1, <2>3 DEF TaskHasRun, RunsOfTask
    <3> QED
      BY <2>3, <3>1 DEF Settled
  <2> QED
    BY <2>2, <2>3
<1> QED
  BY <1>1, <1>2 DEF Settled

\* When no run is left, nothing may be held.
LEMMA NothingSettled ==
  ASSUME NEW c, NEW ss, \A q \in DOMAIN ss : ~Unfinished(ss[q]), c.reserved = {},
         \A u \in Task : c.task[u].status # "working"
  PROVE  Settled(c, ss)
BY DEF Settled, Working, TaskHasRun, RunsOfTask

\* Finishing an open run ends it, and only it.
LEMMA FinishEnds ==
  ASSUME runs \in Seq(Run), NEW r \in DOMAIN runs, Finish(r, TRUE)
  PROVE  LET ss == runs' IN EndsRuns(runs, ss, {r})
<1> DEFINE row == [runs[r] EXCEPT !.status = "ended", !.finished = TRUE,
                                  !.reported = TRUE \/ @]
           ss == runs'
<1>1. runs' = [runs EXCEPT ![r] = row]
  BY DEF Finish
<1>2. /\ row.agent = runs[r].agent /\ row.task = runs[r].task
      /\ ~Unfinished(row)
  BY RowIsRun DEF Run, Unfinished
<1> HIDE DEF row
<1>3. EndsRuns(runs, ss, {r})
  BY <1>1, <1>2 DEF EndsRuns
<1> QED
  BY <1>3

\* So does finishing several.
LEMMA FinishAllEnds ==
  ASSUME runs \in Seq(Run), NEW R, FinishAll(R)
  PROVE  LET ss == runs' IN EndsRuns(runs, ss, R)
<1> DEFINE ss == runs'
<1>1. DOMAIN ss = DOMAIN runs
  BY FinishAllType
<1>2. ASSUME NEW r \in DOMAIN runs
      PROVE  /\ ss[r].agent = runs[r].agent /\ ss[r].task = runs[r].task
             /\ Unfinished(ss[r]) <=> Unfinished(runs[r]) /\ r \notin R
  <2>1. runs[r] \in Run
    BY RowIsRun
  <2>2. ss[r] = IF r \in R
                THEN [runs[r] EXCEPT !.status = "ended", !.finished = TRUE]
                ELSE runs[r]
    BY DEF FinishAll
  <2>3. CASE r \in R
    BY <2>1, <2>2, <2>3 DEF Run, Unfinished
  <2>4. CASE r \notin R
    BY <2>2, <2>4
  <2> QED
    BY <2>3, <2>4
<1>3. EndsRuns(runs, ss, R)
  BY <1>1, <1>2 DEF EndsRuns
<1> QED
  BY <1>3

-----------------------------------------------------------------------------
(* The invariant of well-timed callers *)

NoDependencies == \A t \in Task : Deps[t] = {}

\* Nobody stops single workers, answers late or meets locks, and clients do
\* not report runs that a completion, a pause or a restart ends.
TimelyCallers ==
  \A G \in Callers :
    /\ G \cap {"stop", "decide", "locked"} = {}
    /\ "report" \in G => G \cap {"complete", "pause", "restart"} = {}

\* A run's end is recorded with its status, and, where clients report, with
\* its report.
EndsRecorded ==
  \A r \in DOMAIN runs :
    /\ runs[r].finished <=> runs[r].status = "ended"
    /\ "report" \in actors => (runs[r].finished <=> runs[r].reported)

SettledInv ==
  /\ BackedInv
  /\ Settled(board, runs)
  /\ EndsRecorded
  /\ actors \in Callers
  /\ decisions = {}
  /\ stopping = {}

\* The repairs of a trailing pass leave a board settled.
LEMMA RepairedSettled ==
  ASSUME NoDependencies, NEW b \in Board, NEW rs \in Seq(Run), Settled(b, rs),
         OneRunPerTask(rs)
  PROVE  Settled(Repaired(b, rs), rs)
<1>1. Settled(Reconcile(b, rs), rs)
  BY ReconcileSettled DEF NoDependencies, OneRunPerTask
<1> QED
  BY <1>1, Zenon DEF Repaired

\* So do decisions, with what follows them.
LEMMA HandledSettled ==
  ASSUME NoDependencies, NEW b \in Board, NEW rs \in Seq(Run), Settled(b, rs),
         OneRunPerTask(rs), NEW r \in DOMAIN rs, ~TaskHasRun(rs, rs[r].task),
         NEW overruled, NEW d \in Decided(b, rs, r, overruled), Handled(d, rs)
  PROVE  Settled(board', rs)
<1>1. d.board \in Board /\ Settled(d.board, rs)
  BY DecidedType, DecidedSettled DEF Moves
<1>2. Settled(Repaired(d.board, rs), rs)
  BY <1>1, RepairedSettled
<1> QED
  BY <1>1, <1>2, Zenon DEF Handled

\* A claim reserves and marks what its run is about to work on.
LEMMA ClaimSettled ==
  ASSUME NoDependencies, SettledInv, TypeOK', ExclusiveRuns', NEW f \in flights, Claim(f)
  PROVE  Settled(board', runs')
<1> DEFINE n == Len(runs) + 1
           rs == runs'
           b0 == SetAgent(board, f.agent, "starting", f.task)
           b1 == SetTask(b0, f.task, "working", f.agent, "none")
           b == Reserve(b1, f.agent, f.task)
<1>1. TypeOK /\ Settled(board, runs) /\ board \in Board /\ runs \in Seq(Run)
  BY DEF SettledInv, BackedInv, TypeOK
<1>2. f.agent \in Agent /\ f.task \in Task
  BY <1>1 DEF TypeOK, Flight
<1>3. /\ DOMAIN rs = DOMAIN runs \cup {n}
      /\ n \notin DOMAIN runs
      /\ \A r \in DOMAIN runs : rs[r] = runs[r]
      /\ rs[n].agent = f.agent /\ rs[n].task = f.task
      /\ Unfinished(rs[n])
  BY <1>1, ClaimOpensOne, Zenon
<1>4. rs \in Seq(Run) /\ OneRunPerTask(rs)
  BY TaskRunsExclusive DEF TypeOK, OneRunPerTask
<1>5. board' = IF f.by = "decision" THEN Repaired(b, rs) ELSE b
  BY Zenon DEF Claim
<1> HIDE DEF n, rs
<1>6. b0 \in Board /\ b0.task = board.task /\ b0.reserved = board.reserved
  <2>1. b0 \in Board
    BY <1>1, <1>2, SetAgentType DEF Busy
  <2>2. b0.task = board.task /\ b0.reserved = board.reserved
    BY <1>1 DEF SetAgent, Board
  <2> QED
    BY <2>1, <2>2
<1> HIDE DEF b0
<1>7. /\ b1 \in Board /\ b1.reserved = board.reserved
      /\ b1.task[f.task].status = "working"
      /\ \A u \in Task \ {f.task} : b1.task[u] = board.task[u]
  <2>1. b1 \in Board
    BY <1>2, <1>6, SetTaskType, Words
  <2>2. /\ b1.reserved = b0.reserved
        /\ b1.task[f.task].status = "working"
        /\ \A u \in Task \ {f.task} : b1.task[u] = b0.task[u]
    BY <1>2, <1>6, SetTaskFields
  <2> QED
    BY <1>6, <2>1, <2>2
<1> HIDE DEF b1
<1>8. b \in Board /\ b.task = b1.task /\ b.reserved = b1.reserved \cup {<<f.agent, f.task>>}
  <2>1. b \in Board
    BY <1>2, <1>7, ReservationTypes
  <2>2. b.task = b1.task /\ b.reserved = b1.reserved \cup {<<f.agent, f.task>>}
    BY <1>7 DEF Reserve, Board
  <2> QED
    BY <2>1, <2>2
<1> HIDE DEF b
<1>9. Settled(b, rs)
  <2>1. Working(rs) = Working(runs) \cup {<<f.agent, f.task>>}
    BY <1>3 DEF Working
  <2>2. \A u \in Task : TaskHasRun(rs, u) <=> TaskHasRun(runs, u) \/ u = f.task
    BY <1>3 DEF TaskHasRun, RunsOfTask
  <2> QED
    BY <1>1, <1>2, <1>7, <1>8, <2>1, <2>2 DEF Settled
<1>10. Settled(Repaired(b, rs), rs)
  BY <1>4, <1>8, <1>9, RepairedSettled
<1> QED
  BY <1>5, <1>9, <1>10, Zenon DEF rs

\* The end of an open run takes back what it holds.
LEMMA OpenRunEnds ==
  ASSUME SettledInv, TypeOK', NEW r \in DOMAIN runs, Open(r), Finish(r, TRUE),
         NEW b, Frees(board, b, runs[r].agent, runs[r].task)
  PROVE  /\ Settled(b, runs')
         /\ ~TaskHasRun(runs', runs[r].task) /\ runs'[r].task = runs[r].task
<1> DEFINE ss == runs'
           t == runs[r].task
<1>1. TypeOK /\ Settled(board, runs) /\ runs \in Seq(Run) /\ OneRunPerTask(runs)
  BY DEF SettledInv, BackedInv, TypeOK, ExclusiveRuns, Open, OneRunPerTask
<1>2. EndsRuns(runs, ss, {r})
  BY <1>1, FinishEnds
<1> HIDE DEF ss
<1>3. Settled(b, ss)
  <2>1. \A q \in {r} : q \in DOMAIN runs /\ Unfinished(runs[q])
    BY DEF Open
  <2>2. b.reserved = board.reserved \ {<<runs[q].agent, runs[q].task>> : q \in {r}}
    BY DEF Frees
  <2>3. \A u \in Task : IF \E q \in {r} : runs[q].task = u
                        THEN b.task[u].status # "working"
                        ELSE b.task[u].status = "working" <=> board.task[u].status = "working"
    BY DEF Frees
  <2> QED
    BY <1>1, <1>2, <2>1, <2>2, <2>3, EndsSettled
<1>4. ~TaskHasRun(ss, t) /\ ss[r].task = t
  BY <1>1, <1>2 DEF TaskHasRun, RunsOfTask, EndsRuns, OneRunPerTask, Open
<1> QED
  BY <1>3, <1>4 DEF ss

\* A recorded report leaves a board settled.
LEMMA RecordSettled ==
  ASSUME NoDependencies, SettledInv, TypeOK', ExclusiveRuns', NEW r \in DOMAIN runs,
         Open(r), NEW o \in Outcome, Record(r, o)
  PROVE  Settled(board', runs')
<1> DEFINE rs == runs'
           b == Ingested(board, r, o)
           overruled == o = "done" /\ WorkRemains(b, rs)
<1>1. board \in Board /\ runs \in Seq(Run)
  BY DEF SettledInv, BackedInv, TypeOK
<1>2. Finish(r, TRUE)
  BY DEF Record
<1>3. b \in Board /\ Frees(board, b, runs[r].agent, runs[r].task)
  BY <1>1, IngestedType, IngestedFrees
<1>4. \/ board' = b
      \/ \E d \in Decided(b, rs, r, overruled) : Handled(d, rs)
  BY Zenon DEF Record
<1>5. rs \in Seq(Run) /\ r \in DOMAIN rs /\ OneRunPerTask(rs)
  BY <1>1, <1>2, FinishType, TaskRunsExclusive DEF OneRunPerTask
<1> HIDE DEF b, overruled
<1>6. Settled(b, rs) /\ ~TaskHasRun(rs, rs[r].task)
  BY <1>2, <1>3, OpenRunEnds
<1> HIDE DEF rs
<1>7. CASE board' = b
  BY <1>6, <1>7 DEF rs
<1>8. CASE \E d \in Decided(b, rs, r, overruled) : Handled(d, rs)
  <2>1. PICK d \in Decided(b, rs, r, overruled) : Handled(d, rs)
    BY <1>8
  <2>2. Settled(board', rs)
    BY <1>3, <1>5, <1>6, <2>1, HandledSettled
  <2> QED
    BY <2>2 DEF rs
<1> QED
  BY <1>4, <1>7, <1>8

\* So does a rejected completion.
LEMMA EndedInvalidSettled ==
  ASSUME SettledInv, TypeOK', NEW r \in DOMAIN runs, Open(r), EndedInvalid(r)
  PROVE  Settled(board', runs')
<1> DEFINE rs == runs'
           c == board'
<1>1. board \in Board /\ runs \in Seq(Run)
  BY DEF SettledInv, BackedInv, TypeOK
<1>2. Finish(r, TRUE) /\ c = Rejected(board, r)
  BY DEF EndedInvalid
<1>3. PICK b \in Board : /\ Frees(board, b, runs[r].agent, runs[r].task)
                         /\ c = ReleaseOrphanedReservations(b, rs)
  BY <1>1, <1>2, RejectedFrees
<1>4. Settled(b, rs)
  BY <1>2, <1>3, OpenRunEnds
<1> HIDE DEF rs, c
<1>5. Settled(c, rs)
  BY <1>3, <1>4, ReleaseOrphanedReservationsSettled
<1> QED
  BY <1>5 DEF rs, c

\* A completion by the user releases what the run it ends holds, no more.
LEMMA CompleteTaskSettled ==
  ASSUME NoDependencies, SettledInv, TypeOK', ExclusiveRuns', NEW t \in Task,
         CompleteTask(t)
  PROVE  Settled(board', runs')
<1> DEFINE a == board.task[t].agent
           done == SetTask(board, t, "done", None, "none")
           b == Release(done, t, a)
           status == IF b.agent[a].status = "done" THEN "done" ELSE "waiting"
           freed == IF a = None THEN b ELSE SetAgent(b, a, status, None)
           rs == runs'
           R == LatestRunOf(t)
<1>1. /\ board \in Board /\ runs \in Seq(Run) /\ Settled(board, runs)
      /\ Backed(board, runs) /\ OneRunPerTask(runs)
  BY DEF SettledInv, BackedInv, TypeOK, ExclusiveRuns, Open, OneRunPerTask
<1>2. board' = Repaired(freed, rs) /\ FinishAll(R)
  BY Zenon DEF CompleteTask
<1>3. rs \in Seq(Run) /\ OneRunPerTask(rs)
  BY TaskRunsExclusive DEF TypeOK, OneRunPerTask
<1>4. EndsRuns(runs, rs, R)
  BY <1>1, <1>2, FinishAllEnds
<1>5. a \in Agent \cup {None}
  BY <1>1 DEF Board, TaskRow
<1>6. \A r \in R : /\ r \in DOMAIN runs /\ Unfinished(runs[r]) /\ runs[r].task = t
                   /\ a \in {None, runs[r].agent}
  <2> SUFFICES ASSUME NEW r \in R
               PROVE  /\ r \in DOMAIN runs /\ Unfinished(runs[r]) /\ runs[r].task = t
                      /\ a \in {None, runs[r].agent}
    OBVIOUS
  <2>1. TaskHasRun(runs, t) /\ r = LatestRunId(runs, t)
    BY DEF LatestRunOf
  <2>2. r \in RunsOfTask(runs, t)
    BY <1>1, <2>1, LatestRunIsRow
  <2>3. r \in DOMAIN runs /\ runs[r].task = t /\ Unfinished(runs[r])
    BY <2>2 DEF RunsOfTask
  <2> QED
    BY <1>1, <2>3 DEF Backed
<1>7. TaskHasRun(runs, t) <=> R # {}
  BY DEF LatestRunOf
<1>8. /\ done \in Board /\ done.reserved = board.reserved
      /\ done.task[t].status = "done"
      /\ \A u \in Task \ {t} : done.task[u] = board.task[u]
  <2>1. done \in Board
    BY <1>1, SetTaskType, Words
  <2>2. /\ done.reserved = board.reserved
        /\ done.task[t].status = "done"
        /\ \A u \in Task \ {t} : done.task[u] = board.task[u]
    BY <1>1, SetTaskFields
  <2> QED
    BY <2>1, <2>2
<1> HIDE DEF a, done, R
<1>9. /\ b \in Board /\ b.task = done.task
      /\ b.reserved = {p \in board.reserved : ~ (p[2] = t /\ a \in {None, p[1]})}
  <2>1. b \in Board
    BY <1>8, ReservationTypes
  <2>2. b.task = done.task /\ b.reserved = {p \in done.reserved :
                                              ~ (a \in {None, p[1]} /\ t \in {None, p[2]})}
    BY <1>8 DEF Release, Board
  <2>3. t # None
    BY RowsAssumption
  <2> QED
    BY <1>8, <2>1, <2>2, <2>3
<1> HIDE DEF b
<1>10. freed \in Board /\ freed.task = b.task /\ freed.reserved = b.reserved
  <2>1. CASE a = None
    BY <1>9, <2>1
  <2>2. CASE a # None
    <3>1. freed = SetAgent(b, a, status, None)
      BY <2>2
    <3>2. status \in IdleLike
      BY DEF IdleLike
    <3> HIDE DEF freed, status
    <3>3. freed \in Board
      BY <1>5, <1>9, <2>2, <3>1, <3>2, SetAgentType
    <3>4. freed.task = b.task /\ freed.reserved = b.reserved
      BY <1>9, <3>1 DEF SetAgent, Board
    <3> QED
      BY <3>3, <3>4
  <2> QED
    BY <2>1, <2>2
<1> HIDE DEF freed, rs
<1>11. freed.reserved = board.reserved \ {<<runs[r].agent, runs[r].task>> : r \in R}
  <2>1. ASSUME NEW p \in board.reserved
        PROVE  (p[2] = t /\ a \in {None, p[1]})
                 <=> p \in {<<runs[r].agent, runs[r].task>> : r \in R}
    <3>1. PICK q \in DOMAIN runs : Unfinished(runs[q]) /\ p = <<runs[q].agent, runs[q].task>>
      BY <1>1, <2>1 DEF Settled, Working
    <3>2. ASSUME p[2] = t PROVE q \in R
      <4>1. q \in RunsOfTask(runs, t)
        BY <3>1, <3>2 DEF RunsOfTask
      <4>2. PICK r \in R : TRUE
        BY <1>7, <4>1 DEF TaskHasRun
      <4>3. r = q
        BY <1>1, <1>6, <3>1, <3>2, <4>2 DEF OneRunPerTask
      <4> QED
        BY <4>2, <4>3
    <3>3. p[2] = t /\ a \in {None, p[1]} => p \in {<<runs[r].agent, runs[r].task>> : r \in R}
      BY <3>1, <3>2
    <3>4. p \in {<<runs[r].agent, runs[r].task>> : r \in R} => p[2] = t /\ a \in {None, p[1]}
      <4> SUFFICES ASSUME NEW r \in R, p = <<runs[r].agent, runs[r].task>>
                   PROVE  p[2] = t /\ a \in {None, p[1]}
        OBVIOUS
      <4>1. p[1] = runs[r].agent /\ p[2] = runs[r].task
        OBVIOUS
      <4> QED
        BY <1>6, <4>1
    <3> QED
      BY <3>3, <3>4
  <2> QED
    BY <1>9, <1>10, <2>1
<1>12. \A u \in Task : IF \E r \in R : runs[r].task = u
                       THEN freed.task[u].status # "working"
                       ELSE freed.task[u].status = "working" <=> board.task[u].status = "working"
  <2> SUFFICES ASSUME NEW u \in Task
               PROVE  IF \E r \in R : runs[r].task = u
                      THEN freed.task[u].status # "working"
                      ELSE freed.task[u].status = "working" <=> board.task[u].status = "working"
    OBVIOUS
  <2>1. CASE u = t
    <3>1. freed.task[u].status # "working"
      BY <1>8, <1>9, <1>10, <2>1
    <3>2. R = {} => board.task[u].status # "working"
      BY <1>1, <1>7, <2>1 DEF Settled
    <3>3. R # {} => \E r \in R : runs[r].task = u
      BY <1>6, <2>1
    <3> QED
      BY <3>1, <3>2, <3>3
  <2>2. CASE u # t
    BY <1>6, <1>8, <1>9, <1>10, <2>2
  <2> QED
    BY <2>1, <2>2
<1>13. Settled(freed, rs)
  BY <1>1, <1>4, <1>6, <1>11, <1>12, EndsSettled
<1>14. Settled(Repaired(freed, rs), rs)
  BY <1>3, <1>10, <1>13, RepairedSettled
<1> QED
  BY <1>2, <1>14 DEF rs

\* A pause ends every run and takes everything back.
LEMMA PauseSettled ==
  ASSUME SettledInv, Pause
  PROVE  Settled(board', runs')
<1> DEFINE halted == {a \in Agent : AgentHasRun(runs, a)
                                    \/ board.agent[a].status \in Busy}
           R == UNION {RunsOfAgent(runs, a) : a \in halted}
           named == {board.agent[a].task : a \in halted}
           rs == runs'
           c == board'
<1>1. board \in Board /\ runs \in Seq(Run) /\ Settled(board, runs)
  BY DEF SettledInv, BackedInv, TypeOK
<1>2. FinishAll(R) /\ c = StoppedBoard(board, halted, named, R)
  BY Zenon DEF Pause
<1>3. \A q \in DOMAIN runs : Unfinished(runs[q]) => q \in R
  <2> SUFFICES ASSUME NEW q \in DOMAIN runs, Unfinished(runs[q]) PROVE q \in R
    OBVIOUS
  <2>1. runs[q].agent \in Agent /\ q \in RunsOfAgent(runs, runs[q].agent)
    BY <1>1, RowIsRun DEF RunsOfAgent
  <2>2. runs[q].agent \in halted
    BY <2>1 DEF AgentHasRun
  <2> QED
    BY <2>1, <2>2
<1>4. \A p \in board.reserved : p[1] \in halted
  <2>1. \A p \in board.reserved : p[1] \in Agent /\ AgentHasRun(runs, p[1])
    BY <1>1, ReservedRuns DEF Board
  <2> QED
    BY <2>1
<1> HIDE DEF halted, R, named
<1>5. EndsRuns(runs, rs, R)
  BY <1>1, <1>2, FinishAllEnds
<1> HIDE DEF rs
<1>6. /\ c.reserved = {p \in board.reserved : p[1] \notin halted}
      /\ \A u \in Task : c.task[u].status = "working"
           => board.task[u].status = "working" /\ \A r \in R : runs[r].task # u
  BY <1>1, <1>2, StoppedBoardFrees
<1> HIDE DEF c
<1>7. \A q \in DOMAIN rs : ~Unfinished(rs[q])
  BY <1>3, <1>5 DEF EndsRuns
<1>8. c.reserved = {}
  BY <1>4, <1>6
<1>9. \A u \in Task : c.task[u].status # "working"
  <2> SUFFICES ASSUME NEW u \in Task, c.task[u].status = "working" PROVE FALSE
    OBVIOUS
  <2>1. TaskHasRun(runs, u)
    BY <1>1, <1>6 DEF Settled
  <2>2. PICK q \in DOMAIN runs : Unfinished(runs[q]) /\ runs[q].task = u
    BY <2>1 DEF TaskHasRun, RunsOfTask
  <2> QED
    BY <1>3, <1>6, <2>2
<1>10. Settled(c, rs)
  BY <1>7, <1>8, <1>9, NothingSettled
<1> QED
  BY <1>10 DEF c, rs

\* So does a restart.
LEMMA RestartSettled ==
  ASSUME SettledInv, Restart
  PROVE  Settled(board', runs')
<1> DEFINE R == {r \in DOMAIN runs : ~runs[r].finished}
           b == Interrupted(board, R)
           rs == runs'
           c == board'
<1>1. board \in Board /\ runs \in Seq(Run) /\ Settled(board, runs)
  BY DEF SettledInv, BackedInv, TypeOK
<1>2. FinishAll(R) /\ c = RequeueOrphanedTasks(b, b, rs)
  BY Zenon DEF Restart
<1>3. \A q \in DOMAIN runs : Unfinished(runs[q]) => q \in R
  BY DEF Unfinished
<1>4. b \in Board
  BY <1>1, InterruptedType
<1>5. /\ b.reserved = board.reserved \ PairsOf(R)
      /\ \A u \in Task : b.task[u].status = "working"
           => board.task[u].status = "working" /\ \A r \in R : runs[r].task # u
  BY <1>1, InterruptedFrees
<1> HIDE DEF R, b
<1>6. EndsRuns(runs, rs, R)
  BY <1>1, <1>2, FinishAllEnds
<1> HIDE DEF rs, c
<1>7. \A q \in DOMAIN rs : ~Unfinished(rs[q])
  BY <1>3, <1>6 DEF EndsRuns
<1>8. b.reserved = {}
  <2>1. \A p \in board.reserved : p \in PairsOf(R)
    BY <1>1, <1>3 DEF Settled, Working, PairsOf
  <2> QED
    BY <1>5, <2>1
<1>9. \A u \in Task : b.task[u].status # "working"
  <2> SUFFICES ASSUME NEW u \in Task, b.task[u].status = "working" PROVE FALSE
    OBVIOUS
  <2>1. TaskHasRun(runs, u)
    BY <1>1, <1>5 DEF Settled
  <2>2. PICK q \in DOMAIN runs : Unfinished(runs[q]) /\ runs[q].task = u
    BY <2>1 DEF TaskHasRun, RunsOfTask
  <2> QED
    BY <1>3, <1>5, <2>2
<1>10. Settled(b, rs)
  BY <1>7, <1>8, <1>9, NothingSettled
<1>11. Settled(c, rs)
  BY <1>2, <1>4, <1>10, RequeueOrphanedTasksSettled
<1> QED
  BY <1>11 DEF c, rs

\* A turn.started event changes no row that counts.
LEMMA TurnStartedSettled ==
  ASSUME SettledInv, NEW r \in DOMAIN runs, TurnStarted(r)
  PROVE  Settled(board', runs')
<1> DEFINE row == [runs[r] EXCEPT !.status = "working"]
           rs == runs'
           c == board'
<1>1. board \in Board /\ runs \in Seq(Run) /\ Settled(board, runs)
  BY DEF SettledInv, BackedInv, TypeOK
<1>2. /\ rs = [runs EXCEPT ![r] = row] /\ Unfinished(runs[r])
      /\ c = [board EXCEPT !.agent[runs[r].agent].status = "working"]
  BY DEF TurnStarted, Unfinished
<1>3. /\ row.agent = runs[r].agent /\ row.task = runs[r].task
      /\ Unfinished(row)
  BY <1>1, <1>2, RowIsRun DEF Run, Unfinished
<1> HIDE DEF row, rs, c
<1>4. /\ DOMAIN rs = DOMAIN runs
      /\ \A q \in DOMAIN runs : /\ rs[q].agent = runs[q].agent /\ rs[q].task = runs[q].task
                                /\ Unfinished(rs[q]) <=> Unfinished(runs[q])
  BY <1>2, <1>3
<1>5. c.task = board.task /\ c.reserved = board.reserved
  BY <1>1, <1>2 DEF Board
<1>6. \A u : TaskHasRun(rs, u) <=> TaskHasRun(runs, u)
  BY <1>4 DEF TaskHasRun, RunsOfTask
<1>7. Working(rs) = Working(runs)
  BY <1>4 DEF Working
<1>8. Settled(c, rs)
  BY <1>1, <1>5, <1>6, <1>7 DEF Settled
<1> QED
  BY <1>8 DEF c, rs

\* Passes, user starts and refusals leave a board settled.
LEMMA QuietStepsSettled ==
  ASSUME NoDependencies, SettledInv,
         \/ \E s \in Scanner : Scan(s) \/ GatherResults(s)
         \/ \E a \in Agent : UserStart(a)
         \/ \E f \in flights : Refuse(f)
  PROVE  Settled(board', runs')
<1>1. /\ board \in Board /\ runs \in Seq(Run) /\ Settled(board, runs)
      /\ OneRunPerTask(runs) /\ flights \subseteq Flight
  BY DEF SettledInv, BackedInv, TypeOK, ExclusiveRuns, Open, OneRunPerTask
<1>2. ASSUME NEW s \in Scanner, NEW b \in Board, Settled(b, runs), Pass(s, b)
      PROVE  Settled(board', runs)
  <2>1. PICK o \in PassOutcomes(s, b) : board' = o.board
    BY <1>2, Zenon DEF Pass
  <2>2. Settled(o.board, runs)
    BY <1>1, <1>2, PassOutcomesSettled DEF NoDependencies, OneRunPerTask
  <2> QED
    BY <2>1, <2>2
<1>3. ASSUME NEW s \in Scanner, Scan(s) PROVE Settled(board', runs) /\ UNCHANGED runs
  BY <1>1, <1>2, <1>3 DEF Scan
<1>4. ASSUME NEW s \in Scanner, GatherResults(s)
      PROVE  Settled(board', runs) /\ UNCHANGED runs
  <2> DEFINE b == HandleRefusals(board, s)
  <2>1. b \in Board
    BY <1>1, HandleRefusalsType
  <2>2. b.task = board.task /\ b.reserved = board.reserved
    BY <1>1 DEF HandleRefusals, Board
  <2>3. UNCHANGED runs /\ (board' = b \/ Pass(s, b))
    BY <1>4, Zenon DEF GatherResults
  <2> HIDE DEF b
  <2>4. Settled(b, runs)
    BY <1>1, <2>2 DEF Settled
  <2>5. CASE board' = b
    BY <2>3, <2>4, <2>5
  <2>6. CASE Pass(s, b)
    BY <1>2, <2>1, <2>3, <2>4, <2>6
  <2> QED
    BY <2>3, <2>5, <2>6
<1>5. ASSUME NEW a \in Agent, UserStart(a) PROVE Settled(board', runs) /\ UNCHANGED runs
  <2> DEFINE T == PathBlocked(board, runs, a, {})
  <2>1. \A t \in T : board.task[t].status \in Startable
    BY Zenon DEF PathBlocked, Considered
  <2>2. UNCHANGED runs /\ (board' = board \/ board' = WaitOnPaths(board, T))
    BY <1>5, Zenon DEF UserStart
  <2> HIDE DEF T
  <2>3. Settled(WaitOnPaths(board, T), runs)
    BY <1>1, <2>1, WaitOnPathsSettled
  <2>4. CASE board' = board
    BY <1>1, <2>2, <2>4
  <2>5. CASE board' = WaitOnPaths(board, T)
    BY <2>2, <2>3, <2>5
  <2> QED
    BY <2>2, <2>4, <2>5
<1>6. ASSUME NEW f \in flights, Refuse(f) PROVE Settled(board', runs) /\ UNCHANGED runs
  <2> DEFINE b == DeferLaunch(board, runs, f)
             c == Repaired(b, runs)
  <2>1. f \in Flight
    BY <1>1
  <2>2. b \in Board /\ Settled(b, runs)
    BY <1>1, <2>1, DeferLaunchType, DeferLaunchSettled
  <2>3. UNCHANGED runs /\ (board' = board \/ board' = c)
    BY <1>6, Zenon DEF Refuse
  <2> HIDE DEF b
  <2>4. Settled(c, runs)
    BY <1>1, <2>2, RepairedSettled
  <2> HIDE DEF c
  <2>5. CASE board' = board
    BY <1>1, <2>3, <2>5
  <2>6. CASE board' = c
    BY <2>3, <2>4, <2>6
  <2> QED
    BY <2>3, <2>5, <2>6
<1>7. Settled(board', runs) /\ UNCHANGED runs
  BY <1>3, <1>4, <1>5, <1>6, Zenon
<1> QED
  BY <1>7

\* The end of a run is recorded with its status and its report.
LEMMA NextEndsRecorded ==
  ASSUME TimelyCallers, SettledInv, [Next]_vars
  PROVE  EndsRecorded'
<1>1. TypeOK /\ EndsRecorded /\ runs \in Seq(Run) /\ actors \in Callers
  BY DEF SettledInv, BackedInv, TypeOK
<1>2. actors' = actors
  <2>1. CASE \/ \E s \in Scanner : Scan(s) \/ GatherResults(s)
             \/ \E a \in Agent : UserStart(a) \/ StopAgent(a)
             \/ \E f \in flights : Claim(f) \/ Refuse(f)
    BY <2>1 DEF Scan, GatherResults, UserStart, StopAgent, Claim, Refuse
  <2>2. CASE \/ \E r \in DOMAIN runs : \/ TurnStarted(r) \/ EndedLocked(r)
                                       \/ EndedInvalid(r) \/ Exit(r)
             \/ \E r \in DOMAIN runs, o \in Outcome :
                  Ended(r, o) \/ FinalizeRetry(r, o) \/ Report(r, o)
    BY <2>2 DEF TurnStarted, EndedLocked, EndedInvalid, Exit, Ended, FinalizeRetry, Report
  <2>3. CASE \/ \E d \in decisions : Decide(d) \/ DropDecision(d)
             \/ \E s \in stopping : FinishStop(s)
             \/ \E t \in Task : CompleteTask(t)
             \/ Pause \/ Resume \/ Restart \/ UNCHANGED vars
    BY <2>3 DEF Decide, DropDecision, FinishStop, CompleteTask, Pause, Resume, Restart, vars
  <2> QED
    BY <2>1, <2>2, <2>3, NextCases, Zenon
<1>3. ASSUME UNCHANGED runs PROVE EndsRecorded'
  BY <1>1, <1>2, <1>3 DEF EndsRecorded
<1>4. ASSUME NEW r \in DOMAIN runs, Finish(r, TRUE) PROVE EndsRecorded'
  <2> DEFINE row == [runs[r] EXCEPT !.status = "ended", !.finished = TRUE,
                                    !.reported = TRUE \/ @]
  <2>1. runs' = [runs EXCEPT ![r] = row]
    BY <1>4 DEF Finish
  <2>2. row.status = "ended" /\ row.finished /\ row.reported
    BY <1>1, RowIsRun DEF Run
  <2> HIDE DEF row
  <2> QED
    BY <1>1, <1>2, <2>1, <2>2 DEF EndsRecorded
<1>5. ASSUME NEW r \in DOMAIN runs, TurnStarted(r) PROVE EndsRecorded'
  <2> DEFINE row == [runs[r] EXCEPT !.status = "working"]
  <2>1. runs' = [runs EXCEPT ![r] = row]
    BY <1>5 DEF TurnStarted
  <2>2. /\ row.status = "working" /\ row.finished = runs[r].finished
        /\ row.reported = runs[r].reported /\ ~runs[r].finished
    BY <1>1, <1>5, RowIsRun DEF Run, TurnStarted
  <2> HIDE DEF row
  <2> QED
    BY <1>1, <1>2, <2>1, <2>2 DEF EndsRecorded
<1>6. ASSUME NEW f \in flights, Claim(f) PROVE EndsRecorded'
  <2>1. /\ ~NewRun(f).finished /\ NewRun(f).status = "starting" /\ ~NewRun(f).reported
        /\ NewRun(f) \in Run
    BY <1>1, <1>6, ClaimType DEF NewRun
  <2>2. runs' = Append(runs, NewRun(f))
    BY <1>6 DEF Claim
  <2>3. \A r \in DOMAIN runs' : \/ r \in DOMAIN runs /\ runs'[r] = runs[r]
                              \/ runs'[r] = NewRun(f)
    BY <1>1, <2>1, <2>2
  <2> QED
    BY <1>1, <1>2, <2>1, <2>3 DEF EndsRecorded
<1>7. ASSUME \/ \E t \in Task : CompleteTask(t)
             \/ Pause
             \/ Restart
      PROVE  EndsRecorded'
  <2>1. "report" \notin actors
    BY <1>1, <1>7 DEF CompleteTask, Pause, Restart, TimelyCallers
  <2>2. PICK R : FinishAll(R)
    BY <1>7, Zenon DEF CompleteTask, Pause, Restart
  <2>3. DOMAIN runs' = DOMAIN runs
    BY <1>1, <2>2, FinishAllType
  <2>4. ASSUME NEW r \in DOMAIN runs
        PROVE  runs'[r].finished <=> runs'[r].status = "ended"
    <3>1. runs[r] \in Run
      BY <1>1, RowIsRun
    <3>2. runs'[r] = IF r \in R
                     THEN [runs[r] EXCEPT !.status = "ended", !.finished = TRUE]
                     ELSE runs[r]
      BY <2>2 DEF FinishAll
    <3>3. CASE r \in R
      BY <3>1, <3>2, <3>3 DEF Run
    <3>4. CASE r \notin R
      BY <1>1, <3>2, <3>4 DEF EndsRecorded
    <3> QED
      BY <3>3, <3>4
  <2> QED
    BY <1>2, <2>1, <2>3, <2>4 DEF EndsRecorded
<1>8. ASSUME \/ \E s \in Scanner : Scan(s) \/ GatherResults(s)
             \/ \E a \in Agent : UserStart(a) \/ StopAgent(a)
             \/ \E f \in flights : Refuse(f)
             \/ \E r \in DOMAIN runs : Exit(r)
             \/ \E d \in decisions : Decide(d) \/ DropDecision(d)
             \/ Resume
             \/ UNCHANGED vars
      PROVE  UNCHANGED runs
  BY <1>8 DEF Scan, GatherResults, UserStart, StopAgent, Refuse, Exit, Decide,
     DropDecision, Resume, vars
<1>9. ASSUME NEW r \in DOMAIN runs, NEW o \in Outcome,
             \/ EndedInvalid(r)
             \/ Ended(r, o) \/ FinalizeRetry(r, o) \/ Report(r, o)
      PROVE  Finish(r, TRUE)
  BY <1>9, Zenon DEF EndedInvalid, Ended, FinalizeRetry, Report, Record
<1>10. ~ \E r \in DOMAIN runs : EndedLocked(r)
  BY <1>1 DEF EndedLocked, TimelyCallers
<1>11. ~ \E s \in stopping : FinishStop(s)
  BY DEF SettledInv
<1>12. "done" \in Outcome
  BY DEF Outcome
<1> QED
  BY <1>3, <1>4, <1>5, <1>6, <1>7, <1>8, <1>9, <1>10, <1>11, <1>12, NextCases, Zenon

\* Every step of well-timed callers leaves board and run table in agreement.
LEMMA NextSettled ==
  ASSUME NoDependencies, TimelyCallers, SettledInv, TypeOK', ExclusiveRuns', [Next]_vars
  PROVE  Settled(board', runs')
<1>1. /\ Settled(board, runs) /\ EndsRecorded /\ actors \in Callers
      /\ decisions = {} /\ stopping = {}
  BY DEF SettledInv
<1>2. \A r \in DOMAIN runs : runs[r].status = "ended" => runs[r].finished
  BY <1>1 DEF EndsRecorded
<1>3. ASSUME NEW r \in DOMAIN runs, NEW o \in Outcome,
             Ended(r, o) \/ FinalizeRetry(r, o) \/ Report(r, o)
      PROVE  Settled(board', runs')
  <2>1. Record(r, o)
    BY <1>3 DEF Ended, FinalizeRetry, Report
  <2>2. Open(r)
    BY <1>1, <1>2, <1>3 DEF Ended, FinalizeRetry, Report, EndsRecorded, Open, Unfinished
  <2> QED
    BY <2>1, <2>2, RecordSettled
<1>4. ASSUME NEW r \in DOMAIN runs, EndedInvalid(r) PROVE Settled(board', runs')
  <2>1. Open(r)
    BY <1>2, <1>4 DEF EndedInvalid
  <2> QED
    BY <1>4, <2>1, EndedInvalidSettled
<1>5. /\ ~ \E a \in Agent : StopAgent(a)
      /\ ~ \E r \in DOMAIN runs : EndedLocked(r)
  BY <1>1 DEF StopAgent, EndedLocked, TimelyCallers
<1>6. ASSUME \/ \E r \in DOMAIN runs : Exit(r)
             \/ Resume
             \/ UNCHANGED vars
      PROVE  Settled(board', runs')
  BY <1>1, <1>6 DEF Exit, Resume, vars
<1> QED
  BY <1>1, <1>3, <1>4, <1>5, <1>6, NextCases, QuietStepsSettled, ClaimSettled,
     CompleteTaskSettled, PauseSettled, RestartSettled, TurnStartedSettled, Zenon

\* No answer is awaited and no worker is being stopped.
LEMMA NextNothingAwaited ==
  ASSUME TimelyCallers, SettledInv, [Next]_vars
  PROVE  decisions' = {} /\ stopping' = {} /\ actors' \in Callers
<1>1. decisions = {} /\ stopping = {} /\ actors \in Callers
  BY DEF SettledInv
<1>2. "decide" \notin actors /\ "stop" \notin actors
  BY <1>1 DEF TimelyCallers
<1>3. CASE \/ \E s \in Scanner : Scan(s) \/ GatherResults(s)
           \/ \E a \in Agent : UserStart(a) \/ StopAgent(a)
           \/ \E f \in flights : Claim(f) \/ Refuse(f)
  BY <1>1, <1>2, <1>3 DEF Scan, GatherResults, UserStart, StopAgent, Claim, Refuse
<1>4. CASE \E r \in DOMAIN runs : TurnStarted(r) \/ EndedLocked(r)
                                  \/ EndedInvalid(r) \/ Exit(r)
  BY <1>1, <1>4 DEF TurnStarted, EndedLocked, EndedInvalid, Exit
<1>5. CASE \E r \in DOMAIN runs, o \in Outcome :
             Ended(r, o) \/ FinalizeRetry(r, o) \/ Report(r, o)
  <2>1. PICK r \in DOMAIN runs, o \in Outcome :
          Ended(r, o) \/ FinalizeRetry(r, o) \/ Report(r, o)
    BY <1>5
  <2>2. Record(r, o) /\ UNCHANGED <<stopping, actors>>
    BY <2>1 DEF Ended, FinalizeRetry, Report
  <2>3. UNCHANGED decisions
    BY <1>2, <2>2, Zenon DEF Record
  <2> QED
    BY <1>1, <2>2, <2>3
<1>6. CASE \/ \E t \in Task : CompleteTask(t)
           \/ Pause \/ Resume \/ Restart \/ UNCHANGED vars
  BY <1>1, <1>6 DEF CompleteTask, Pause, Resume, Restart, vars
<1> QED
  BY <1>1, <1>3, <1>4, <1>5, <1>6, NextCases, Zenon

\* The invariant holds throughout.
LEMMA SettledThroughout ==
  ASSUME NoDependencies, TimelyCallers
  PROVE  Spec => []SettledInv
<1>1. Init => SettledInv
  <2> SUFFICES ASSUME Init PROVE SettledInv
    OBVIOUS
  <2>1. Backed(board, runs) /\ StopsOwnRuns /\ ExclusiveRuns /\ TypeOK
    BY InitType DEF Init, InitialBoard, Backed, StopsOwnRuns, ExclusiveRuns
  <2>2. Settled(board, runs)
    <3>1. \A t \in Task : board.task[t].status # "working"
      BY DEF Init, InitialBoard
    <3>2. runs = <<>> /\ board.reserved = {}
      BY DEF Init, InitialBoard
    <3> QED
      BY <3>1, <3>2, NothingSettled
  <2>3. EndsRecorded /\ actors \in Callers /\ decisions = {} /\ stopping = {}
    BY DEF Init, EndsRecorded
  <2> QED
    BY <2>1, <2>2, <2>3 DEF SettledInv, BackedInv
<1>2. SettledInv /\ [Next]_vars => SettledInv'
  <2> SUFFICES ASSUME SettledInv, [Next]_vars PROVE SettledInv'
    OBVIOUS
  <2>1. BackedInv
    BY DEF SettledInv
  <2>2. TypeOK' /\ ExclusiveRuns'
    BY <2>1, NextType, NextExclusive DEF BackedInv
  <2>3. Backed(board', runs') /\ StopsOwnRuns'
    BY <2>1, <2>2, NextBacked, NextStopsOwnRuns
  <2>4. Settled(board', runs')
    BY <2>2, NextSettled
  <2>5. EndsRecorded' /\ decisions' = {} /\ stopping' = {} /\ actors' \in Callers
    BY NextEndsRecorded, NextNothingAwaited
  <2> QED
    BY <2>2, <2>3, <2>4, <2>5 DEF SettledInv, BackedInv
<1> QED
  BY <1>1, <1>2, PTL DEF Spec

\* Without dependencies and with well-timed callers a task says it is being
\* worked on exactly while it has an unfinished run (WorkingHasRun of
\* DispatchProperties).
THEOREM WorkingTasksHaveRuns ==
  NoDependencies /\ TimelyCallers => (Spec => []WorkingHasRun)
<1> SUFFICES ASSUME NoDependencies, TimelyCallers PROVE Spec => []WorkingHasRun
  OBVIOUS
<1>1. SettledInv => WorkingHasRun
  BY DEF SettledInv, Settled, WorkingHasRun
<1> QED
  BY <1>1, SettledThroughout, PTL

\* Then the unreleased reservations, too, are exactly those of the unfinished
\* runs (LocksMatchRuns of DispatchProperties).
THEOREM LocksAreThoseOfRuns ==
  NoDependencies /\ TimelyCallers => (Spec => []LocksMatchRuns)
<1> SUFFICES ASSUME NoDependencies, TimelyCallers PROVE Spec => []LocksMatchRuns
  OBVIOUS
<1>1. SettledInv => LocksMatchRuns
  BY DEF SettledInv, Settled, LocksMatchRuns
<1> QED
  BY <1>1, SettledThroughout, PTL

-----------------------------------------------------------------------------
(* A pass respects the locks *)

\* A decision launches on its own account.
LEMMA DecidedLaunches ==
  ASSUME NEW b, NEW rs, NEW r, NEW overruled, NEW d \in Decided(b, rs, r, overruled)
  PROVE  \A f \in d.launch : f.by = "decision"
<1>1. ASSUME NEW c, d \in Quietly(c) PROVE \A f \in d.launch : f.by = "decision"
  BY <1>1 DEF Quietly
<1>2. ASSUME NEW c, NEW undone, NEW a, NEW t, d \in Immediately(c, undone, rs, a, t)
      PROVE  \A f \in d.launch : f.by = "decision"
  <2> DEFINE f == [agent |-> a, task |-> t, by |-> "decision"]
  <2>1. \/ \E e : d \in Quietly(e)
        \/ d = [board |-> c, launch |-> {f}]
    BY <1>2, Zenon DEF Immediately
  <2> QED
    BY <1>1, <2>1
<1>3. ASSUME NEW a, d \in AssignNext(b, rs, a)
      PROVE  \/ \E c : d \in Quietly(c)
             \/ \E c, undone, e, t : d \in Immediately(c, undone, rs, e, t)
  <2> DEFINE b1(t) == Revived(b, rs, t)
             own(t) == IF <<a, t>> \in Matches THEN {a} ELSE {}
             named(t) == Assignable(b1(t), rs, t)
             assignee(t, n) == IF n \in named(t) THEN {n} ELSE own(t) \cap named(t)
             chosen(t, n) == CHOOSE c \in assignee(t, n) : TRUE
             assigned(t, n) ==
               SetTask(b1(t), t, "assigned", chosen(t, n), b1(t).task[t].reason)
  <2>1. PICK t \in Task :
          d \in IF b1(t).task[t].status \notin Startable \/ TaskHasRun(rs, t)
                THEN Quietly(b1(t))
                ELSE UNION {IF assignee(t, n) = {} THEN Quietly(b1(t))
                            ELSE Immediately(assigned(t, n), b, rs, chosen(t, n), t)
                            : n \in Agent \cup {None}}
    BY <1>3, Zenon DEF AssignNext
  <2> HIDE DEF b1, assignee, chosen, assigned
  <2>2. \/ d \in Quietly(b1(t))
        \/ \E n : d \in Immediately(assigned(t, n), b, rs, chosen(t, n), t)
    BY <2>1
  <2> QED
    BY <2>2
<1>4. \/ \E c : d \in Quietly(c)
      \/ \E c, undone, a, t : d \in Immediately(c, undone, rs, a, t)
  BY <1>3, Zenon DEF Decided, MarkTask, RequestFix, Escalate
<1> QED
  BY <1>1, <1>2, <1>4

\* Overlapping a set of paths is overlapping a larger one.
LEMMA ConflictGrows ==
  ASSUME NEW p, NEW q, NEW r, p \subseteq q, PathsConflict(p, r)
  PROVE  PathsConflict(q, r)
BY Zenon DEF PathsConflict

\* What a pass launches overlaps no open run of another worker.
LEMMA PassRespects ==
  ASSUME NoDependencies, SettledInv, NEW s \in Scanner, NEW b \in Board,
         Settled(b, runs), NEW o \in PassOutcomes(s, b),
         NEW f \in o.flights \ flights, NEW r \in DOMAIN runs, Open(r),
         runs[r].agent # f.agent
  PROVE  ~PathsConflict(AllowedPaths[runs[r].task], AllowedPaths[f.task])
<1> DEFINE c == Reconcile(b, runs)
           g == GateTasks(c)
           a == runs[r].agent
           t == runs[r].task
<1>1. runs \in Seq(Run) /\ OneRunPerTask(runs)
  BY DEF SettledInv, BackedInv, TypeOK, ExclusiveRuns, Open, OneRunPerTask
<1>2. a \in Agent /\ t \in Task
  BY <1>1, RowIsRun
<1>3. AgentHasRun(runs, a)
  <2>1. r \in RunsOfAgent(runs, a)
    BY DEF RunsOfAgent, Open
  <2> QED
    BY <2>1 DEF AgentHasRun
<1>4. c \in Board /\ Settled(c, runs) /\ c.agent[a].status \in Busy
  BY <1>1, <1>2, <1>3, ReconcileType, ReconcileSettled DEF NoDependencies, OneRunPerTask
<1>5. ~GuardBlocks
  <2> SUFFICES ASSUME GuardBlocks PROVE FALSE
    OBVIOUS
  <2>1. o = [board |-> GuardedOff(c), flights |-> flights]
    BY Zenon DEF PassOutcomes
  <2> QED
    BY <2>1
<1>6. PICK plan \in Plans(g) :
        o = [board |-> MarkWaiting(g, plan), flights |-> flights \cup Planned(plan, s)]
  BY <1>5, Zenon DEF PassOutcomes
<1> HIDE DEF c
<1>7. g \in Board /\ Settled(g, runs) /\ g.agent[a].status \in Busy
  BY <1>4, GateTasksType, GateTasksSettled
<1> HIDE DEF g
<1>8. PICK d \in Agent : plan[d] # None /\ f = [agent |-> d, task |-> plan[d], by |-> s]
  BY <1>6 DEF Planned
<1>9. plan[d] \in Candidates(g, runs, d, PlannedBefore(plan, d))
  BY <1>8, Zenon DEF Plans
<1>10. CanAssign(g, d, f.task) /\ f.agent = d
  <2>1. f.task = plan[d] /\ f.agent = d
    BY <1>8
  <2>2. CanAssign(g, d, plan[d])
    BY <1>9, Zenon DEF Candidates
  <2> QED
    BY <2>1, <2>2
<1>11. a \notin ConflictingAgents(g, f.task)
  BY <1>10 DEF CanAssign
<1>12. ~PathsConflict(LockedPaths(g, a), AllowedPaths[f.task])
  BY <1>2, <1>7, <1>11 DEF ConflictingAgents
<1>13. <<a, t>> \in g.reserved
  BY <1>7 DEF Settled, Working, Open
<1>14. AllowedPaths[t] \subseteq LockedPaths(g, a)
  BY <1>2, <1>13 DEF LockedPaths
<1> QED
  BY <1>12, <1>14, ConflictGrows

\* Without dependencies and with well-timed callers a scheduler pass admits a
\* launch only when no other worker's open run owns paths it overlaps
\* (PassesRespectLocks of DispatchProperties).
THEOREM PassesKeepPathsApart ==
  NoDependencies /\ TimelyCallers => (Spec => PassesRespectLocks)
<1> SUFFICES ASSUME NoDependencies, TimelyCallers PROVE Spec => PassesRespectLocks
  OBVIOUS
<1> DEFINE Apart ==
      \A f \in flights' \ flights, r \in DOMAIN runs :
        f.by \in Scanner /\ Unfinished(runs'[r]) /\ runs[r].agent # f.agent
          => ~PathsConflict(AllowedPaths[runs[r].task], AllowedPaths[f.task])
<1>1. ASSUME SettledInv, Next PROVE Apart
  <2>1. TypeOK /\ board \in Board /\ Settled(board, runs)
    BY <1>1 DEF SettledInv, BackedInv, TypeOK
  <2>2. ASSUME \A f \in flights' \ flights : f.by \notin Scanner PROVE Apart
    BY <2>2
  <2>3. ASSUME NEW s \in Scanner, NEW b \in Board, Settled(b, runs), Pass(s, b),
               UNCHANGED runs
        PROVE  Apart
    <3>1. PICK o \in PassOutcomes(s, b) : flights' = o.flights
      BY <2>3, Zenon DEF Pass
    <3>2. \A f \in o.flights \ flights, r \in DOMAIN runs :
            Open(r) /\ runs[r].agent # f.agent
              => ~PathsConflict(AllowedPaths[runs[r].task], AllowedPaths[f.task])
      BY <1>1, <2>3, PassRespects
    <3> QED
      BY <2>3, <3>1, <3>2 DEF Open
  <2>4. ASSUME NEW s \in Scanner, Scan(s) PROVE Apart
    BY <2>1, <2>3, <2>4 DEF Scan
  <2>5. ASSUME NEW s \in Scanner, GatherResults(s) PROVE Apart
    <3> DEFINE b == HandleRefusals(board, s)
    <3>1. b \in Board
      BY <2>1, HandleRefusalsType
    <3>2. b.task = board.task /\ b.reserved = board.reserved
      BY <2>1 DEF HandleRefusals, Board
    <3>3. UNCHANGED runs /\ (flights' = flights \/ Pass(s, b))
      BY <2>5, Zenon DEF GatherResults
    <3> HIDE DEF b
    <3>4. Settled(b, runs)
      BY <2>1, <3>2 DEF Settled
    <3> QED
      BY <2>2, <2>3, <3>1, <3>3, <3>4
  <2>6. ASSUME NEW a \in Agent, UserStart(a) PROVE Apart
    <3>1. \A f \in flights' \ flights : f.by = "user"
      BY <2>6 DEF UserStart
    <3> QED
      BY <2>2, <3>1, DispatchAssumption
  <2>7. ASSUME NEW r \in DOMAIN runs, NEW o \in Outcome,
               Ended(r, o) \/ FinalizeRetry(r, o) \/ Report(r, o)
        PROVE  Apart
    <3> DEFINE rs == runs'
               b == Ingested(board, r, o)
               overruled == o = "done" /\ WorkRemains(b, rs)
    <3>1. Record(r, o)
      BY <2>7 DEF Ended, FinalizeRetry, Report
    <3>2. \/ flights' = flights
          \/ \E d \in Decided(b, rs, r, overruled) : Handled(d, rs)
      BY <3>1, Zenon DEF Record
    <3> HIDE DEF b, rs, overruled
    <3>3. \A f \in flights' \ flights : f.by = "decision"
      BY <3>2, DecidedLaunches DEF Handled
    <3> QED
      BY <2>2, <3>3, DispatchAssumption
  <2>8. ASSUME \/ \E a \in Agent : StopAgent(a)
               \/ \E f \in flights : Claim(f) \/ Refuse(f)
               \/ \E r \in DOMAIN runs : \/ TurnStarted(r) \/ EndedLocked(r)
                                         \/ EndedInvalid(r) \/ Exit(r)
               \/ \E t \in Task : CompleteTask(t)
               \/ Pause
               \/ Resume
               \/ Restart
        PROVE  flights' \subseteq flights
    BY <2>8 DEF StopAgent, Claim, Refuse, TurnStarted, EndedLocked, EndedInvalid, Exit,
       CompleteTask, Pause, Resume, Restart
  <2>9. ASSUME flights' \subseteq flights PROVE Apart
    BY <2>9
  <2>10. decisions = {} /\ stopping = {}
    BY <1>1 DEF SettledInv
  <2> HIDE DEF Apart
  <2> QED
    BY <1>1, <2>4, <2>5, <2>6, <2>7, <2>8, <2>9, <2>10, NextCases, Zenon
<1>2. SettledInv /\ [Next]_vars => [Apart]_vars
  BY <1>1
<1> QED
  BY <1>2, SettledThroughout, PTL DEF Spec, PassesRespectLocks

=============================================================================
