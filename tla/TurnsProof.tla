---------------------------- MODULE TurnsProof ------------------------------
(***************************************************************************)
(* Proofs about OrchestrationTurns, for every set of tasks and every bound *)
(* on failures and inputs.  Overlap is excluded by what the slot means:    *)
(* every unfinished task is the task in the slot.                          *)
(***************************************************************************)
EXTENDS OrchestrationTurns, TLAPS

TaskRecord == [phase : Phase, loaded : Status, result : Status, early : BOOLEAN]

\* The task in the slot is the only one that may still run.
SlotOwns == \A t \in TaskId : tasks[t].phase \in Unfinished => t = slot

IInv == TypeOK /\ SlotOwns

\* The records tasks are set to are task records.
LEMMA TaskRecords ==
  /\ Free \in TaskRecord /\ Sleeping \in TaskRecord
  /\ Working \in TaskRecord /\ Done \in TaskRecord
  /\ Free.phase = "free" /\ Sleeping.phase = "sleep"
  /\ Working.phase = "work" /\ Done.phase = "done"
BY DEF TaskRecord, Free, Sleeping, Working, Done, Phase, Status, Live, Over

\* Fields of a session row may be set to what they range over.
LEMMA RowFields ==
  ASSUME NEW r \in Row, NEW s \in Status, NEW n \in Nat, NEW p \in BOOLEAN
  PROVE  /\ [r EXCEPT !.status = s] \in Row
         /\ [r EXCEPT !.paused = p] \in Row
         /\ [r EXCEPT !.status = s, !.failures = n] \in Row
         /\ [r EXCEPT !.status = s, !.paused = p] \in Row
         /\ [r EXCEPT !.failures = n, !.status = s] \in Row
         /\ [[r EXCEPT !.status = s] EXCEPT !.paused = p] \in Row
         /\ r.status \in Status /\ r.failures \in Nat /\ r.paused \in BOOLEAN
BY DEF Row

\* A freshly created session satisfies the invariant.
LEMMA InitInvariant == Init => IInv
<1> SUFFICES ASSUME Init PROVE IInv
  OBVIOUS
<1>1. row \in Row
  BY DEF Init, Row, Status, Live, Over
<1>2. tasks \in [TaskId -> TaskRecord]
  BY TaskRecords, Zenon DEF Init
<1>3. \A t \in TaskId : tasks[t].phase \in Unfinished => t = slot
  BY TaskRecords DEF Init, Unfinished
<1> QED
  BY <1>1, <1>2, <1>3 DEF Init, IInv, TypeOK, SlotOwns, TaskRecord

\* Scheduling keeps the slot the owner of whatever is unfinished.
LEMMA ScheduleInvariant ==
  ASSUME IInv, Schedule
  PROVE  /\ tasks' \in [TaskId -> TaskRecord]
         /\ slot' \in TaskId \cup {None}
         /\ queued' \in BOOLEAN
         /\ SlotOwns'
<1>1. tasks \in [TaskId -> TaskRecord]
  BY DEF IInv, TypeOK, TaskRecord
<1>2. CASE SlotBusy
  <2>1. slot \in TaskId
    BY <1>2 DEF IInv, TypeOK, SlotBusy
  <2>2. /\ tasks' = [tasks EXCEPT ![slot].early = tasks[slot].phase = "sleep"]
        /\ slot' = slot /\ queued' = TRUE
    BY <1>2 DEF Schedule
  <2>3. [tasks[slot] EXCEPT !.early = tasks[slot].phase = "sleep"] \in TaskRecord
    BY <1>1, <2>1 DEF TaskRecord
  <2>4. tasks' \in [TaskId -> TaskRecord]
    BY <1>1, <2>1, <2>2, <2>3
  <2>5. \A t \in TaskId : tasks'[t].phase = tasks[t].phase
    BY <1>1, <2>1, <2>2 DEF TaskRecord
  <2> QED
    BY <2>1, <2>2, <2>4, <2>5 DEF IInv, SlotOwns
<1>3. CASE ~SlotBusy
  <2>1. PICK t \in TaskId : /\ tasks[t].phase = "free"
                            /\ tasks' = [tasks EXCEPT ![t] = Sleeping]
                            /\ slot' = t
                            /\ queued' = FALSE
    BY <1>3 DEF Schedule
  <2>2. tasks' \in [TaskId -> TaskRecord]
    BY <1>1, <2>1, TaskRecords
  <2>3. \A u \in TaskId : tasks[u].phase \notin Unfinished
    BY <1>3, TurnAssumption DEF IInv, SlotOwns, SlotBusy
  <2>4. SlotOwns'
    BY <1>1, <2>1, <2>3 DEF SlotOwns
  <2> QED
    BY <2>1, <2>2, <2>4
<1> QED
  BY <1>2, <1>3

\* Replacing an unfinished task by one that is not, or by a working one, and
\* leaving the slot, keeps the slot the owner.
LEMMA StepInvariant ==
  ASSUME IInv, NEW t \in TaskId, NEW k \in TaskRecord,
         k.phase \in Unfinished => tasks[t].phase \in Unfinished,
         tasks' = [tasks EXCEPT ![t] = k], UNCHANGED slot
  PROVE  tasks' \in [TaskId -> TaskRecord] /\ SlotOwns'
<1>1. tasks \in [TaskId -> TaskRecord]
  BY DEF IInv, TypeOK, TaskRecord
<1>2. tasks' \in [TaskId -> TaskRecord]
  BY <1>1
<1>3. \A u \in TaskId : tasks'[u].phase \in Unfinished
                          => tasks[u].phase \in Unfinished
  BY <1>1
<1> QED
  BY <1>2, <1>3 DEF IInv, SlotOwns

\* Every step of a session and its turns preserves the invariant.
LEMMA NextInvariant == IInv /\ [Next]_vars => IInv'
<1> SUFFICES ASSUME IInv, [Next]_vars
             PROVE  IInv'
  OBVIOUS
<1> USE DEF TaskRecord
<1>1. /\ row \in Row
      /\ staged \in {None} \cup Row
      /\ tasks \in [TaskId -> TaskRecord]
      /\ slot \in TaskId \cup {None}
      /\ queued \in BOOLEAN /\ unheard \in BOOLEAN /\ inputs \in Nat
  BY DEF IInv, TypeOK
<1>2. "planning" \in Status /\ "paused" \in Status /\ "failed" \in Status
  BY DEF Status, Live, Over
<1>3. Planning \in Row
  BY <1>1, <1>2, RowFields, Zenon DEF Planning
<1>4. ASSUME NEW new \in Row, Wake(new) PROVE IInv'
  <2>1. Schedule /\ staged' = new /\ row' = row /\ unheard' = unheard
    BY <1>4 DEF Wake
  <2>2. inputs' \in Nat
    BY <1>1, <1>4 DEF Wake, Input
  <2> QED
    BY <1>1, <2>1, <2>2, ScheduleInvariant DEF IInv, TypeOK
<1>5. CASE UserRequest \/ Answer \/ FollowUp
  BY <1>3, <1>4, <1>5 DEF UserRequest, Answer, FollowUp
<1>6. CASE Resume
  <2>1. [Planning EXCEPT !.paused = FALSE] \in Row
    BY <1>3 DEF Row
  <2> QED
    BY <1>4, <1>6, <2>1 DEF Resume
<1>7. CASE CommitRequest
  BY <1>1, <1>7 DEF CommitRequest, IInv, TypeOK, SlotOwns
<1>8. ASSUME NEW new \in Row, SetRow(new) PROVE IInv'
  BY <1>8 DEF SetRow, IInv, TypeOK, SlotOwns
<1>9. CASE Pause \/ ProjectPause \/ ProjectResume
  <2>1. /\ [row EXCEPT !.status = "paused", !.paused = TRUE] \in Row
        /\ [row EXCEPT !.paused = TRUE] \in Row
        /\ [row EXCEPT !.paused = FALSE] \in Row
    BY <1>1, <1>2 DEF Row
  <2> QED
    BY <1>8, <1>9, <2>1 DEF Pause, ProjectPause, ProjectResume
<1>10. CASE Restart
  <2>1. /\ row' \in Row /\ staged' = None /\ queued' = FALSE
        /\ unheard' \in BOOLEAN /\ inputs' \in Nat
    BY <1>1, <1>3, <1>10 DEF Restart, Input
  <2>2. CASE row.status \in Live
    <3>1. /\ slot' \in TaskId
          /\ tasks' = [t \in TaskId |-> IF t = slot' THEN Sleeping ELSE Free]
      BY <1>10, <2>2 DEF Restart
    <3>2. tasks' \in [TaskId -> TaskRecord]
      BY <3>1, TaskRecords, Zenon
    <3>3. \A t \in TaskId : tasks'[t].phase \in Unfinished => t = slot'
      BY <3>1, TaskRecords DEF Unfinished
    <3> QED
      BY <2>1, <3>1, <3>2, <3>3 DEF IInv, TypeOK, SlotOwns
  <2>3. CASE row.status \notin Live
    <3>1. slot' = None /\ tasks' = [t \in TaskId |-> Free]
      BY <1>10, <2>3 DEF Restart
    <3>2. tasks' \in [TaskId -> TaskRecord]
      BY <3>1, TaskRecords, Zenon
    <3>3. \A t \in TaskId : tasks'[t].phase \notin Unfinished
      BY <3>1, TaskRecords DEF Unfinished
    <3> QED
      BY <2>1, <3>1, <3>2, <3>3 DEF IInv, TypeOK, SlotOwns
  <2> QED
    BY <2>2, <2>3
<1>11. ASSUME NEW t \in TaskId, TurnStart(t) PROVE IInv'
  <2>1. tasks' \in [TaskId -> TaskRecord] /\ SlotOwns'
    BY <1>11, TaskRecords, StepInvariant DEF TurnStart, Unfinished
  <2> QED
    BY <1>1, <1>3, <1>11, <2>1 DEF TurnStart, IInv, TypeOK
<1>12. ASSUME NEW t \in TaskId, TurnSkip(t) PROVE IInv'
  <2>1. tasks' \in [TaskId -> TaskRecord] /\ SlotOwns'
    BY <1>12, TaskRecords, StepInvariant DEF TurnSkip, Unfinished
  <2>2. row' \in Row
    BY <1>1, <1>2, <1>12, RowFields DEF TurnSkip
  <2> QED
    BY <1>1, <1>12, <2>1, <2>2 DEF TurnSkip, IInv, TypeOK
<1>13. ASSUME NEW t \in TaskId, TurnRead(t) PROVE IInv'
  <2>1. PICK s \in Derived :
          tasks' = [tasks EXCEPT ![t] = [Free EXCEPT !.phase = "write",
                                                     !.loaded = row.status,
                                                     !.result = s]]
    BY <1>13 DEF TurnRead
  <2>2. s \in Status
    BY <2>1 DEF Derived, Status, Live, Over
  <2> DEFINE k == [Free EXCEPT !.phase = "write", !.loaded = row.status,
                               !.result = s]
  <2>3. k \in TaskRecord
    BY <1>1, <2>2, TaskRecords DEF Row, Phase
  <2>4. tasks[t].phase \in Unfinished
    BY <1>13 DEF TurnRead, Unfinished
  <2> HIDE DEF k
  <2>5. tasks' = [tasks EXCEPT ![t] = k] /\ slot' = slot
    BY <1>13, <2>1 DEF TurnRead, k
  <2>6. tasks' \in [TaskId -> TaskRecord] /\ SlotOwns'
    BY <2>3, <2>4, <2>5, StepInvariant
  <2> QED
    BY <1>1, <1>13, <2>6 DEF TurnRead, IInv, TypeOK
<1>14. ASSUME NEW t \in TaskId, TurnWrite(t) PROVE IInv'
  <2>1. tasks' \in [TaskId -> TaskRecord] /\ SlotOwns'
    BY <1>14, TaskRecords, StepInvariant DEF TurnWrite, Unfinished
  <2>2. row' \in Row
    BY <1>1, <1>14 DEF TurnWrite, Row
  <2> QED
    BY <1>1, <1>14, <2>1, <2>2 DEF TurnWrite, IInv, TypeOK
<1>15. ASSUME NEW t \in TaskId, TurnFail(t) PROVE IInv'
  <2>1. tasks[t].phase \in Unfinished /\ t = slot
    BY <1>15 DEF TurnFail, Unfinished, IInv, SlotOwns
  <2>2. /\ row' \in Row
        /\ staged' = staged /\ unheard' = unheard /\ inputs' = inputs
    <3>1. CountedFailure \in Nat
      BY <1>1 DEF CountedFailure, Row
    <3>2. PICK s \in {"planning", "paused", "failed"} :
            row' = [row EXCEPT !.status = s, !.failures = CountedFailure]
      BY <1>15, Zenon DEF TurnFail
    <3>3. row' \in Row
      <4>1. s \in Status
        BY <1>2
      <4> QED
        BY <1>1, <3>1, <3>2, <4>1, RowFields, Zenon
    <3> QED
      BY <1>15, <3>3 DEF TurnFail
  <2>3. ASSUME NEW u \in TaskId, tasks[u].phase = "free",
               tasks' = [tasks EXCEPT ![t] = Done, ![u] = Sleeping],
               slot' = u, queued' = FALSE
        PROVE  IInv'
    <3>1. tasks' \in [TaskId -> TaskRecord]
      BY <1>1, <2>3, TaskRecords
    <3>2. ASSUME NEW v \in TaskId, tasks'[v].phase \in Unfinished
          PROVE  v = u
      <4>1. CASE v = t
        BY <1>1, <2>1, <2>3, <3>2, <4>1, TaskRecords DEF Unfinished
      <4>2. CASE v # t /\ v # u
        BY <1>1, <2>1, <2>3, <3>2, <4>2 DEF IInv, SlotOwns
      <4> QED
        BY <4>1, <4>2
    <3> QED
      BY <1>1, <2>2, <2>3, <3>1, <3>2 DEF IInv, TypeOK, SlotOwns
  <2>4. ASSUME tasks' = [tasks EXCEPT ![t] = Done], UNCHANGED <<slot, queued>>
        PROVE  IInv'
    <3>1. tasks' \in [TaskId -> TaskRecord] /\ SlotOwns'
      BY <2>1, <2>4, TaskRecords, StepInvariant
    <3> QED
      BY <1>1, <2>2, <2>4, <3>1 DEF IInv, TypeOK
  <2> QED
    BY <1>15, <2>3, <2>4 DEF TurnFail
<1>16. ASSUME NEW t \in TaskId, DoneCallback(t) PROVE IInv'
  <2>1. /\ tasks[t].phase = "done"
        /\ tasks' = [tasks EXCEPT ![t] = IF Holds(t) /\ queued
                                         THEN Sleeping ELSE Free]
        /\ slot' = IF ~Holds(t) THEN slot ELSE IF queued THEN t ELSE None
        /\ queued' = (queued /\ ~Holds(t))
        /\ UNCHANGED <<row, staged, unheard, inputs>>
    BY <1>16 DEF DoneCallback
  <2>2. tasks' \in [TaskId -> TaskRecord]
    BY <1>1, <2>1, TaskRecords
  <2>3. SlotOwns'
    BY <1>1, <2>1, TaskRecords DEF IInv, SlotOwns, Holds, Unfinished
  <2>4. slot' \in TaskId \cup {None} /\ queued' \in BOOLEAN
    BY <1>1, <2>1
  <2> QED
    BY <1>1, <2>1, <2>2, <2>3, <2>4 DEF IInv, TypeOK
<1>17. CASE UNCHANGED vars
  BY <1>17 DEF vars, IInv, TypeOK, SlotOwns
<1> QED
  BY <1>5, <1>6, <1>7, <1>9, <1>10, <1>11, <1>12, <1>13, <1>14, <1>15, <1>16,
     <1>17 DEF Next, TurnStep

\* The session row, the slot and the tasks keep their types in every behaviour.
THEOREM TurnTypes == Spec => []TypeOK
<1>1. IInv => TypeOK
  BY DEF IInv
<1> QED
  BY <1>1, InitInvariant, NextInvariant, PTL DEF Spec

\* However wake-ups, retries, callbacks, pauses and restarts interleave, no
\* two background turns of a session run at once.
THEOREM BackgroundTurnsNeverOverlap == Spec => []TurnsNeverOverlap
<1>1. IInv => TurnsNeverOverlap
  BY DEF IInv, SlotOwns, TurnsNeverOverlap, Unfinished
<1> QED
  BY <1>1, InitInvariant, NextInvariant, PTL DEF Spec

=============================================================================
