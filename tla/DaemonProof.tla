------------------------------- MODULE DaemonProof -------------------------------
(* Proofs for any threshold, outage, interval and jitter: the listener guard is  *)
(* patient, and a process that ends by itself without having lost its listener   *)
(* leaves "stopped" behind.  And for any set of login flows and number of        *)
(* restarts: flows run one at a time and show how their process ended.           *)
EXTENDS DaemonLife, LoginJobs, TLAPS

(* The guard's counters say what its probes have seen.                           *)
Counted ==
  /\ misses = quiet.probes
  /\ misses = 0 => outage = -1 /\ quiet.span = 0
  /\ misses # 0 => outage = quiet.span

(* Whoever may still write the metadata of a main thread that is about to leave. *)
LastWord ==
  /\ identity => main \in {"serving", "closing"}
  /\ guard \in {"mark", "signal", "exit"} => lost
  /\ main = "joining" /\ ~ lost => metadata.status = "stopped"
  /\ exit = "stopped" => main = "joining" /\ ~ lost

GuardInv == DaemonTypeOK /\ Counted /\ GuardIsPatient /\ LastWord

Metadata == [status : {"starting", "ok", "failed", "stopped"}, own : BOOLEAN]

LEMMA SaysType ==
  ASSUME NEW word \in {"starting", "ok", "failed", "stopped"}
  PROVE  Says(word) \in Metadata /\ Says(word).status = word
  BY DEF Says, Metadata

LEMMA InitInv == Init => GuardInv
<1> SUFFICES ASSUME Init PROVE GuardInv
  OBVIOUS
<1>1. DaemonTypeOK
  <2>1. Says("starting") \in Metadata
    BY SaysType
  <2>2. /\ flips \in 0 .. MaxFlips /\ misses \in 0 .. Threshold /\ outage \in -1 .. MinOutage
        /\ quiet \in [probes : 0 .. Threshold, span : 0 .. MinOutage]
    BY DaemonAssumption DEF Init
  <2> QED
    BY <2>1, <2>2 DEF Init, DaemonTypeOK, Metadata
<1>2. Counted
  BY DEF Init, Counted
<1>3. GuardIsPatient /\ LastWord
  BY DEF Init, GuardIsPatient, LastWord
<1> QED
  BY <1>1, <1>2, <1>3 DEF GuardInv

-------------------------------------------------------------------------------
(* The guard *)

LEMMA AtMostBounds ==
  ASSUME NEW a \in Nat, NEW b \in Nat
  PROVE  AtMost(a, b) \in 0 .. b /\ (AtMost(a, b) = 0 => a = 0 \/ b = 0)
  BY DEF AtMost

\* A failed probe counts, and condemns only at both limits.
LEMMA ProbeInv == GuardInv /\ Running /\ Probe => GuardInv'
<1> SUFFICES ASSUME GuardInv, Running, Probe PROVE GuardInv'
  OBVIOUS
<1> USE DaemonAssumption
<1>1. /\ misses \in 0 .. Threshold /\ outage \in -1 .. MinOutage
      /\ quiet \in [probes : 0 .. Threshold, span : 0 .. MinOutage]
      /\ misses = quiet.probes
      /\ misses = 0 => outage = -1 /\ quiet.span = 0
      /\ misses # 0 => outage = quiet.span
  BY DEF GuardInv, DaemonTypeOK, Counted
<1>2. LastWord'
  BY DEF GuardInv, LastWord, Probe, mainVars
<1>3. CASE Healthy
  <2>1. /\ misses' = 0 /\ outage' = -1 /\ guard' = "sleep"
        /\ quiet' = [probes |-> 0, span |-> 0]
    BY <1>3 DEF Probe, Recovered
  <2>2. DaemonTypeOK'
    BY <2>1 DEF Probe, GuardInv, DaemonTypeOK, mainVars
  <2> QED
    BY <1>2, <2>1, <2>2 DEF GuardInv, Counted, GuardIsPatient
<1>4. CASE ~ Healthy
  <2>1. /\ misses' = AtMost(misses + 1, Threshold)
        /\ outage' = OutageSince
        /\ guard' = IF LongEnough(misses', outage') THEN "fail" ELSE "sleep"
        /\ quiet' = [quiet EXCEPT !.probes = AtMost(misses + 1, Threshold)]
    BY <1>1, <1>4 DEF Probe
  <2>2. misses' \in 1 .. Threshold
    BY <1>1, <2>1 DEF AtMost
  <2>3. outage' = quiet.span /\ outage' \in 0 .. MinOutage
    BY <1>1, <2>1 DEF OutageSince
  <2>4. /\ quiet' \in [probes : 0 .. Threshold, span : 0 .. MinOutage]
        /\ quiet'.probes = misses' /\ quiet'.span = outage'
    BY <1>1, <2>1, <2>2, <2>3
  <2>5. guard' = "fail" => misses' = Threshold /\ outage' = MinOutage
    BY <2>1, <2>2, <2>3 DEF LongEnough
  <2>6. GuardIsPatient'
    BY <2>4, <2>5 DEF GuardIsPatient
  <2>7. DaemonTypeOK'
    BY <2>1, <2>2, <2>3, <2>4 DEF Probe, GuardInv, DaemonTypeOK, mainVars
  <2>8. Counted'
    BY <2>2, <2>4 DEF Counted
  <2> QED
    BY <1>2, <2>6, <2>7, <2>8 DEF GuardInv
<1> QED
  BY <1>3, <1>4

\* Count of time and span of the failed probes stay the same.
LEMMA SleepInv == GuardInv /\ Running /\ Sleep => GuardInv'
<1> SUFFICES ASSUME GuardInv, Running, Sleep PROVE GuardInv'
  OBVIOUS
<1> USE DaemonAssumption
<1>1. /\ misses \in 0 .. Threshold /\ outage \in -1 .. MinOutage
      /\ quiet \in [probes : 0 .. Threshold, span : 0 .. MinOutage]
      /\ misses = quiet.probes
      /\ misses = 0 => outage = -1 /\ quiet.span = 0
      /\ misses # 0 => outage = quiet.span
  BY DEF GuardInv, DaemonTypeOK, Counted
<1>2. PICK time \in Interval .. Interval + Jitter :
        /\ outage' = IF outage = -1 THEN outage ELSE AtMost(outage + time, MinOutage)
        /\ quiet' = IF quiet.probes = 0 THEN quiet
                    ELSE [quiet EXCEPT !.span = AtMost(quiet.span + time, MinOutage)]
  BY <1>1 DEF Sleep
<1>3. guard' = "watch" /\ misses' = misses
  BY DEF Sleep
<1>4. GuardIsPatient' /\ LastWord'
  BY <1>3 DEF GuardIsPatient, GuardInv, LastWord, Sleep, mainVars
<1>5. CASE misses = 0
  <2>1. outage' = outage /\ quiet' = quiet
    BY <1>1, <1>2, <1>5
  <2> QED
    BY <1>1, <1>3, <1>4, <2>1 DEF GuardInv, DaemonTypeOK, Counted, Sleep, mainVars
<1>6. CASE misses # 0
  <2>1. outage' = AtMost(outage + time, MinOutage) /\ outage \in 0 .. MinOutage
    BY <1>1, <1>2, <1>6
  <2>2. quiet' = [quiet EXCEPT !.span = AtMost(outage + time, MinOutage)]
    BY <1>1, <1>2, <1>6
  <2>3. outage' \in 0 .. MinOutage
    BY <2>1, AtMostBounds
  <2>4. /\ quiet' \in [probes : 0 .. Threshold, span : 0 .. MinOutage]
        /\ quiet'.probes = misses' /\ quiet'.span = outage'
    BY <1>1, <1>3, <2>1, <2>2, <2>3
  <2> QED
    BY <1>1, <1>3, <1>4, <1>6, <2>3, <2>4
       DEF GuardInv, DaemonTypeOK, Counted, Sleep, mainVars
<1> QED
  BY <1>5, <1>6

LEMMA WatchInv == GuardInv /\ Running /\ Watch => GuardInv'
<1> SUFFICES ASSUME GuardInv, Running, Watch PROVE GuardInv'
  OBVIOUS
<1>1. guard' \in {"gone", "sleep", "probe"}
  BY DEF Watch
<1> QED
  BY <1>1 DEF GuardInv, DaemonTypeOK, Counted, GuardIsPatient, LastWord, Watch, mainVars

\* The way from the verdict to os._exit.
LEMMA EndInv == GuardInv /\ Running /\ (Fail \/ Mark \/ Signal \/ Kill) => GuardInv'
<1> SUFFICES ASSUME GuardInv, Running PROVE (Fail \/ Mark \/ Signal \/ Kill) => GuardInv'
  OBVIOUS
<1>1. ASSUME Fail PROVE GuardInv'
  BY <1>1 DEF Fail, Running, GuardInv, DaemonTypeOK, Counted, GuardIsPatient, LastWord
<1>2. ASSUME Mark PROVE GuardInv'
  BY <1>2 DEF Mark, Says, Running, GuardInv, DaemonTypeOK, Counted, GuardIsPatient, LastWord,
              mainVars
<1>3. ASSUME Signal PROVE GuardInv'
  BY <1>3 DEF Signal, Running, GuardInv, DaemonTypeOK, Counted, GuardIsPatient, LastWord
<1>4. ASSUME Kill PROVE GuardInv'
  BY <1>4 DEF Kill, Running, GuardInv, DaemonTypeOK, Counted, GuardIsPatient, LastWord
<1> QED
  BY <1>1, <1>2, <1>3, <1>4

LEMMA GuardStepInv == GuardInv /\ Guard => GuardInv'
  BY ProbeInv, SleepInv, WatchInv, EndInv DEF Guard

-------------------------------------------------------------------------------
(* The main thread and the others who write the metadata *)

LEMMA MainInv == GuardInv /\ Main => GuardInv'
<1> SUFFICES ASSUME GuardInv, Running,
                    Start \/ UserStop \/ Close \/ EndLifespan \/ Return \/ Report \/ Leave
             PROVE  GuardInv'
  BY DEF Main
<1>1. Counted' /\ GuardIsPatient'
  BY DEF GuardInv, Counted, GuardIsPatient, guardVars, Start, UserStop, Close, EndLifespan,
         Return, Report, Leave
<1>2. DaemonTypeOK'
  <2>1. metadata' \in Metadata
    <3>1. metadata' \in {metadata, Says("ok"), Says("stopped"), Says("failed")}
      BY DEF Start, UserStop, Close, EndLifespan, Return, Report, Leave
    <3>2. metadata \in Metadata
      BY DEF GuardInv, DaemonTypeOK, Metadata
    <3> QED
      BY <3>1, <3>2, SaysType
  <2>2. UNCHANGED <<listener, flips, guardVars, identity, other>>
    BY DEF Start, UserStop, Close, EndLifespan, Return, Report, Leave
  <2>3. /\ main' \in {"starting", "serving", "closing", "closed", "returned", "joining"}
        /\ exit' \in {"no", "stopped", "error", "killed"}
    BY DEF GuardInv, DaemonTypeOK, Start, UserStop, Close, EndLifespan, Return, Report, Leave
  <2>4. shouldExit' \in BOOLEAN /\ lost' \in BOOLEAN
    BY DEF GuardInv, DaemonTypeOK, Start, UserStop, Close, EndLifespan, Return, Report, Leave
  <2> QED
    BY <2>1, <2>2, <2>3, <2>4 DEF GuardInv, DaemonTypeOK, Metadata, guardVars
<1>3. LastWord'
  <2>1. CASE Start \/ UserStop \/ Close \/ Return
    BY <2>1 DEF GuardInv, LastWord, guardVars, Running, Start, UserStop, Close, Return
  <2>2. CASE EndLifespan
    BY <2>2 DEF GuardInv, LastWord, guardVars, Running, EndLifespan, RequestsDone
  <2>3. CASE Report
    BY <2>3 DEF GuardInv, LastWord, guardVars, Running, Report, Says
  <2>4. CASE Leave
    BY <2>4 DEF GuardInv, LastWord, guardVars, Running, Leave
  <2> QED
    BY <2>1, <2>2, <2>3, <2>4
<1> QED
  BY <1>1, <1>2, <1>3 DEF GuardInv

LEMMA OthersInv ==
  GuardInv /\ (AskIdentity \/ AnswerIdentity \/ OtherDaemon \/ Flip) => GuardInv'
<1> SUFFICES ASSUME GuardInv
             PROVE  AskIdentity \/ AnswerIdentity \/ OtherDaemon \/ Flip => GuardInv'
  OBVIOUS
<1>1. ASSUME AskIdentity PROVE GuardInv'
  BY <1>1 DEF GuardInv, DaemonTypeOK, Counted, GuardIsPatient, LastWord, guardVars, mainVars,
              AskIdentity
<1>2. ASSUME AnswerIdentity PROVE GuardInv'
  <2>1. /\ identity /\ identity' = FALSE /\ metadata' = Says("ok") /\ exit = "no"
        /\ UNCHANGED <<listener, flips, guardVars, mainVars, other>>
    BY <1>2 DEF AnswerIdentity, Running
  <2>2. Counted' /\ GuardIsPatient'
    BY <2>1 DEF GuardInv, Counted, GuardIsPatient, guardVars
  <2>3. DaemonTypeOK'
    <3>1. metadata' \in [status : {"starting", "ok", "failed", "stopped"}, own : BOOLEAN]
      BY <2>1, SaysType DEF Metadata
    <3>2. DaemonTypeOK
      BY DEF GuardInv
    <3>3. UNCHANGED <<listener, flips, guard, misses, outage, quiet, main, shouldExit,
                      lost, other, exit>>
      BY <1>2 DEF AnswerIdentity, guardVars, mainVars
    <3>4. identity' \in BOOLEAN
      BY <2>1
    <3> QED
      <4>1. /\ listener' \in BOOLEAN /\ shouldExit' \in BOOLEAN /\ lost' \in BOOLEAN
        BY <3>2, <3>3, Zenon DEF DaemonTypeOK
      <4>2. /\ flips' \in 0 .. MaxFlips /\ misses' \in 0 .. Threshold
            /\ outage' \in -1 .. MinOutage
            /\ quiet' \in [probes : 0 .. Threshold, span : 0 .. MinOutage]
        BY <3>2, <3>3 DEF DaemonTypeOK
      <4>3. /\ guard' \in {"watch", "probe", "sleep", "fail", "mark", "signal", "exit", "gone"}
            /\ main' \in {"starting", "serving", "closing", "closed", "returned", "joining"}
            /\ other' \in {"none", "starting", "up", "refused", "down"}
            /\ exit' \in {"no", "stopped", "error", "killed"}
        BY <3>2, <3>3 DEF DaemonTypeOK
      <4> QED
        BY <3>1, <3>4, <4>1, <4>2, <4>3, Zenon DEF DaemonTypeOK
  <2>4. LastWord'
    BY <2>1 DEF GuardInv, LastWord, guardVars, mainVars
  <2> QED
    BY <2>2, <2>3, <2>4 DEF GuardInv
<1>3. ASSUME OtherDaemon PROVE GuardInv'
  <2>1. Counted' /\ GuardIsPatient'
    BY <1>3 DEF GuardInv, Counted, GuardIsPatient, guardVars, OtherDaemon
  <2>2. DaemonTypeOK'
    <3>1. metadata' \in Metadata
      <4>1. \/ metadata' = metadata
            \/ \E word \in {"starting", "ok", "stopped"} :
                 metadata' = [status |-> word, own |-> FALSE]
        BY <1>3 DEF OtherDaemon
      <4>2. metadata \in Metadata
        BY DEF GuardInv, DaemonTypeOK, Metadata
      <4>3. ASSUME NEW word \in {"starting", "ok", "stopped"}
            PROVE  [status |-> word, own |-> FALSE] \in Metadata
        BY DEF Metadata
      <4> QED
        BY <4>1, <4>2, <4>3
    <3>2. other' \in {"none", "starting", "up", "refused", "down"}
      BY <1>3 DEF OtherDaemon
    <3>3. UNCHANGED <<listener, flips, guardVars, mainVars, identity>>
      BY <1>3 DEF OtherDaemon
    <3> QED
      BY <3>1, <3>2, <3>3 DEF GuardInv, DaemonTypeOK, Metadata, guardVars, mainVars
  <2>3. LastWord'
    BY <1>3 DEF GuardInv, LastWord, guardVars, mainVars, OtherDaemon
  <2> QED
    BY <2>1, <2>2, <2>3 DEF GuardInv
<1>4. ASSUME Flip PROVE GuardInv'
  <2>1. flips' \in 0 .. MaxFlips /\ listener' \in BOOLEAN
    BY <1>4, DaemonAssumption DEF Flip, GuardInv, DaemonTypeOK
  <2> QED
    BY <1>4, <2>1 DEF GuardInv, DaemonTypeOK, Counted, GuardIsPatient, LastWord, guardVars,
                      mainVars, Flip
<1> QED
  BY <1>1, <1>2, <1>3, <1>4

LEMMA NextInv == GuardInv /\ [Next]_vars => GuardInv'
<1>1. GuardInv /\ UNCHANGED vars => GuardInv'
  BY DEF vars, guardVars, mainVars, GuardInv, DaemonTypeOK, Counted, GuardIsPatient, LastWord
<1> QED
  BY <1>1, GuardStepInv, MainInv, OthersInv DEF Next

\* Flags, counters and the metadata keep their types.
THEOREM DaemonTypes == Spec => []DaemonTypeOK
<1>1. GuardInv => DaemonTypeOK
  BY DEF GuardInv
<1> QED
  BY InitInv, NextInv, <1>1, PTL DEF Spec

\* The guard ends the daemon only after as many failed probes in a row as the
\* threshold asks for, over at least the minimal outage (_listener_guard).
THEOREM GuardStaysPatient == Spec => []GuardIsPatient
<1>1. GuardInv => GuardIsPatient
  BY DEF GuardInv
<1> QED
  BY InitInv, NextInv, <1>1, PTL DEF Spec

\* After a stop that no lost listener caused, daemon.json says "stopped",
\* whatever the guard, identity requests and a second daemon write (main).
THEOREM CleanExitLeavesStopped == Spec => []CleanExitIsRecorded
<1>1. GuardInv => CleanExitIsRecorded
  BY DEF GuardInv, LastWord, CleanExitIsRecorded
<1> QED
  BY InitInv, NextInv, <1>1, PTL DEF Spec

-------------------------------------------------------------------------------
(* The login flows *)

(* What a flow that has not ended, and one that has, may have for a process.     *)
Progress(j) ==
  /\ task[j] \in {"none", "queued"} => process[j] = "none"
  /\ task[j] \in {"feed", "read", "wait"} => process[j] # "none"
  /\ task[j] = "wait" => process[j] # "up"
  /\ status[j] \in Outcome => task[j] = "done" /\ process[j] # "up"

LoginInv ==
  /\ LoginTypeOK
  /\ OneFlow
  /\ ShowsTheExit
  /\ \A j \in Job : Progress(j)

LEMMA LoginInitInv == LoginInit => LoginInv
  BY LoginAssumption DEF LoginInit, LoginInv, LoginTypeOK, OneFlow, Unfinished, ShowsTheExit,
                         Progress, Outcome

LEMMA LoginStartInv == ASSUME LoginInv, NEW j \in Job, StartJob(j) PROVE LoginInv'
<1>1. LoginTypeOK'
  BY DEF LoginInv, LoginTypeOK, StartJob
<1>2. OneFlow'
  BY LoginAssumption DEF LoginInv, LoginTypeOK, OneFlow, Unfinished, StartJob, Unoccupied
<1>3. ShowsTheExit'
  BY DEF LoginInv, LoginTypeOK, ShowsTheExit, StartJob
<1>4. \A i \in Job : Progress(i)'
  BY DEF LoginInv, LoginTypeOK, Progress, Outcome, StartJob
<1> QED
  BY <1>1, <1>2, <1>3, <1>4 DEF LoginInv

\* A flow that raises or ends, or goes on with the process it has.
LEMMA LoginSpawnInv == ASSUME LoginInv, NEW j \in Job, Spawn(j) PROVE LoginInv'
<1>1. LoginTypeOK'
  BY DEF LoginInv, LoginTypeOK, Spawn, End, Released, Raise, Outcome
<1>2. OneFlow'
  BY LoginAssumption DEF LoginInv, LoginTypeOK, OneFlow, Unfinished, Spawn, End, Released, Raise
<1>3. ShowsTheExit'
  BY DEF LoginInv, LoginTypeOK, ShowsTheExit, Progress, Spawn, End, Raise
<1>4. \A i \in Job : Progress(i)'
  BY DEF LoginInv, LoginTypeOK, Progress, Outcome, Spawn, End, Raise
<1> QED
  BY <1>1, <1>2, <1>3, <1>4 DEF LoginInv

LEMMA LoginFeedInv == ASSUME LoginInv, NEW j \in Job, Feed(j) PROVE LoginInv'
<1>1. LoginTypeOK'
  BY DEF LoginInv, LoginTypeOK, Feed, Raise
<1>2. OneFlow'
  BY DEF LoginInv, LoginTypeOK, OneFlow, Unfinished, Feed, Raise
<1>3. ShowsTheExit' /\ \A i \in Job : Progress(i)'
  BY DEF LoginInv, LoginTypeOK, ShowsTheExit, Progress, Outcome, Feed, Raise
<1> QED
  BY <1>1, <1>2, <1>3 DEF LoginInv

LEMMA LoginReadInv == ASSUME LoginInv, NEW j \in Job, Read(j) PROVE LoginInv'
<1>1. LoginTypeOK'
  BY DEF LoginInv, LoginTypeOK, Read, Raise
<1>2. OneFlow'
  BY DEF LoginInv, LoginTypeOK, OneFlow, Unfinished, Read, Raise
<1>3. ShowsTheExit'
  BY DEF LoginInv, ShowsTheExit, Read, Raise
<1>4. \A i \in Job : Progress(i)'
  BY DEF LoginInv, LoginTypeOK, Progress, Outcome, Read, Raise
<1> QED
  BY <1>1, <1>2, <1>3, <1>4 DEF LoginInv

LEMMA LoginFinishInv == ASSUME LoginInv, NEW j \in Job, Finish(j) PROVE LoginInv'
<1>1. LoginTypeOK'
  BY DEF LoginInv, LoginTypeOK, Finish, End, Released, OutcomeOf, Raise, Outcome
<1>2. OneFlow'
  BY LoginAssumption DEF LoginInv, LoginTypeOK, OneFlow, Unfinished, Finish, End, Released, Raise
<1>3. ShowsTheExit'
  BY DEF LoginInv, LoginTypeOK, ShowsTheExit, Progress, Finish, End, OutcomeOf, Raise
<1>4. \A i \in Job : Progress(i)'
  BY DEF LoginInv, LoginTypeOK, Progress, Outcome, Finish, End, Raise
<1> QED
  BY <1>1, <1>2, <1>3, <1>4 DEF LoginInv

LEMMA LoginExitInv == ASSUME LoginInv, NEW j \in Job, Exit(j) PROVE LoginInv'
<1>1. LoginTypeOK' /\ OneFlow'
  BY DEF LoginInv, LoginTypeOK, OneFlow, Unfinished, Exit
<1>2. ShowsTheExit' /\ \A i \in Job : Progress(i)'
  BY DEF LoginInv, LoginTypeOK, ShowsTheExit, Progress, Outcome, Exit
<1> QED
  BY <1>1, <1>2 DEF LoginInv

LEMMA LoginRestartInv == LoginInv /\ Restart => LoginInv'
<1> SUFFICES ASSUME LoginInv, Restart PROVE LoginInv'
  OBVIOUS
<1>1. LoginTypeOK'
  BY LoginAssumption DEF LoginInv, LoginTypeOK, Restart
<1>2. OneFlow'
  BY DEF OneFlow, Unfinished, Restart
<1>3. ShowsTheExit' /\ \A i \in Job : Progress(i)'
  BY DEF LoginInv, ShowsTheExit, Progress, Outcome, Restart
<1> QED
  BY <1>1, <1>2, <1>3 DEF LoginInv

LEMMA LoginNextInv == LoginInv /\ [LoginNext]_loginVars => LoginInv'
<1> SUFFICES ASSUME LoginInv, [LoginNext]_loginVars PROVE LoginInv'
  OBVIOUS
<1>1. ASSUME NEW j \in Job, StartJob(j) \/ Work(j) \/ Exit(j) PROVE LoginInv'
  BY <1>1, LoginStartInv, LoginSpawnInv, LoginFeedInv, LoginReadInv, LoginFinishInv, LoginExitInv DEF Work
<1>2. CASE Restart
  BY <1>2, LoginRestartInv
<1>3. CASE UNCHANGED loginVars
  BY <1>3 DEF loginVars, LoginInv, LoginTypeOK, OneFlow, Unfinished, ShowsTheExit, Progress
<1> QED
  BY <1>1, <1>2, <1>3 DEF LoginNext

\* Flows, tasks and processes keep their types.
THEOREM LoginTypes == LoginSpec => []LoginTypeOK
<1>1. LoginInv => LoginTypeOK
  BY DEF LoginInv
<1> QED
  BY LoginInitInv, LoginNextInv, <1>1, PTL DEF LoginSpec

\* One login flow at a time, and current as long as it runs, whatever raises
\* and however often the daemon restarts (_start_job, _run_job).
THEOREM OneFlowAtATime == LoginSpec => []OneFlow
<1>1. LoginInv => OneFlow
  BY DEF LoginInv
<1> QED
  BY LoginInitInv, LoginNextInv, <1>1, PTL DEF LoginSpec

\* What a flow shows is how its own process ended: the reader waits for the
\* process, and no later exit changes what was shown (_run_job).
THEOREM OutcomeIsTheExit == LoginSpec => []ShowsTheExit
<1>1. LoginInv => ShowsTheExit
  BY DEF LoginInv
<1> QED
  BY LoginInitInv, LoginNextInv, <1>1, PTL DEF LoginSpec
===============================================================================
