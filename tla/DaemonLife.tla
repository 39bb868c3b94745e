------------------------------- MODULE DaemonLife -------------------------------
(* The daemon's process: its main thread, the listener guard beside it, requests *)
(* for its identity, and the metadata file all of them write.                    *)
EXTENDS Integers

CONSTANTS
  Threshold,    \* LISTENER_GUARD_FAILURE_THRESHOLD
  MinOutage,    \* LISTENER_GUARD_MIN_OUTAGE_SECONDS
  Interval,     \* what a sleep between probes takes, in the same unit
  Jitter,       \* what probes and sleeps may take longer
  MaxFlips      \* bound: times the listener fails or recovers

ASSUME DaemonAssumption ==
  /\ Threshold \in Nat \ {0}
  /\ MinOutage \in Nat
  /\ Interval \in Nat \ {0}
  /\ Jitter \in Nat
  /\ MaxFlips \in Nat

VARIABLES
  listener,     \* a probe of the port would be answered
  flips,
  guard,        \* where the guard thread is
  misses,       \* consecutive_failures
  outage,       \* time since outage_started_at; -1 while there is none
  main,         \* where the main thread is
  shouldExit,   \* server.should_exit
  lost,         \* listener_failure_event
  metadata,     \* daemon.json: status, and whether it names this process
  identity,     \* a request for the identity found the metadata wrong
  other,        \* another daemon started by mistake on the same port
  exit,         \* how the process ended
  quiet         \* history: failed probes since the last good one, and their span

guardVars == <<guard, misses, outage, quiet>>
mainVars == <<main, shouldExit, lost, exit>>
vars == <<listener, flips, guardVars, mainVars, metadata, identity, other>>

Says(status) == [status |-> status, own |-> TRUE]

DaemonTypeOK ==
  /\ listener \in BOOLEAN
  /\ flips \in 0 .. MaxFlips
  /\ guard \in {"watch", "probe", "sleep", "fail", "mark", "signal", "exit", "gone"}
  /\ misses \in 0 .. Threshold
  /\ outage \in -1 .. MinOutage
  /\ main \in {"starting", "serving", "closing", "closed", "returned", "joining"}
  /\ shouldExit \in BOOLEAN /\ lost \in BOOLEAN /\ identity \in BOOLEAN
  /\ metadata \in [status : {"starting", "ok", "failed", "stopped"}, own : BOOLEAN]
  /\ other \in {"none", "starting", "up", "refused", "down"}
  /\ exit \in {"no", "stopped", "error", "killed"}
  /\ quiet \in [probes : 0 .. Threshold, span : 0 .. MinOutage]

(* main() up to server.run(): the guard starts before the server does.           *)
Init ==
  /\ listener = TRUE /\ flips = 0
  /\ guard = "watch" /\ misses = 0 /\ outage = -1
  /\ main = "starting"
  /\ shouldExit = FALSE /\ lost = FALSE
  /\ metadata = Says("starting")
  /\ identity = FALSE
  /\ other = "none"
  /\ exit = "no"
  /\ quiet = [probes |-> 0, span |-> 0]

AtMost(a, b) == IF a <= b THEN a ELSE b

Running == exit = "no"

-------------------------------------------------------------------------------
(* _listener_guard: look at the flags, probe, and act or sleep.                  *)
Watch ==
  /\ guard = "watch"
  /\ guard' = IF shouldExit \/ main = "joining" THEN "gone"
              ELSE IF main = "starting" THEN "sleep" ELSE "probe"
  /\ UNCHANGED <<listener, flips, misses, outage, quiet, mainVars, metadata, identity, other>>

Healthy == listener /\ main = "serving"

LongEnough(failed, since) == failed >= Threshold /\ since >= MinOutage

(* Mutants: a recovery that keeps the old outage, or only lowers the count; an   *)
(* outage that starts anew with every miss.                                      *)
KeepsOutage == misses' = 0 /\ outage' = outage

CountsDown == misses' = misses - 1 /\ outage' = -1

OutageSinceMiss == 0

Recovered == misses' = 0 /\ outage' = -1

OutageSince == IF outage = -1 THEN 0 ELSE outage

Probe ==
  /\ guard = "probe"
  /\ IF Healthy
     THEN /\ Recovered
          /\ guard' = "sleep"
          /\ quiet' = [probes |-> 0, span |-> 0]
     ELSE /\ misses' = AtMost(misses + 1, Threshold)
          /\ outage' = OutageSince
          /\ guard' = IF LongEnough(misses', outage') THEN "fail" ELSE "sleep"
          /\ quiet' = [quiet EXCEPT !.probes = AtMost(@ + 1, Threshold)]
  /\ UNCHANGED <<listener, flips, mainVars, metadata, identity, other>>

Sleep ==
  /\ guard = "sleep"
  /\ guard' = "watch"
  /\ \E time \in Interval .. Interval + Jitter :
       /\ outage' = IF outage = -1 THEN outage ELSE AtMost(outage + time, MinOutage)
       /\ quiet' = IF quiet.probes = 0 THEN quiet
                   ELSE [quiet EXCEPT !.span = AtMost(@ + time, MinOutage)]
  /\ UNCHANGED <<listener, flips, misses, mainVars, metadata, identity, other>>

(* The end: event, metadata, flag, a quarter of a second, os._exit(1).           *)
Fail ==
  /\ guard = "fail" /\ guard' = "mark"
  /\ lost' = TRUE
  /\ UNCHANGED <<listener, flips, misses, outage, quiet, main, shouldExit, exit, metadata, identity, other>>

Mark ==
  /\ guard = "mark" /\ guard' = "signal"
  /\ metadata' = Says("failed")
  /\ UNCHANGED <<listener, flips, misses, outage, quiet, mainVars, identity, other>>

Signal ==
  /\ guard = "signal" /\ guard' = "exit"
  /\ shouldExit' = TRUE
  /\ UNCHANGED <<listener, flips, misses, outage, quiet, main, lost, exit, metadata, identity, other>>

Kill ==
  /\ guard = "exit" /\ guard' = "gone"
  /\ exit' = "killed"
  /\ UNCHANGED <<listener, flips, misses, outage, quiet, main, shouldExit, lost, metadata, identity, other>>

Guard == Running /\ (Watch \/ Probe \/ Sleep \/ Fail \/ Mark \/ Signal \/ Kill)

-------------------------------------------------------------------------------
(* The main thread: uvicorn with the application's lifespan, then the report of  *)
(* main(). Uvicorn waits for requests in progress before the lifespan ends.      *)
Start ==
  /\ main = "starting"
  /\ \/ main' = "serving" /\ metadata' = Says("ok") /\ UNCHANGED shouldExit
     \/ main' = "returned" /\ shouldExit' = TRUE /\ UNCHANGED metadata   \* the lifespan fails
  /\ UNCHANGED <<listener, flips, guardVars, lost, exit, identity, other>>

UserStop ==
  /\ main = "serving"
  /\ ~ shouldExit
  /\ shouldExit' = TRUE
  /\ UNCHANGED <<listener, flips, guardVars, main, lost, exit, metadata, identity, other>>

Close ==
  /\ main = "serving" /\ shouldExit
  /\ main' = "closing"
  /\ UNCHANGED <<listener, flips, guardVars, shouldExit, lost, exit, metadata, identity, other>>

(* Mutant: the lifespan ends under requests in progress.                         *)
NoDrain == TRUE

RequestsDone == ~ identity

EndLifespan ==
  /\ main = "closing"
  /\ RequestsDone
  /\ main' = "closed"
  /\ metadata' = Says("stopped")
  /\ UNCHANGED <<listener, flips, guardVars, shouldExit, lost, exit, identity, other>>

Return ==
  /\ main = "closed"
  /\ main' = "returned"
  /\ UNCHANGED <<listener, flips, guardVars, shouldExit, lost, exit, metadata, identity, other>>

Report ==
  /\ main = "returned"
  /\ main' = "joining"
  /\ metadata' = Says(IF lost THEN "failed" ELSE "stopped")
  /\ UNCHANGED <<listener, flips, guardVars, shouldExit, lost, exit, identity, other>>

(* guard.join(timeout=1.0): a guard on its way to os._exit needs less than that. *)
JoinEnds == guard \notin {"fail", "mark", "signal", "exit"}

Leave ==
  /\ main = "joining"
  /\ JoinEnds
  /\ exit' = IF lost THEN "error" ELSE "stopped"
  /\ UNCHANGED <<listener, flips, guardVars, main, shouldExit, lost, metadata, identity, other>>

Main == Running /\ (Start \/ UserStop \/ Close \/ EndLifespan \/ Return \/ Report \/ Leave)

-------------------------------------------------------------------------------
(* daemon_identity_snapshot: reads the metadata, and writes it when it is wrong. *)
(* Mutant: only the status is compared.                                          *)
WrongStatus == metadata.status # "ok"

Wrong == metadata # Says("ok")

AskIdentity ==
  /\ Running /\ main = "serving" /\ listener
  /\ ~ identity /\ Wrong
  /\ identity' = TRUE
  /\ UNCHANGED <<listener, flips, guardVars, mainVars, metadata, other>>

AnswerIdentity ==
  /\ Running /\ identity
  /\ identity' = FALSE
  /\ metadata' = Says("ok")
  /\ UNCHANGED <<listener, flips, guardVars, mainVars, other>>

(* A second daemon announces itself, and its application, before it finds the    *)
(* port taken; its farewell may come late.                                       *)
OtherDaemon ==
  \/ /\ main = "serving"
     /\ \/ other = "none" /\ other' = "starting" /\ metadata' = [status |-> "starting", own |-> FALSE]
        \/ other = "starting" /\ other' = "up" /\ metadata' = [status |-> "ok", own |-> FALSE]
        \/ other = "up" /\ other' = "refused" /\ UNCHANGED metadata
     /\ UNCHANGED <<listener, flips, guardVars, mainVars, identity>>
  \/ /\ other = "refused" /\ other' = "down"
     /\ metadata' = [status |-> "stopped", own |-> FALSE]
     /\ UNCHANGED <<listener, flips, guardVars, mainVars, identity>>

Flip ==
  /\ flips < MaxFlips
  /\ flips' = flips + 1
  /\ listener' = ~ listener
  /\ UNCHANGED <<guardVars, mainVars, metadata, identity, other>>

Next == Guard \/ Main \/ AskIdentity \/ AnswerIdentity \/ OtherDaemon \/ Flip

Spec == Init /\ [][Next]_vars

(* The guard thread runs, and so do requests and what is left of main() once     *)
(* uvicorn has returned; uvicorn itself may hang for ever.                       *)
FairSpec ==
  /\ Spec
  /\ WF_vars(Guard) /\ WF_vars(Running /\ (Report \/ Leave))
  /\ WF_vars(AskIdentity) /\ WF_vars(AnswerIdentity)

-------------------------------------------------------------------------------
(* The guard condemns the daemon only after enough failed probes in a row that   *)
(* span the minimal outage: a recovery in between starts both anew               *)
(* (_listener_guard; the test of transient failures).                            *)
GuardIsPatient == guard = "fail" => quiet = [probes |-> Threshold, span |-> MinOutage]

(* A stop the user asked for is remembered as one: whatever identity requests,   *)
(* guard and farewells write, the last word of a process that ends by itself is  *)
(* "stopped" (main, lifespan).                                                   *)
CleanExitIsRecorded == exit = "stopped" => metadata.status = "stopped"

(* When the listener is lost for good, the process ends, even when the main      *)
(* thread hangs: the guard does not need it.                                     *)
LostListenerEndsDaemon == []<>(main = "starting" \/ ~ Running \/ shouldExit \/ Healthy)

(* Clients find a serving daemon: after a second daemon has overwritten the      *)
(* metadata, it names the living one again as soon as somebody asks              *)
(* (daemon_identity_snapshot).                                                   *)
MetadataIsRepaired == []<>(~ Running \/ main # "serving" \/ ~ listener \/ shouldExit \/ metadata = Says("ok"))

(* updates[0]["status"] == "failed" (test_runtime_reliability.py:305): a daemon   *)
(* the guard has killed is on record as failed.                                  *)
FailureIsRecorded == exit = "killed" /\ other = "none" => metadata.status = "failed"
===============================================================================
