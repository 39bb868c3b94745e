---- MODULE RunnerSession ----
(***************************************************************************)
(* One run of the Codex CLI runner: the process, the tasks that read its   *)
(* output (cli_runner.py), and the one client that polls the run: the run  *)
(* monitor of a worker (_monitor_run) or a manager turn                    *)
(* (run_manager_turn).  read_events and get_status never suspend, so a     *)
(* poll sees the events and the status of the same instant.                *)
(***************************************************************************)
EXTENDS Naturals, Sequences

CONSTANTS MaxLines,     \* bound: lines the process writes
          MaxAttempts   \* attempts of _finalize_run_with_retry

ASSUME SessionConstants == MaxLines \in Nat /\ MaxAttempts \in Nat \ {0}

(* A line of the event stream: turn.started, an agent message without and  *)
(* with a structured result, turn.completed, and turn.failed or error.     *)
Line == {"started", "note", "result", "completed", "failed"}
Structured == {"result", "failure"}      \* "failure": the synthetic envelope
Terminal == {"done", "error", "stopped"}

VARIABLES proc,      \* the process: running or not, exit code, lines written
          session,   \* CliRunState: status, events, cursor, consumed
          read,      \* lines the reader task took from the pipe
          client     \* the poller: kind, phase, verdict, payload, attempt
vars == <<proc, session, read, client>>

Has(lines, kinds) == \E i \in DOMAIN lines : lines[i] \in kinds
Newest(lines, kinds, old) ==
    IF Has(lines, kinds)
    THEN lines[CHOOSE i \in DOMAIN lines :
                 /\ lines[i] \in kinds
                 /\ \A j \in DOMAIN lines : j > i => lines[j] \notin kinds]
    ELSE old

(* state.process is dropped when the run has been consumed. *)
HasProcess == ~session.consumed
Eof == ~proc.running /\ read = Len(proc.wrote)

(***************************************************************************)
(* The process.                                                            *)
(***************************************************************************)
Write(line) ==
    /\ proc.running /\ Len(proc.wrote) < MaxLines
    /\ line # "started" => Has(proc.wrote, {"started"})
    /\ proc' = [proc EXCEPT !.wrote = Append(@, line)]
    /\ UNCHANGED <<session, read, client>>

Exit(code) ==
    /\ proc.running
    /\ proc' = [proc EXCEPT !.running = FALSE, !.code = code]
    /\ UNCHANGED <<session, read, client>>

(***************************************************************************)
(* _handle_stdout_event over the lines of one chunk, in order.             *)
(***************************************************************************)
DoneOnCompleted(status, line) ==           \* slip: terminal at turn.completed
    CASE line = "started" -> "working" [] line = "completed" -> "done"
      [] line = "failed" -> "error" [] OTHER -> status
AfterLine(status, line) ==
    CASE line \in {"started", "completed"} -> "working"
      [] line = "failed" -> "error"
      [] OTHER -> status

(* Of a chunk the last line that says something about the turn counts.     *)
Turning == {"started", "completed", "failed"}
AfterLines(status, lines) ==
    IF Has(lines, Turning) THEN AfterLine(status, Newest(lines, Turning, "none")) ELSE status

ReadChunk ==
    /\ ~session.consumed
    /\ \E upto \in (read + 1) .. Len(proc.wrote) :
         LET chunk == SubSeq(proc.wrote, read + 1, upto)
         IN /\ session' = [session EXCEPT
                  !.status = AfterLines(@, chunk),
                  !.events = @ \o chunk]
            /\ read' = upto
    /\ UNCHANGED <<proc, client>>

(***************************************************************************)
(* The end of _consume_process, after the pipes closed and wait returned:  *)
(* no await in it, so it is one step.                                      *)
(***************************************************************************)
OnlyStartingFails(status, structured, code) ==   \* slip: the last test missing
    CASE status = "starting" -> (IF code = 0 THEN "done" ELSE "error")
      [] code = 0 /\ status = "working" /\ structured -> "done"
      [] OTHER -> status
ExitStatus(status, structured, code) ==
    CASE code # 0 /\ status # "stopped" -> "error"
      [] code = 0 /\ status = "starting" -> "done"
      [] code = 0 /\ status = "working" /\ structured -> "done"
      [] OTHER -> status

UnlessReported(status, structured) ==      \* slip: trusts the CLI's own error line
    IF status # "done" /\ ~structured /\ ~Has(session.events, {"failed"})
    THEN <<"failure">> ELSE <<>>
Synthetic(status, structured) ==
    IF status # "done" /\ ~structured THEN <<"failure">> ELSE <<>>

Reap ==
    /\ Eof /\ ~session.consumed
    /\ LET structured == Has(session.events, Structured)
           status == ExitStatus(session.status, structured, proc.code)
       IN session' = [session EXCEPT !.status = status, !.consumed = TRUE,
                                     !.events = @ \o Synthetic(status, structured)]
    /\ UNCHANGED <<proc, read, client>>

(* stop_run: the process is told to end; what it then exits with, and when,*)
(* is its own affair.                                                      *)
Stopped(s) == IF HasProcess THEN [s EXCEPT !.status = "stopped"] ELSE s
Signalled(p) == IF HasProcess THEN [p EXCEPT !.signal = TRUE] ELSE p

(***************************************************************************)
(* The run monitor.  What is polled is consumed whatever becomes of the    *)
(* transaction that stores it; an exception in it ends in                  *)
(* _handle_monitor_failure, which rejects the run.                         *)
(***************************************************************************)
Fresh == SubSeq(session.events, session.cursor + 1, Len(session.events))
PastTheEnd == [session EXCEPT !.cursor = @ + Len(Fresh) + 1]  \* slip
Drained == [session EXCEPT !.cursor = Len(session.events)]

Poll ==
    /\ client.kind = "monitor" /\ client.phase = "polling"
    /\ session' = Drained
    /\ client' = [client EXCEPT
         !.payload = Newest(Fresh, Structured, @),
         !.verdict = IF session.status \in Terminal THEN session.status ELSE @,
         !.phase = IF session.status \in Terminal THEN "finalizing" ELSE @]
    /\ UNCHANGED <<proc, read>>

PollFails ==
    /\ client.kind = "monitor" /\ client.phase = "polling"
    /\ session' = Drained
    /\ client' = [client EXCEPT !.phase = "failing"]
    /\ UNCHANGED <<proc, read>>

(* A payload no poll brought is looked for in the event log, which is      *)
(* written when the run has been consumed.                                 *)
Recovered ==
    IF client.payload = "none" /\ session.consumed
    THEN Newest(session.events, Structured, "none") ELSE client.payload

Finalize ==
    /\ client.phase = "finalizing"
    /\ client' = [client EXCEPT !.phase = "finished", !.payload = Recovered]
    /\ UNCHANGED <<proc, session, read>>

FinalizeLocked ==
    /\ client.phase = "finalizing"
    /\ client' = IF client.attempt < MaxAttempts - 1
                 THEN [client EXCEPT !.attempt = @ + 1]
                 ELSE [client EXCEPT !.phase = "failing"]
    /\ UNCHANGED <<proc, session, read>>

MonitorFailure ==
    /\ client.phase = "failing"
    /\ client' = [client EXCEPT !.phase = "finished", !.verdict = "rejected"]
    /\ UNCHANGED <<proc, session, read>>

(* stop_agent and pause_agent stop the run and finish its row; a task the  *)
(* user completes finishes the row only.  The monitor then leaves.         *)
StopAgent ==
    /\ client.kind = "monitor" /\ client.phase # "finished"
    /\ session' = Stopped(session) /\ proc' = Signalled(proc)
    /\ client' = [client EXCEPT !.phase = "finished", !.verdict = "stopped by user"]
    /\ UNCHANGED read

CompleteTaskByUser ==
    /\ client.kind = "monitor" /\ client.phase # "finished"
    /\ client' = [client EXCEPT !.phase = "finished", !.verdict = "stopped by user"]
    /\ UNCHANGED <<proc, session, read>>

(***************************************************************************)
(* run_manager_turn: the last message it saw is the answer.  Its own       *)
(* deadline stops the run; the wait_for around it in the manager cancels   *)
(* the turn wherever it sleeps.                                            *)
(***************************************************************************)
Answer == Newest(Fresh, Structured \union {"note"}, client.payload)

PollTurn ==
    /\ client.kind = "turn" /\ client.phase = "polling"
    /\ session' = Drained
    /\ client' = IF session.status \in Terminal
                 THEN [client EXCEPT !.payload = Answer, !.phase = "finished",
                                     !.verdict = session.status]
                 ELSE [client EXCEPT !.payload = Answer]
    /\ UNCHANGED <<proc, read>>

Deadline ==
    /\ client.kind = "turn" /\ client.phase = "polling"
    /\ session.status \notin Terminal
    /\ session' = Stopped(Drained) /\ proc' = Signalled(proc)
    /\ client' = [client EXCEPT !.payload = Answer, !.phase = "finished",
                                !.verdict = "timeout"]
    /\ UNCHANGED read

TurnCancelled ==
    /\ client.kind = "turn" /\ client.phase = "polling"
    /\ client' = [client EXCEPT !.verdict = "timeout", !.phase = "finished"]
    /\ UNCHANGED <<proc, session, read>>

Init ==
    /\ proc = [running |-> TRUE, code |-> 0, wrote |-> <<>>, signal |-> FALSE]
    /\ session = [status |-> "starting", events |-> <<>>, cursor |-> 0,
                  consumed |-> FALSE]
    /\ read = 0
    /\ \E kind \in {"monitor", "turn"} :
         client = [kind |-> kind, phase |-> "polling", verdict |-> "none",
                   payload |-> "none", attempt |-> 0]

Process == (\E line \in Line : Write(line)) \/ (\E code \in {0, 1} : Exit(code))
Client == Poll \/ PollTurn \/ Deadline \/ Finalize \/ FinalizeLocked \/ MonitorFailure
Next == Process \/ ReadChunk \/ Reap \/ Client \/ PollFails \/ TurnCancelled
        \/ StopAgent \/ CompleteTaskByUser

(* The event loop runs the reader and the client again and again, and the  *)
(* deadline of a turn comes.  Nothing makes the process write or exit, and *)
(* nothing makes a transaction fail or a turn be cancelled.                *)
Spec == Init /\ [][Next]_vars
FairSpec == Spec /\ WF_vars(ReadChunk) /\ WF_vars(Reap) /\ WF_vars(Client)

(***************************************************************************)
(* Properties.                                                             *)
(***************************************************************************)
SessionTypeOK ==
    /\ proc \in [running : BOOLEAN, code : {0, 1}, signal : BOOLEAN, wrote : Seq(Line)]
    /\ Len(proc.wrote) <= MaxLines
    /\ session \in [status : Terminal \union {"starting", "working"}, consumed : BOOLEAN,
                    cursor : Nat, events : Seq(Line \union {"failure"})]
    /\ read \in 0 .. Len(proc.wrote) /\ session.cursor <= Len(session.events)
    /\ client \in [kind : {"monitor", "turn"},
                   phase : {"polling", "finalizing", "failing", "finished"},
                   verdict : Terminal \union {"none", "rejected", "timeout", "stopped by user"},
                   payload : Structured \union {"none", "note"},
                   attempt : 0 .. MaxAttempts - 1]

(* A run that is finished as done has been read to its end: every line its *)
(* process wrote was ingested, and when a turn began, the newest           *)
(* structured result of those lines is the one that counts.  The readers   *)
(* race the monitor, and turn.completed is written before the last message *)
(* (cli_runner.py _handle_stdout_event).                                   *)
DoneIsComplete ==
    client.phase = "finished" /\ client.verdict = "done" =>
        /\ session.events = proc.wrote /\ session.cursor = Len(proc.wrote)
        /\ client.kind = "monitor" /\ Has(proc.wrote, {"started"})
             => client.payload = "result"
        /\ client.kind = "turn" =>
             client.payload = Newest(proc.wrote, Structured \union {"note"}, "none")

(* A run that ended by itself and is finished as an error carries a        *)
(* structured payload, at least the synthetic failure envelope, when the   *)
(* monitor polled after its end: the reason is never lost.                 *)
FailureIsExplained ==
    client.phase = "finished" /\ client.kind = "monitor" /\ client.verdict = "error"
    /\ session.consumed /\ session.cursor = Len(session.events)
        => client.payload \in Structured

(* A process that fails, or that exits with a structured result written,   *)
(* has its run finished at last, whatever it wrote before and whatever     *)
(* locks the database.                                                     *)
ExitIsNoticed ==
    (~proc.running /\ (proc.code # 0 \/ Has(proc.wrote, {"result"})))
        ~> client.phase = "finished"

(* Violated: the comment in _consume_process says a clean exit is promoted *)
(* to done instead of leaving the worker stuck busy.  A clean exit without *)
(* a structured result leaves the run working.                             *)
ExitFinishesRun == ~proc.running ~> client.phase = "finished"

(* Violated: a manager turn that timed out has stopped its run.  The       *)
(* wait_for around the turn cancels it without stop_run.                   *)
TimedOutTurnIsStopped ==
    client.verdict = "timeout" => proc.signal \/ session.consumed
====
