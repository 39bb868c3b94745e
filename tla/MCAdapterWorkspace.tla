------------------------ MODULE MCAdapterWorkspace ------------------------
EXTENDS AdapterWorkspace

(* Two workers: one owns a source file, the other a test file and a file   *)
(* it may not touch.                                                       *)
WorkersAllowed == [w1 |-> {"code"}, w2 |-> {"tests"}]
WorkersForbidden == [w1 |-> {}, w2 |-> {}]
(* A worker that owns a test file, and a manager turn.                     *)
TurnAllowed == [w1 |-> {"tests"}, turn |-> {}]
TurnForbidden == [w1 |-> {}, turn |-> {}]
====
