------------------------- MODULE ExclusiveAssignment -------------------------
(***************************************************************************)
(* What the scheduler promises about work in progress, whatever callers,   *)
(* races, stops and restarts do: a worker works on one task at a time, a   *)
(* task is worked on by one worker at a time, work starts one pair at a    *)
(* time and, once over, is never silently handed to somebody else.         *)
(***************************************************************************)
CONSTANTS Agent, Task

VARIABLE working   \* the pairs <<agent, task>> in progress

Init == working = {}

Begin(a, t) ==
  /\ \A p \in working : p[1] # a /\ p[2] # t
  /\ working' = working \cup {<<a, t>>}

\* Any amount of work may end at once: a restart ends all of it.
Finish == working' \in SUBSET working

Next == Finish \/ \E a \in Agent, t \in Task : Begin(a, t)

Spec == Init /\ [][Next]_working

\* Nobody does two things and nothing is done twice.
Exclusive ==
  \A p, q \in working : p[1] = q[1] \/ p[2] = q[2] => p = q
=============================================================================
