----------------------------- MODULE MCDispatch -----------------------------
(***************************************************************************)
(* Instances of Dispatch for TLC.  Two workers, and tasks whose allowed    *)
(* paths overlap in the ways paths_conflict tells apart.                   *)
(***************************************************************************)
EXTENDS DispatchProperties

\* Tasks 1 and 2 work inside one another's directory; task 3 works elsewhere.
NestedPaths == [t \in Task |-> IF t = 1 THEN {<<"src">>}
                               ELSE IF t = 2 THEN {<<"src", "api">>}
                               ELSE {<<"docs">>}]

NoDeps    == [t \in Task |-> {}]
\* Every task waits for the one before it.
Chain     == [t \in Task |-> IF t = 1 THEN {} ELSE {t - 1}]
AllMatch  == Agent \X Task
\* The workers' specialities overlap in task 2.
SomeMatch == {<<a, t>> \in Agent \X Task : t = 2 \/ t = 2 * a - 1}
=============================================================================
