---------------------------- MODULE MCFileGovernance ----------------------------
(* Small instances of FileGovernance: files 1 and 2 have the same content, 3 and *)
(* 4 are their archive places, and 5 that of 4, since archived files are scanned *)
(* again; 6 is a crawled item with the same content.                             *)
EXTENDS FileGovernance, TLC

Files == 1 .. 5
NoFiles == {}
OneItem == {6}

FilesStart == [p \in Files |-> IF p <= 2 THEN 1 ELSE 0]
FilesArchive == [p \in Files |-> CASE p = 1 -> 3 [] p = 2 -> 4 [] p = 4 -> 5 [] OTHER -> 0]

MixedStart == [p \in Files \cup OneItem |-> IF p \in {1, 2, 6} THEN 1 ELSE 0]
MixedArchive == [p \in Files \cup OneItem |-> IF p = 6 THEN 5 ELSE FilesArchive[p]]

\* a/b and a__b are both archived as a__b.
ThreeStart == [p \in Files |-> IF p <= 3 THEN 1 ELSE 0]
CollidingArchive == [p \in Files |-> CASE p = 1 -> 5 [] p \in {2, 3} -> 4 [] OTHER -> 0]

WritesFiles == [type |-> "command", signals |-> {"writes"}, words |-> {}, shows |-> "command"]

DefaultPolicy ==
  [write |-> "workspace_write", external |-> "ask", deployment |-> "deny", network |-> "ask",
   destructive |-> "critical_approval", command |-> "ask", tool |-> "ask",
   autoLow |-> FALSE, autoMedium |-> FALSE, highNeedsUser |-> TRUE]

ReadOnlyPolicy == [DefaultPolicy EXCEPT !.write = "read_only"]

OnePolicy == {DefaultPolicy}
TwoPolicies == {DefaultPolicy, ReadOnlyPolicy}
OneAct == {WritesFiles}

Threads == Permutations(Thread)

(* A bound on what happens in all: runs begun, edits and changes outside.        *)
Budget == runs + edits + changes <= 3

AnyWish == [lane : Lane, moves : SUBSET Move]
===============================================================================
