----------------------------- MODULE FileGovernance -----------------------------
(* Archiving duplicate files, restoring them, and executing the batches staged   *)
(* for cloud storage. Plans and manifests are files that all requests share;     *)
(* requests run in worker threads beside each other, beside the users' answers   *)
(* to approvals and beside workers that write to the workspace.                  *)
EXTENDS Approvals

CONSTANTS
  Local,        \* workspace paths, numbered by length and then name
  Cloud,        \* references of crawled items; larger than every local path
  Content,      \* what a file may contain (its hash)
  Start,        \* content of each path at the start, 0 if there is none
  ArchiveOf,    \* archive destination of a path; 0 where the model stops nesting
  Thread,       \* worker threads that serve requests
  Act,          \* what the risk classifier makes of such a request
  MaxRuns,      \* bound: requests
  MaxEdits,     \* bound: writes of workers
  MaxBlockers   \* bound: changes of gates and questions

Path == Local \cup Cloud

ASSUME FileAssumption ==
  /\ Local \subseteq Nat \ {0}
  /\ Cloud \subseteq Nat \ {0}
  /\ \A p \in Local, q \in Cloud : p < q
  /\ Content \subseteq Nat \ {0}
  /\ Start \in [Path -> Content \cup {0}]
  /\ ArchiveOf \in [Path -> Local \cup {0}]
  /\ \A p \in Local : ArchiveOf[p] # 0 => p < ArchiveOf[p] /\ Start[ArchiveOf[p]] = 0
  /\ \A p \in Cloud : ArchiveOf[p] # 0
  /\ IsFiniteSet(Path)
  /\ MaxRuns \in Nat /\ MaxEdits \in Nat /\ MaxBlockers \in Nat

VARIABLES
  fs,           \* workspace files and crawled items
  blockers,     \* what keeps plans from being execution-ready now
  plan,         \* artifacts/file-graph: dry-run plan and restore manifest
  snaps,        \* apply-runs/*/reversible-restore-batch.json in run order
  batches,      \* staged connector batches in run order
  req,          \* what each thread works on
  done,         \* executed moves (history)
  runs, edits, changes   \* counters behind the bounds

fileVars == <<fs, blockers, plan, snaps, batches, req, done, runs, edits, changes>>
allVars == <<approvalVars, fileVars>>

-------------------------------------------------------------------------------
(* A move takes a file from one path to another; a plan lists the moves to the  *)
(* archive under positional ids and the same moves backwards for the restore.   *)
Move == [from : Path, to : Path]

Blocker == {"gate", "question"}

Plan == [moves : SUBSET Move, blockers : SUBSET Blocker]

Holders(files, c) == {p \in Path : files[p] = c}

(* The shortest local path keeps the content.                                   *)
Canonical(files, p) == \A q \in Holders(files, files[p]) : p <= q

(* A mutant: every copy is a duplicate, the first one too.                      *)
PlanOfAllCopies(files, blocking) ==
  [moves |-> {[from |-> p, to |-> ArchiveOf[p]] :
                p \in {q \in Path : /\ files[q] # 0
                                    /\ ArchiveOf[q] # 0
                                    /\ \E r \in Holders(files, files[q]) : r # q}},
   blockers |-> blocking]

(* A mutant: a duplicate nothing can be archived to is planned as well.         *)
PlanOfUnplaced(files, blocking) ==
  [moves |-> {[from |-> p, to |-> ArchiveOf[p]] :
                p \in {q \in Path : files[q] # 0 /\ ~ Canonical(files, q)}},
   blockers |-> blocking]

PlanOf(files, blocking) ==
  [moves |-> {[from |-> p, to |-> ArchiveOf[p]] :
                p \in {q \in Path : /\ files[q] # 0
                                    /\ ArchiveOf[q] # 0
                                    /\ ~ Canonical(files, q)}},
   blockers |-> blocking]

Back(moves) == {[from |-> m.to, to |-> m.from] : m \in moves}

InCloud(m) == {m.from, m.to} \cap Cloud # {}

Idle == [at |-> "idle"]

Lane == {"apply", "restore"}

(* What the requests here ask approvals for.                                    *)
ASSUME RequestAssumption ==
  /\ Lane \subseteq Class
  /\ Wish = [lane : Lane, moves : SUBSET Move]
  /\ Act \in Acts

(* The gate of a batch repeats the blockers it was staged under, and there were *)
(* none: otherwise its request had been refused.                                *)
Batch == [moves : SUBSET Move, lane : Lane, approval : Nat]

(* A thread builds a plan, publishes it, selects moves and looks an approval up,*)
(* asks for one if it must, takes a snapshot, and runs the moves one by one     *)
(* with a check before each.                                                    *)
Work ==
  {Idle}
    \cup [at : {"publish", "load"}, lane : Lane, run : Nat, plan : Plan]
    \cup [at : {"ask", "snapshot", "run"}, lane : Lane, run : Nat, granted : BOOLEAN,
          approval : Nat, todo : SUBSET Move, staged : SUBSET Move]
    \cup [at : {"move"}, lane : Lane, run : Nat, granted : BOOLEAN,
          approval : Nat, todo : SUBSET Move, staged : SUBSET Move, next : Move]

FileTypeOK ==
  /\ ApprovalTypeOK
  /\ fs \in [Path -> Content \cup {0}]
  /\ blockers \in SUBSET Blocker
  /\ plan \in Plan
  /\ snaps \in Seq(Plan)
  /\ batches \in Seq(Batch)
  /\ req \in [Thread -> Work]
  /\ done \in SUBSET [move : Move, run : Nat, approval : Nat, lane : Lane]
  /\ runs \in 0 .. MaxRuns /\ edits \in 0 .. MaxEdits /\ changes \in 0 .. MaxBlockers

FileInit ==
  /\ ApprovalInit
  /\ fs = Start
  /\ blockers = {}
  /\ plan = [moves |-> {}, blockers |-> {}]
  /\ snaps = <<>>
  /\ batches = <<>>
  /\ req = [t \in Thread |-> Idle]
  /\ done = {}
  /\ runs = 0 /\ edits = 0 /\ changes = 0

-------------------------------------------------------------------------------
(* build_file_graph_governance_plan: scan, and write what was found.            *)
Scan(t, lane) ==
  /\ req[t] = Idle
  /\ runs < MaxRuns
  /\ runs' = runs + 1
  /\ req' = [req EXCEPT ![t] = [at |-> "publish", lane |-> lane, run |-> runs + 1,
                                plan |-> PlanOf(fs, blockers)]]
  /\ UNCHANGED <<approvalVars, fs, blockers, plan, snaps, batches, done, edits, changes>>

Publish(t) ==
  /\ req[t].at = "publish"
  /\ plan' = req[t].plan
  /\ req' = [req EXCEPT ![t].at = "load"]
  /\ UNCHANGED <<approvalVars, fs, blockers, snaps, batches, done, runs, edits, changes>>

(* What a request can select from, and what keeps it from running. An apply     *)
(* reads the shared plan, whoever wrote it last, and the blockers of its own; a *)
(* restore reads a snapshot or the shared manifest and asks for the gates of    *)
(* now but for the questions of then.                                           *)
Manifests(lane) == IF lane = "apply" THEN {plan} ELSE {plan} \cup {snaps[i] : i \in DOMAIN snaps}

Offered(lane, manifest) == IF lane = "apply" THEN manifest.moves ELSE Back(manifest.moves)

Blocking(lane, own, manifest) ==
  IF lane = "apply" THEN own.blockers ELSE (own.blockers \ {"question"}) \cup manifest.blockers

(* A mutant: only a denial holds a request up.                                  *)
NotDenied(i) == i \in DOMAIN approvals /\ approvals[i].status # "denied"

Granted(i) == i \in DOMAIN approvals /\ approvals[i].status \in Granting

Abandon(t) == req' = [req EXCEPT ![t] = Idle]

(* The request names an approval, or none: then the newest pending row of its   *)
(* lane is found, if there is one.                                              *)
PendingOf(lane) == {i \in DOMAIN approvals : approvals[i].class = lane /\ approvals[i].status = "pending"}

Newest(rows) == IF rows = {} THEN 0 ELSE CHOOSE i \in rows : \A j \in rows : j <= i

Selected(t, moves, i, at) ==
  [at |-> at, lane |-> req[t].lane, run |-> req[t].run, granted |-> at # "ask" /\ Granted(i),
   approval |-> i, todo |-> moves, staged |-> {}]

Load(t) ==
  /\ req[t].at = "load"
  /\ LET lane == req[t].lane
     IN  \E manifest \in Manifests(lane) :
           IF Offered(lane, manifest) = {} \/ Blocking(lane, req[t].plan, manifest) # {}
           THEN Abandon(t)
           ELSE \E moves \in SUBSET Offered(lane, manifest) \ {{}} :
                  \/ req' = [req EXCEPT ![t] = Selected(t, moves, Newest(PendingOf(lane)), "ask")]
                  \/ \E i \in DOMAIN approvals :
                       req' = [req EXCEPT ![t] = Selected(t, moves, i, "snapshot")]
  /\ UNCHANGED <<approvalVars, fs, blockers, plan, snaps, batches, done, runs, edits, changes>>

(* A row found pending gets the new selection, whatever became of it meanwhile. *)
Asks(t) == [lane |-> req[t].lane, moves |-> req[t].todo]

Ask(t) ==
  /\ req[t].at = "ask"
  /\ LET found == req[t].approval
     IN  \/ /\ found # 0
            /\ approvals' = [approvals EXCEPT ![found].asks = Asks(t)]
            /\ req' = [req EXCEPT ![t].at = "snapshot"]
         \/ /\ found = 0
            /\ CreateApproval(req[t].lane, Asks(t), Act)
            /\ req' = [req EXCEPT ![t] = [@ EXCEPT !.at = "snapshot", !.approval = Len(approvals'),
                                                   !.granted = approvals'[Len(approvals')].status \in Granting]]
  /\ UNCHANGED <<policy, policyChanges, answers, remembered, fs, blockers, plan, snaps, batches,
                 done, runs, edits, changes>>

(* An apply keeps a copy of the shared restore manifest in its run directory,   *)
(* also when it must wait for its approval.                                     *)
Snapshot(t) ==
  /\ req[t].at = "snapshot"
  /\ snaps' = IF req[t].lane = "apply" THEN Append(snaps, plan) ELSE snaps
  /\ IF req[t].granted THEN req' = [req EXCEPT ![t].at = "run"] ELSE Abandon(t)
  /\ UNCHANGED <<approvalVars, fs, blockers, plan, batches, done, runs, edits, changes>>

(* One move: cloud moves are staged; a local one is taken when its source is    *)
(* there and its destination is not.                                            *)
Possible(m) == fs[m.from] # 0 /\ fs[m.to] = 0

Check(t, m) ==
  /\ req[t].at = "run"
  /\ req' = [req EXCEPT ![t] =
       IF InCloud(m) THEN [req[t] EXCEPT !.todo = @ \ {m}, !.staged = @ \cup {m}]
       ELSE IF Possible(m)
       THEN [at |-> "move", lane |-> @.lane, run |-> @.run, granted |-> @.granted,
             approval |-> @.approval, todo |-> @.todo \ {m}, staged |-> @.staged, next |-> m]
       ELSE [req[t] EXCEPT !.todo = @ \ {m}]]
  /\ UNCHANGED <<approvalVars, fs, blockers, plan, snaps, batches, done, runs, edits, changes>>

Executed(m, t) ==
  [move |-> m, run |-> req[t].run, approval |-> req[t].approval, lane |-> req[t].lane]

(* A mutant: a source that has gone is not noticed.                             *)
MoveBlindly(t) ==
  /\ req[t].at = "move"
  /\ LET m == req[t].next
     IN  /\ fs' = [fs EXCEPT ![m.from] = 0, ![m.to] = fs[m.from]]
         /\ done' = done \cup {Executed(m, t)}
         /\ req' = [req EXCEPT ![t] =
              [at |-> "run", lane |-> @.lane, run |-> @.run, granted |-> @.granted,
               approval |-> @.approval, todo |-> @.todo, staged |-> @.staged]]
  /\ UNCHANGED <<approvalVars, blockers, plan, snaps, batches, runs, edits, changes>>

(* shutil.move raises when the source has gone, and replaces a destination that *)
(* has appeared.                                                                *)
MoveFile(t) ==
  /\ req[t].at = "move"
  /\ LET m == req[t].next
     IN  IF fs[m.from] = 0
         THEN Abandon(t) /\ UNCHANGED <<fs, done>>
         ELSE /\ fs' = [fs EXCEPT ![m.from] = 0, ![m.to] = fs[m.from]]
              /\ done' = done \cup {Executed(m, t)}
              /\ req' = [req EXCEPT ![t] =
                   [at |-> "run", lane |-> @.lane, run |-> @.run, granted |-> @.granted,
                    approval |-> @.approval, todo |-> @.todo, staged |-> @.staged]]
  /\ UNCHANGED <<approvalVars, blockers, plan, snaps, batches, runs, edits, changes>>

Finish(t) ==
  /\ req[t].at = "run"
  /\ req[t].todo = {}
  /\ batches' = IF req[t].staged = {} THEN batches
                ELSE Append(batches, [moves |-> req[t].staged, lane |-> req[t].lane,
                                      approval |-> req[t].approval])
  /\ Abandon(t)
  /\ UNCHANGED <<approvalVars, fs, blockers, plan, snaps, done, runs, edits, changes>>

(* execute_file_graph_connector_batch: the approval named, or the one of the    *)
(* batch; the provider completes some of the moves.                             *)
ExecuteBatch(b, i) ==
  /\ runs < MaxRuns
  /\ Granted(i)
  /\ \E completed \in SUBSET batches[b].moves \ {{}} :
       done' = done \cup {[move |-> m, run |-> runs + 1, approval |-> i, lane |-> batches[b].lane] :
                            m \in completed}
  /\ runs' = runs + 1
  /\ UNCHANGED <<approvalVars, fs, blockers, plan, snaps, batches, req, edits, changes>>

-------------------------------------------------------------------------------
(* Around the requests: workers write files, gates and questions come and go,   *)
(* the daemon may end at any step.                                              *)
Edit(p, c) ==
  /\ edits < MaxEdits
  /\ fs[p] # c
  /\ fs' = [fs EXCEPT ![p] = c]
  /\ edits' = edits + 1
  /\ UNCHANGED <<approvalVars, blockers, plan, snaps, batches, req, done, runs, changes>>

ChangeBlocker(x) ==
  /\ changes < MaxBlockers
  /\ blockers' = (blockers \ {x}) \cup ({x} \ blockers)
  /\ changes' = changes + 1
  /\ UNCHANGED <<approvalVars, fs, plan, snaps, batches, req, done, runs, edits>>

Crash ==
  /\ \E t \in Thread : req[t] # Idle
  /\ req' = [t \in Thread |-> Idle]
  /\ answers' = {}
  /\ UNCHANGED <<policy, policyChanges, approvals, remembered, fs, blockers, plan, snaps, batches,
                 done, runs, edits, changes>>

FileStep(t) ==
  \/ \E lane \in Lane : Scan(t, lane)
  \/ Publish(t)
  \/ Load(t)
  \/ Ask(t)
  \/ Snapshot(t)
  \/ req[t].at = "run" /\ \E m \in req[t].todo : Check(t, m)
  \/ MoveFile(t)
  \/ Finish(t)

FileNext ==
  \/ \E t \in Thread : FileStep(t)
  \/ \E b \in DOMAIN batches, i \in DOMAIN approvals : ExecuteBatch(b, i)
  \/ \E p \in Local, c \in Content \cup {0} : Edit(p, c)
  \/ \E x \in Blocker : ChangeBlocker(x)
  \/ Crash
  \/ (ChangePolicy \/ Resolve) /\ UNCHANGED fileVars

FileSpec == FileInit /\ [][FileNext]_allVars

-------------------------------------------------------------------------------
(* As long as no worker writes, the first copy of every content keeps its       *)
(* place: whatever plans, snapshots and approvals requests of several threads   *)
(* work with, archiving and restoring take duplicates only                      *)
(* (build_file_graph_governance_plan, apply, restore).                          *)
KeepsFirstCopy ==
  edits = 0 => \A p \in Path : Start[p] # 0 /\ Canonical(Start, p) => fs[p] = Start[p]

(* ... and no copy gets lost or doubled: a move never replaces a file, although  *)
(* other threads move files between its check and the move itself.               *)
FilesAreKept ==
  edits = 0 => \A c \in Content : Cardinality(Holders(fs, c)) = Cardinality(Holders(Start, c))

(* "Every destructive batch needs a reversible restore manifest before Mission   *)
(* Control gets to act confident about it." (manager.py:22463): whatever an      *)
(* apply moved is listed in the restore manifest of some run. It is not, when    *)
(* another request publishes its plan between Load and Snapshot.                 *)
Reversible ==
  \A e \in done : e.lane = "apply" => \E i \in DOMAIN snaps : e.move \in snaps[i].moves

(* Nothing is moved under an approval nobody has answered, nor under one that    *)
(* the policy denied: between the answer, the look at the row and the move lie   *)
(* steps of other threads.                                                       *)
MovesHaveGrant ==
  \A e \in done : LET row == approvals[e.approval]
                  IN  row.status # "pending" /\ (row.by = "policy" => row.status \in Granting)

(* "Allow this exact action one time." (bridge_messages.py:326): what is moved   *)
(* under an approval for one time is what the approval asked for.                *)
MovesWereAsked ==
  \A e \in done : LET row == approvals[e.approval]
                  IN  row.status = "approved_once"
                        => row.asks.lane = e.lane /\ e.move \in row.asks.moves

(* ... and is moved one time: no second run under the same approval moves it     *)
(* again.                                                                        *)
ApprovalServesOneRun ==
  \A e, f \in done :
    e.approval = f.approval /\ approvals[e.approval].status = "approved_once" => e.run = f.run

(* "Mission Control refuses to restore files when quality gates or pending       *)
(* review questions still say the plan is not execution-ready."                  *)
(* (manager.py:24597): no file goes back while questions have been open since    *)
(* the request began.                                                            *)
RestoreWaitsForQuestions ==
  [][\A t \in Thread :
       req[t].at = "load" /\ req[t].lane = "restore" /\ "question" \in req[t].plan.blockers
         => req'[t].at \in {"load", "idle"}]_allVars
===============================================================================
