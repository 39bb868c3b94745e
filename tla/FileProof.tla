------------------------------ MODULE FileProof ------------------------------
(* Proofs for any workspace, contents, threads and policies: requests and      *)
(* manifests are well typed, nothing moves without a grant and, as long as no  *)
(* worker writes and archive names do not collide, first copies stay in place  *)
(* and no move replaces a file.                                                *)
EXTENDS FileGovernance, ApprovalsProof, FiniteSetTheorems

-------------------------------------------------------------------------------
(* Plans and work *)

LEMMA BackMoves ==
  ASSUME NEW moves \in SUBSET Move
  PROVE  Back(moves) \in SUBSET Move
BY DEF Back, Move

LEMMA PlanType ==
  ASSUME NEW files \in [Path -> Content \cup {0}], NEW blocking \in SUBSET Blocker
  PROVE  PlanOf(files, blocking) \in Plan
<1>1. \A q \in Path : ArchiveOf[q] # 0 => [from |-> q, to |-> ArchiveOf[q]] \in Move
  BY FileAssumption DEF Move, Path
<1> QED
  BY <1>1 DEF PlanOf, Plan

\* What is offered are moves, and a selection is work for the next step.
LEMMA OfferedMoves ==
  ASSUME NEW manifest \in Plan, NEW lane
  PROVE  Offered(lane, manifest) \in SUBSET Move
BY BackMoves DEF Offered, Plan

LEMMA ManifestType ==
  ASSUME plan \in Plan, snaps \in Seq(Plan), NEW lane, NEW manifest \in Manifests(lane)
  PROVE  manifest \in Plan
BY DEF Manifests

\* The stages of a request and what it holds there.
Planning(w) ==
  w \in [at : {"publish", "load"}, lane : Lane, run : Nat, plan : Plan]

Selecting(w) ==
  w \in [at : {"ask", "snapshot", "run"}, lane : Lane, run : Nat, granted : BOOLEAN,
         approval : Nat, todo : SUBSET Move, staged : SUBSET Move]

Moving(w) ==
  w \in [at : {"move"}, lane : Lane, run : Nat, granted : BOOLEAN,
         approval : Nat, todo : SUBSET Move, staged : SUBSET Move, next : Move]

LEMMA Stages ==
  ASSUME NEW w \in Work
  PROVE  /\ w.at \in {"idle", "publish", "load", "ask", "snapshot", "run", "move"}
         /\ w.at \in {"publish", "load"} => Planning(w)
         /\ w.at \in {"ask", "snapshot", "run"} => Selecting(w)
         /\ w.at = "move" => Moving(w)
         /\ w.at = "idle" => w = Idle
<1>1. w = Idle \/ Planning(w) \/ Selecting(w) \/ Moving(w)
  BY DEF Work, Planning, Selecting, Moving
<1>2. Idle.at = "idle"
  BY DEF Idle
<1>3. Planning(w) => w.at \in {"publish", "load"}
  BY DEF Planning
<1>4. Selecting(w) => w.at \in {"ask", "snapshot", "run"}
  BY DEF Selecting
<1>5. Moving(w) => w.at = "move"
  BY DEF Moving
<1> QED
  BY <1>1, <1>2, <1>3, <1>4, <1>5

LEMMA StagesAreWork ==
  ASSUME NEW w
  PROVE  Planning(w) \/ Selecting(w) \/ Moving(w) \/ w = Idle => w \in Work
BY DEF Work, Planning, Selecting, Moving

LEMMA WorkWrite ==
  ASSUME req \in [Thread -> Work], NEW t \in Thread, NEW w \in Work,
         req' = [req EXCEPT ![t] = w]
  PROVE  /\ req' \in [Thread -> Work]
         /\ req'[t] = w
         /\ \A u \in Thread : u # t => req'[u] = req[u]
OBVIOUS

\* Giving a request up.
LEMMA AbandonType ==
  ASSUME req \in [Thread -> Work], NEW t \in Thread, Abandon(t)
  PROVE  /\ req' \in [Thread -> Work]
         /\ req'[t] = Idle
         /\ \A u \in Thread : u # t => req'[u] = req[u]
BY StagesAreWork, WorkWrite DEF Abandon

-------------------------------------------------------------------------------
(* What each step of a request writes *)

LEMMA ScanFacts ==
  ASSUME FileTypeOK, NEW t \in Thread, NEW lane \in Lane, Scan(t, lane)
  PROVE  FileTypeOK' /\ req'[t].at = "publish" /\ req'[t].plan = PlanOf(fs, blockers)
<1> DEFINE w == [at |-> "publish", lane |-> lane, run |-> runs + 1, plan |-> PlanOf(fs, blockers)]
<1>1. PlanOf(fs, blockers) \in Plan
  BY PlanType DEF FileTypeOK
<1>2. runs' \in 0 .. MaxRuns /\ runs + 1 \in Nat
  BY FileAssumption DEF Scan, FileTypeOK
<1>3. w.at = "publish" /\ w.plan = PlanOf(fs, blockers) /\ Planning(w)
  BY <1>1, <1>2 DEF Planning
<1>4. req' = [req EXCEPT ![t] = w]
  BY DEF Scan
<1> HIDE DEF w
<1>5. req' \in [Thread -> Work] /\ req'[t] = w
  BY <1>3, <1>4, StagesAreWork, WorkWrite DEF FileTypeOK
<1> QED
  BY <1>2, <1>3, <1>5 DEF Scan, FileTypeOK, ApprovalTypeOK, approvalVars

LEMMA PublishFacts ==
  ASSUME FileTypeOK, NEW t \in Thread, Publish(t)
  PROVE  FileTypeOK' /\ req'[t].at = "load" /\ plan' = req[t].plan
<1> DEFINE w == [req[t] EXCEPT !.at = "load"]
<1>1. Planning(req[t])
  BY Stages DEF Publish, FileTypeOK
<1>2. Planning(w) /\ w.at = "load" /\ req[t].plan \in Plan
  BY <1>1 DEF Planning
<1>3. req' = [req EXCEPT ![t] = w]
  BY DEF Publish
<1> HIDE DEF w
<1>4. req' \in [Thread -> Work] /\ req'[t] = w
  BY <1>2, <1>3, StagesAreWork, WorkWrite DEF FileTypeOK
<1> QED
  BY <1>2, <1>4 DEF Publish, FileTypeOK, ApprovalTypeOK, approvalVars

LEMMA NewestType ==
  ASSUME NEW n \in Nat, NEW rows \in SUBSET (1 .. n)
  PROVE  Newest(rows) \in 0 .. n
<1>1. CASE rows = {}
  BY <1>1 DEF Newest
<1>2. CASE rows # {}
  <2>1. \E i \in rows : \A j \in rows : j <= i
    BY <1>2, NewestExists
  <2>2. Newest(rows) \in rows
    BY <1>2, <2>1 DEF Newest
  <2>3. Newest(rows) \in 1 .. n
    BY <2>2
  <2> QED
    BY <2>3
<1> QED
  BY <1>1, <1>2

\* A request gives up, or selects from a manifest; one that looks an approval
\* up is not granted yet, one that names an approval is if the row says so.
LEMMA LoadFacts ==
  ASSUME FileTypeOK, NEW t \in Thread, Load(t)
  PROVE  /\ FileTypeOK'
         /\ req[t].lane \in Lane
         /\ \/ req'[t] = Idle
            \/ \E manifest \in Manifests(req[t].lane) :
                 /\ req'[t].todo \subseteq Offered(req[t].lane, manifest)
                 /\ \/ req'[t].at = "ask" /\ ~ req'[t].granted
                    \/ /\ req'[t].at = "snapshot" /\ req'[t].approval \in DOMAIN approvals
                       /\ req'[t].granted = Granted(req'[t].approval)
<1> DEFINE lane == req[t].lane
           Chosen(moves) == Selected(t, moves, Newest(PendingOf(lane)), "ask")
           Named(moves, i) == Selected(t, moves, i, "snapshot")
<1>1. Planning(req[t]) /\ req \in [Thread -> Work]
  BY Stages DEF Load, FileTypeOK
<1>2. lane \in Lane /\ req[t].run \in Nat
  BY <1>1 DEF Planning
<1>3. PICK manifest \in Manifests(lane) :
        \/ Abandon(t)
        \/ \E moves \in SUBSET Offered(lane, manifest) \ {{}} :
             \/ req' = [req EXCEPT ![t] = Chosen(moves)]
             \/ \E i \in DOMAIN approvals : req' = [req EXCEPT ![t] = Named(moves, i)]
  BY DEF Load
<1>4. manifest \in Plan
  BY ManifestType DEF FileTypeOK
<1>5. approvals \in Seq(Row) /\ Len(approvals) \in Nat /\ DOMAIN approvals = 1 .. Len(approvals)
  BY DEF FileTypeOK, ApprovalTypeOK
<1>6. UNCHANGED <<approvalVars, fs, blockers, plan, snaps, batches, done, runs, edits, changes>>
  BY DEF Load
<1>7. req' \in [Thread -> Work] => FileTypeOK'
  BY <1>6 DEF FileTypeOK, ApprovalTypeOK, approvalVars
<1>8. CASE Abandon(t)
  BY <1>1, <1>2, <1>7, <1>8, AbandonType
<1>9. ASSUME NEW moves \in SUBSET Offered(lane, manifest), req' = [req EXCEPT ![t] = Chosen(moves)]
      PROVE  /\ FileTypeOK' /\ req'[t].todo = moves
             /\ req'[t].at = "ask" /\ ~ req'[t].granted
  <2> DEFINE w == Chosen(moves)
  <2>1. moves \in SUBSET Move
    BY <1>4, OfferedMoves
  <2>2. PendingOf(lane) \in SUBSET (1 .. Len(approvals))
    BY <1>5 DEF PendingOf
  <2>3. Newest(PendingOf(lane)) \in 0 .. Len(approvals)
    BY <1>5, <2>2, NewestType
  <2>4. Newest(PendingOf(lane)) \in Nat
    BY <1>5, <2>3
  <2>5. Selecting(w) /\ w.todo = moves /\ w.at = "ask" /\ ~ w.granted
    BY <1>2, <2>1, <2>4 DEF Selected, Selecting
  <2> HIDE DEF w
  <2>6. req' \in [Thread -> Work] /\ req'[t] = w
    BY <1>1, <1>9, <2>5, StagesAreWork, WorkWrite DEF w
  <2> QED
    BY <1>7, <2>5, <2>6
<1>10. ASSUME NEW moves \in SUBSET Offered(lane, manifest), NEW i \in DOMAIN approvals,
              req' = [req EXCEPT ![t] = Named(moves, i)]
       PROVE  /\ FileTypeOK' /\ req'[t].todo = moves /\ req'[t].approval = i
              /\ req'[t].at = "snapshot" /\ req'[t].granted = Granted(i)
  <2> DEFINE w == Named(moves, i)
  <2>1. moves \in SUBSET Move
    BY <1>4, OfferedMoves
  <2>2. i \in Nat /\ Granted(i) \in BOOLEAN
    BY <1>5 DEF Granted
  <2>3. /\ Selecting(w) /\ w.todo = moves /\ w.at = "snapshot"
        /\ w.granted = Granted(i) /\ w.approval = i
    BY <1>2, <2>1, <2>2 DEF Selected, Selecting
  <2> HIDE DEF w
  <2>4. req' \in [Thread -> Work] /\ req'[t] = w
    BY <1>1, <1>10, <2>3, StagesAreWork, WorkWrite DEF w
  <2> QED
    BY <1>7, <2>3, <2>4
<1> HIDE DEF Chosen, Named
<1> QED
  BY <1>2, <1>3, <1>8, <1>9, <1>10

-------------------------------------------------------------------------------
(* What the steps write into the rows of approvals *)

\* A row somebody has answered, and that its policy did not deny.
Settled(rows, i) ==
  /\ i \in DOMAIN rows
  /\ rows[i].status # "pending"
  /\ rows[i].by = "policy" => rows[i].status \in Granting

SettledStays == \A i : Settled(approvals, i) => Settled(approvals', i)

LEMMA GrantedIsSettled ==
  ASSUME NEW i, Granted(i)
  PROVE  Settled(approvals, i)
BY DEF Granted, Granting, Settled

LEMMA AskRow ==
  ASSUME ApprovalTypeOK, NEW i \in DOMAIN approvals, NEW asks \in Wish,
         approvals' = [approvals EXCEPT ![i].asks = asks],
         UNCHANGED <<policy, policyChanges, answers, remembered>>
  PROVE  ApprovalTypeOK' /\ SettledStays
<1> DEFINE row == [approvals[i] EXCEPT !.asks = asks]
<1>1. approvals \in Seq(Row) /\ approvals[i] \in Row
  BY DEF ApprovalTypeOK
<1>2. row \in Row /\ row.status = approvals[i].status /\ row.by = approvals[i].by
  BY <1>1 DEF Row
<1>3. approvals' = [approvals EXCEPT ![i] = row]
  OBVIOUS
<1> HIDE DEF row
<1>4. /\ approvals' \in Seq(Row) /\ Len(approvals') = Len(approvals)
      /\ DOMAIN approvals' = DOMAIN approvals
      /\ \A j \in DOMAIN approvals : approvals'[j] = IF j = i THEN row ELSE approvals[j]
  BY <1>1, <1>2, <1>3
<1>5. ApprovalTypeOK'
  BY <1>4 DEF ApprovalTypeOK
<1>6. SettledStays
  BY <1>2, <1>4 DEF SettledStays, Settled
<1> QED
  BY <1>5, <1>6

LEMMA CreateRow ==
  ASSUME ApprovalTypeOK, NEW class \in Class, NEW asks \in Wish, NEW act \in Acts,
         CreateApproval(class, asks, act),
         UNCHANGED <<policy, policyChanges, answers, remembered>>
  PROVE  /\ ApprovalTypeOK' /\ SettledStays
         /\ Len(approvals') \in Nat
         /\ approvals'[Len(approvals')].status \in Granting => Settled(approvals', Len(approvals'))
<1> DEFINE row == NewRow(class, asks, act)
<1>1. row \in Row
  BY NewRowFacts, ApprovalsAssumption
<1>2. approvals' = Append(approvals, row) /\ approvals \in Seq(Row)
      /\ Len(approvals) < MaxApprovals
  BY DEF CreateApproval, ApprovalTypeOK
<1> HIDE DEF row
<1>3. /\ approvals' \in Seq(Row)
      /\ Len(approvals') = Len(approvals) + 1
      /\ DOMAIN approvals' = DOMAIN approvals \cup {Len(approvals) + 1}
      /\ \A i \in DOMAIN approvals : approvals'[i] = approvals[i]
      /\ approvals'[Len(approvals) + 1] = row
  BY <1>1, <1>2
<1>4. Len(approvals') <= MaxApprovals /\ Len(approvals') \in Nat
  BY <1>2, <1>3, ApprovalsAssumption
<1>5. ApprovalTypeOK'
  BY <1>3, <1>4 DEF ApprovalTypeOK
<1>6. SettledStays
  BY <1>3 DEF SettledStays, Settled
<1>7. row.status \in Granting => Settled(approvals', Len(approvals'))
  BY <1>3 DEF Settled, Granting
<1> QED
  BY <1>3, <1>4, <1>5, <1>6, <1>7

\* Around the requests: policies change, users read and store answers.
LEMMA AnswerRow ==
  ASSUME ApprovalTypeOK, ChangePolicy \/ Resolve
  PROVE  ApprovalTypeOK' /\ SettledStays
<1>1. CASE ChangePolicy
  <2>1. policyChanges' \in 0 .. MaxPolicies
    BY <1>1, ApprovalsAssumption DEF ChangePolicy, ApprovalTypeOK
  <2> QED
    BY <1>1, <2>1 DEF ChangePolicy, ApprovalTypeOK, SettledStays
<1>2. ASSUME NEW i \in DOMAIN approvals, NEW verdict \in Verdict, ReadAnswer(i, verdict)
      PROVE  ApprovalTypeOK' /\ SettledStays
  <2> DEFINE x == [row |-> i, verdict |-> verdict, risk |-> approvals[i].risk]
  <2>1. answers' = answers \cup {x} /\ UNCHANGED <<policy, policyChanges, approvals, remembered>>
    BY <1>2 DEF ReadAnswer
  <2>2. approvals \in Seq(Row) /\ Len(approvals) <= MaxApprovals /\ MaxApprovals \in Nat
    BY ApprovalsAssumption DEF ApprovalTypeOK
  <2>3. approvals[i] \in Row /\ i \in 1 .. MaxApprovals
    BY <2>2
  <2>4. x \in Answer /\ x.row = i
    BY <2>3 DEF Answer, Row
  <2> HIDE DEF x
  <2> QED
    BY <2>1, <2>4 DEF ApprovalTypeOK, SettledStays
<1>3. ASSUME NEW x \in answers, StoreAnswer(x)
      PROVE  ApprovalTypeOK' /\ SettledStays
  <2>1. /\ x \in Answer /\ x.row \in DOMAIN approvals /\ approvals \in Seq(Row)
        /\ answers' = answers \ {x} /\ UNCHANGED <<policy, policyChanges>>
    BY <1>3 DEF ApprovalTypeOK, StoreAnswer
  <2>2. CASE ~ Permitted(x)
    BY <1>3, <2>1, <2>2 DEF ApprovalTypeOK, StoreAnswer, SettledStays
  <2>3. CASE Permitted(x)
    <3> DEFINE row == [approvals[x.row] EXCEPT !.status = x.verdict, !.by = "user"]
    <3>1. approvals[x.row] \in Row
      BY <2>1
    <3>2. row \in Row /\ row.status \in Verdict /\ row.by = "user"
      BY <2>1, <3>1 DEF Row, Status, Answer
    <3>3. approvals' = [approvals EXCEPT ![x.row] = row]
      BY <1>3, <2>3 DEF StoreAnswer
    <3>4. remembered' \in SUBSET Class
      BY <1>3, <2>3, <3>1 DEF StoreAnswer, ApprovalTypeOK, Row
    <3> HIDE DEF row
    <3>5. /\ approvals' \in Seq(Row) /\ Len(approvals') = Len(approvals)
          /\ DOMAIN approvals' = DOMAIN approvals
          /\ \A i \in DOMAIN approvals : approvals'[i] = IF i = x.row THEN row ELSE approvals[i]
      BY <2>1, <3>2, <3>3
    <3>6. ApprovalTypeOK'
      BY <2>1, <3>4, <3>5 DEF ApprovalTypeOK
    <3>7. SettledStays
      BY <3>2, <3>5 DEF SettledStays, Settled, Verdict
    <3> QED
      BY <3>6, <3>7
  <2> QED
    BY <2>2, <2>3
<1> QED
  BY <1>1, <1>2, <1>3 DEF Resolve

-------------------------------------------------------------------------------
(* The later steps of a request *)

LEMMA AskFacts ==
  ASSUME FileTypeOK, NEW t \in Thread, Ask(t)
  PROVE  /\ FileTypeOK' /\ SettledStays
         /\ req'[t].at = "snapshot" /\ req'[t].todo = req[t].todo
         /\ req'[t].granted => req[t].granted \/ Settled(approvals', req'[t].approval)
<1>1. Selecting(req[t]) /\ req \in [Thread -> Work]
  BY Stages DEF Ask, FileTypeOK
<1>2. Asks(t) \in Wish /\ req[t].lane \in Class /\ req[t].lane \in Lane
  BY <1>1, RequestAssumption DEF Asks, Selecting
<1>3. ApprovalTypeOK
  BY DEF FileTypeOK
<1>4. UNCHANGED <<policy, policyChanges, answers, remembered, fs, blockers, plan, snaps, batches,
                  done, runs, edits, changes>>
  BY DEF Ask
<1>5. req' \in [Thread -> Work] /\ ApprovalTypeOK' => FileTypeOK'
  BY <1>4 DEF FileTypeOK
<1>6. CASE /\ req[t].approval # 0
           /\ approvals' = [approvals EXCEPT ![req[t].approval].asks = Asks(t)]
           /\ req' = [req EXCEPT ![t].at = "snapshot"]
  <2> DEFINE w == [req[t] EXCEPT !.at = "snapshot"]
  <2>1. Selecting(w) /\ w.at = "snapshot" /\ w.todo = req[t].todo /\ w.granted = req[t].granted
    BY <1>1 DEF Selecting
  <2>2. req' = [req EXCEPT ![t] = w]
    BY <1>6
  <2> HIDE DEF w
  <2>3. req' \in [Thread -> Work] /\ req'[t] = w
    BY <1>1, <2>1, <2>2, StagesAreWork, WorkWrite
  <2>4. CASE req[t].approval \in DOMAIN approvals
    <3>1. ApprovalTypeOK' /\ SettledStays
      BY <1>2, <1>3, <1>4, <1>6, <2>4, AskRow
    <3> QED
      BY <1>5, <2>1, <2>3, <3>1
  <2>5. CASE req[t].approval \notin DOMAIN approvals
    <3>1. approvals \in Seq(Row)
      BY <1>3 DEF ApprovalTypeOK
    <3>2. approvals' = approvals
      BY <1>6, <2>5, <3>1
    <3>3. ApprovalTypeOK' /\ SettledStays
      BY <1>3, <1>4, <3>2 DEF ApprovalTypeOK, SettledStays
    <3> QED
      BY <1>5, <2>1, <2>3, <3>3
  <2> QED
    BY <2>4, <2>5
<1>7. CASE /\ CreateApproval(req[t].lane, Asks(t), Act)
           /\ req' = [req EXCEPT ![t] = [@ EXCEPT !.at = "snapshot", !.approval = Len(approvals'),
                        !.granted = approvals'[Len(approvals')].status \in Granting]]
  <2> DEFINE grants == approvals'[Len(approvals')].status \in Granting
             w == [req[t] EXCEPT !.at = "snapshot", !.approval = Len(approvals'),
                                 !.granted = grants]
  <2>1. /\ ApprovalTypeOK' /\ SettledStays
        /\ Len(approvals') \in Nat
        /\ approvals'[Len(approvals')].status \in Granting => Settled(approvals', Len(approvals'))
    BY <1>2, <1>3, <1>4, <1>7, RequestAssumption, CreateRow
  <2>2. grants \in BOOLEAN
    OBVIOUS
  <2>3. req' = [req EXCEPT ![t] = w]
    BY <1>7
  <2> HIDE DEF grants
  <2>5. /\ Selecting(w) /\ w.at = "snapshot" /\ w.todo = req[t].todo
        /\ w.granted = grants /\ w.approval = Len(approvals')
    BY <1>1, <2>1, <2>2 DEF Selecting
  <2> HIDE DEF w
  <2>6. w.granted => Settled(approvals', w.approval)
    BY <2>1, <2>5 DEF grants
  <2>4. req' \in [Thread -> Work] /\ req'[t] = w
    BY <1>1, <2>5, <2>3, StagesAreWork, WorkWrite
  <2> QED
    BY <1>5, <2>1, <2>4, <2>5, <2>6
<1> QED
  BY <1>6, <1>7 DEF Ask

LEMMA SnapshotFacts ==
  ASSUME FileTypeOK, NEW t \in Thread, Snapshot(t)
  PROVE  /\ FileTypeOK'
         /\ snaps' = snaps \/ snaps' = Append(snaps, plan)
         /\ \/ req'[t] = Idle
            \/ /\ req[t].granted /\ req'[t].granted /\ req'[t].at = "run"
               /\ req'[t].approval = req[t].approval /\ req'[t].todo = req[t].todo
<1>1. Selecting(req[t]) /\ req \in [Thread -> Work]
  BY Stages DEF Snapshot, FileTypeOK
<1>2. snaps' = snaps \/ snaps' = Append(snaps, plan)
  BY DEF Snapshot
<1>3. snaps' \in Seq(Plan)
  BY <1>2 DEF FileTypeOK
<1>4. req' \in [Thread -> Work] => FileTypeOK'
  BY <1>3 DEF Snapshot, FileTypeOK, ApprovalTypeOK, approvalVars
<1>5. CASE ~ req[t].granted
  BY <1>1, <1>2, <1>4, <1>5, AbandonType DEF Snapshot
<1>6. CASE req[t].granted
  <2> DEFINE w == [req[t] EXCEPT !.at = "run"]
  <2>1. /\ Selecting(w) /\ w.at = "run" /\ w.todo = req[t].todo
        /\ w.granted = req[t].granted /\ w.approval = req[t].approval
    BY <1>1 DEF Selecting
  <2>2. req' = [req EXCEPT ![t] = w]
    BY <1>6 DEF Snapshot
  <2> HIDE DEF w
  <2>3. req' \in [Thread -> Work] /\ req'[t] = w
    BY <1>1, <2>1, <2>2, StagesAreWork, WorkWrite
  <2> QED
    BY <1>2, <1>4, <1>6, <2>1, <2>3
<1> QED
  BY <1>5, <1>6

\* A checked move goes to the staged ones, is dropped, or comes next; the rest
\* of the selection stays.
LEMMA CheckFacts ==
  ASSUME FileTypeOK, NEW t \in Thread, NEW m \in req[t].todo, Check(t, m)
  PROVE  /\ FileTypeOK'
         /\ req'[t].granted = req[t].granted /\ req'[t].approval = req[t].approval
         /\ req'[t].todo = req[t].todo \ {m}
         /\ \/ req'[t].at = "run"
            \/ req'[t].at = "move" /\ req'[t].next = m /\ ~ InCloud(m)
<1>1. Selecting(req[t]) /\ req \in [Thread -> Work]
  BY Stages DEF Check, FileTypeOK
<1>2. m \in Move /\ req[t].todo \in SUBSET Move /\ req[t].staged \in SUBSET Move
  BY <1>1 DEF Selecting
<1>3. req' \in [Thread -> Work] => FileTypeOK'
  BY DEF Check, FileTypeOK, ApprovalTypeOK, approvalVars
<1>4. CASE InCloud(m)
  <2> DEFINE w == [req[t] EXCEPT !.todo = @ \ {m}, !.staged = @ \cup {m}]
  <2>1. /\ Selecting(w) /\ w.at = "run" /\ w.todo = req[t].todo \ {m}
        /\ w.granted = req[t].granted /\ w.approval = req[t].approval
    BY <1>1, <1>2 DEF Selecting, Check
  <2>2. req' = [req EXCEPT ![t] = w]
    BY <1>4 DEF Check
  <2> HIDE DEF w
  <2>3. req' \in [Thread -> Work] /\ req'[t] = w
    BY <1>1, <2>1, <2>2, StagesAreWork, WorkWrite
  <2> QED
    BY <1>3, <2>1, <2>3
<1>5. CASE ~ InCloud(m) /\ Possible(m)
  <2> DEFINE w == [at |-> "move", lane |-> req[t].lane, run |-> req[t].run,
                   granted |-> req[t].granted, approval |-> req[t].approval,
                   todo |-> req[t].todo \ {m}, staged |-> req[t].staged, next |-> m]
  <2>1. /\ Moving(w) /\ w.at = "move" /\ w.todo = req[t].todo \ {m} /\ w.next = m
        /\ w.granted = req[t].granted /\ w.approval = req[t].approval
    BY <1>1, <1>2 DEF Selecting, Moving
  <2>2. req' = [req EXCEPT ![t] = w]
    BY <1>5 DEF Check
  <2> HIDE DEF w
  <2>3. req' \in [Thread -> Work] /\ req'[t] = w
    BY <1>1, <2>1, <2>2, StagesAreWork, WorkWrite
  <2> QED
    BY <1>3, <1>5, <2>1, <2>3
<1>6. CASE ~ InCloud(m) /\ ~ Possible(m)
  <2> DEFINE w == [req[t] EXCEPT !.todo = @ \ {m}]
  <2>1. /\ Selecting(w) /\ w.at = "run" /\ w.todo = req[t].todo \ {m}
        /\ w.granted = req[t].granted /\ w.approval = req[t].approval
    BY <1>1, <1>2 DEF Selecting, Check
  <2>2. req' = [req EXCEPT ![t] = w]
    BY <1>6 DEF Check
  <2> HIDE DEF w
  <2>3. req' \in [Thread -> Work] /\ req'[t] = w
    BY <1>1, <2>1, <2>2, StagesAreWork, WorkWrite
  <2> QED
    BY <1>3, <2>1, <2>3
<1> QED
  BY <1>4, <1>5, <1>6

\* The move is given up, or carried out and entered into the history.
LEMMA MoveFacts ==
  ASSUME FileTypeOK, NEW t \in Thread, MoveFile(t)
  PROVE  /\ FileTypeOK'
         /\ req[t].next \in Move
         /\ \/ req'[t] = Idle /\ UNCHANGED <<fs, done>>
            \/ /\ fs[req[t].next.from] # 0
               /\ fs' = [fs EXCEPT ![req[t].next.from] = 0, ![req[t].next.to] = fs[req[t].next.from]]
               /\ done' = done \cup {Executed(req[t].next, t)}
               /\ req'[t].at = "run" /\ req'[t].granted = req[t].granted
               /\ req'[t].approval = req[t].approval /\ req'[t].todo = req[t].todo
<1> DEFINE m == req[t].next
<1>1. Moving(req[t]) /\ req \in [Thread -> Work]
  BY Stages DEF MoveFile, FileTypeOK
<1>2. m \in Move /\ m.from \in Path /\ m.to \in Path
  BY <1>1 DEF Moving, Move
<1>3. fs \in [Path -> Content \cup {0}]
  BY DEF FileTypeOK
<1>4. CASE fs[m.from] = 0
  <2>1. Abandon(t) /\ UNCHANGED <<fs, done>>
    BY <1>4 DEF MoveFile
  <2>2. req' \in [Thread -> Work] /\ req'[t] = Idle
    BY <1>1, <2>1, AbandonType
  <2> QED
    BY <1>2, <2>1, <2>2 DEF MoveFile, FileTypeOK, ApprovalTypeOK, approvalVars
<1>5. CASE fs[m.from] # 0
  <2> DEFINE w == [at |-> "run", lane |-> req[t].lane, run |-> req[t].run,
                   granted |-> req[t].granted, approval |-> req[t].approval,
                   todo |-> req[t].todo, staged |-> req[t].staged]
  <2>1. /\ Selecting(w) /\ w.at = "run" /\ w.todo = req[t].todo
        /\ w.granted = req[t].granted /\ w.approval = req[t].approval
    BY <1>1 DEF Selecting, Moving
  <2>2. /\ req' = [req EXCEPT ![t] = w]
        /\ fs' = [fs EXCEPT ![m.from] = 0, ![m.to] = fs[m.from]]
        /\ done' = done \cup {Executed(m, t)}
    BY <1>5 DEF MoveFile
  <2> HIDE DEF w
  <2>3. req' \in [Thread -> Work] /\ req'[t] = w
    BY <1>1, <2>1, <2>2, StagesAreWork, WorkWrite
  <2>4. fs' \in [Path -> Content \cup {0}]
    BY <1>2, <1>3, <2>2
  <2>5. Executed(m, t) \in [move : Move, run : Nat, approval : Nat, lane : Lane]
    BY <1>1, <1>2 DEF Executed, Moving
  <2>6. UNCHANGED <<approvalVars, blockers, plan, snaps, batches, runs, edits, changes>>
    BY DEF MoveFile
  <2>7. FileTypeOK'
    BY <2>2, <2>3, <2>4, <2>5, <2>6 DEF FileTypeOK, ApprovalTypeOK, approvalVars
  <2> QED
    BY <1>2, <1>5, <2>1, <2>2, <2>3, <2>7
<1> QED
  BY <1>4, <1>5

LEMMA FinishFacts ==
  ASSUME FileTypeOK, NEW t \in Thread, Finish(t)
  PROVE  FileTypeOK' /\ req'[t] = Idle
<1>1. Selecting(req[t]) /\ req \in [Thread -> Work] /\ batches \in Seq(Batch)
  BY Stages DEF Finish, FileTypeOK
<1>2. [moves |-> req[t].staged, lane |-> req[t].lane, approval |-> req[t].approval] \in Batch
  BY <1>1 DEF Selecting, Batch
<1>3. batches' \in Seq(Batch)
  BY <1>1, <1>2 DEF Finish
<1>4. req' \in [Thread -> Work] /\ req'[t] = Idle
  BY <1>1, AbandonType DEF Finish
<1> QED
  BY <1>3, <1>4 DEF Finish, FileTypeOK, ApprovalTypeOK, approvalVars

LEMMA BatchFacts ==
  ASSUME FileTypeOK, NEW b \in DOMAIN batches, NEW i \in DOMAIN approvals, ExecuteBatch(b, i)
  PROVE  /\ FileTypeOK'
         /\ \A e \in done' : e \in done \/ e.approval = i
<1>1. PICK completed \in SUBSET batches[b].moves :
        done' = done \cup {[move |-> m, run |-> runs + 1, approval |-> i, lane |-> batches[b].lane] :
                             m \in completed}
  BY DEF ExecuteBatch
<1>2. batches \in Seq(Batch) /\ approvals \in Seq(Row)
  BY DEF FileTypeOK, ApprovalTypeOK
<1>3. batches[b] \in Batch /\ i \in Nat
  BY <1>2
<1>4. runs' \in 0 .. MaxRuns /\ runs + 1 \in Nat
  BY FileAssumption DEF ExecuteBatch, FileTypeOK
<1>5. done' \in SUBSET [move : Move, run : Nat, approval : Nat, lane : Lane]
  BY <1>1, <1>3, <1>4 DEF Batch, FileTypeOK
<1>6. FileTypeOK'
  BY <1>4, <1>5 DEF ExecuteBatch, FileTypeOK, ApprovalTypeOK, approvalVars
<1> QED
  BY <1>1, <1>6

LEMMA EditFacts ==
  ASSUME FileTypeOK, NEW p \in Local, NEW c \in Content \cup {0}, Edit(p, c)
  PROVE  FileTypeOK' /\ edits' # 0
<1>1. edits' \in 0 .. MaxEdits /\ edits' # 0
  BY FileAssumption DEF Edit, FileTypeOK
<1>2. fs' \in [Path -> Content \cup {0}]
  BY DEF Edit, FileTypeOK
<1> QED
  BY <1>1, <1>2 DEF Edit, FileTypeOK, ApprovalTypeOK, approvalVars

LEMMA BlockerFacts ==
  ASSUME FileTypeOK, NEW x \in Blocker, ChangeBlocker(x)
  PROVE  FileTypeOK'
<1>1. changes' \in 0 .. MaxBlockers
  BY FileAssumption DEF ChangeBlocker, FileTypeOK
<1>2. blockers' \in SUBSET Blocker
  BY DEF ChangeBlocker, FileTypeOK
<1> QED
  BY <1>1, <1>2 DEF ChangeBlocker, FileTypeOK, ApprovalTypeOK, approvalVars

LEMMA CrashFacts ==
  ASSUME FileTypeOK, Crash
  PROVE  FileTypeOK' /\ \A t \in Thread : req'[t] = Idle
<1>1. req' \in [Thread -> Work] /\ \A t \in Thread : req'[t] = Idle
  BY StagesAreWork DEF Crash
<1>2. ApprovalTypeOK'
  BY DEF Crash, FileTypeOK, ApprovalTypeOK
<1> QED
  BY <1>1, <1>2 DEF Crash, FileTypeOK

-------------------------------------------------------------------------------
(* Types *)

LEMMA FileInitType == FileInit => FileTypeOK
<1> SUFFICES ASSUME FileInit PROVE FileTypeOK
  OBVIOUS
<1>1. ApprovalTypeOK
  BY InitInv DEF FileInit, ApprovalInv
<1>2. fs \in [Path -> Content \cup {0}] /\ plan \in Plan
  BY FileAssumption DEF FileInit, Plan
<1>3. req \in [Thread -> Work]
  BY StagesAreWork DEF FileInit
<1>4. runs \in 0 .. MaxRuns /\ edits \in 0 .. MaxEdits /\ changes \in 0 .. MaxBlockers
  BY FileAssumption DEF FileInit
<1> QED
  BY <1>1, <1>2, <1>3, <1>4 DEF FileInit, FileTypeOK

LEMMA FileNextType == FileTypeOK /\ [FileNext]_allVars => FileTypeOK'
<1> SUFFICES ASSUME FileTypeOK, [FileNext]_allVars PROVE FileTypeOK'
  OBVIOUS
<1>1. ASSUME NEW t \in Thread, FileStep(t) PROVE FileTypeOK'
  BY <1>1, ScanFacts, PublishFacts, LoadFacts, AskFacts, SnapshotFacts, CheckFacts, MoveFacts,
     FinishFacts DEF FileStep
<1>2. CASE (ChangePolicy \/ Resolve) /\ UNCHANGED fileVars
  <2>1. ApprovalTypeOK'
    BY <1>2, AnswerRow DEF FileTypeOK
  <2> QED
    BY <1>2, <2>1 DEF FileTypeOK, fileVars
<1>3. CASE UNCHANGED allVars
  BY <1>3 DEF allVars, approvalVars, fileVars, FileTypeOK, ApprovalTypeOK
<1> QED
  BY <1>1, <1>2, <1>3, BatchFacts, EditFacts, BlockerFacts, CrashFacts DEF FileNext

\* Plans, manifests, selections, batches and the history of moves keep their
\* types, for any number of requests, edits and answers.
THEOREM FileTypes == FileSpec => []FileTypeOK
BY FileInitType, FileNextType, PTL DEF FileSpec

-------------------------------------------------------------------------------
(* Grants *)

\* A request that holds a grant, and all that was moved, names a settled row.
HasGrant(rows, w) ==
  /\ w.at = "ask" => ~ w.granted
  /\ w.at \in {"run", "move"} => w.granted
  /\ w.at \in {"snapshot", "run", "move"} /\ w.granted => Settled(rows, w.approval)

GrantInv ==
  /\ \A t \in Thread : HasGrant(approvals, req[t])
  /\ \A e \in done : Settled(approvals, e.approval)

LEMMA IdleHasGrant ==
  ASSUME NEW rows
  PROVE  HasGrant(rows, Idle)
BY DEF HasGrant, Idle

\* What a step of one request leaves of the grants of the others.
LEMMA OthersKeepGrants ==
  ASSUME GrantInv, SettledStays, NEW t \in Thread, HasGrant(approvals', req'[t]),
         \A u \in Thread : u # t => req'[u] = req[u],
         \A e \in done' : e \in done \/ Settled(approvals', e.approval)
  PROVE  GrantInv'
BY DEF GrantInv, SettledStays, HasGrant

LEMMA UnchangedRows ==
  ASSUME UNCHANGED approvals
  PROVE  SettledStays
BY DEF SettledStays

\* A step of one request leaves the other requests alone.
LEMMA OthersRest ==
  ASSUME FileTypeOK, NEW t \in Thread, FileStep(t)
  PROVE  \A u \in Thread : u # t => req'[u] = req[u]
<1>1. req \in [Thread -> Work]
  BY DEF FileTypeOK
<1>2. CASE \E lane \in Lane : Scan(t, lane)
  BY <1>1, <1>2 DEF Scan
<1>3. CASE Publish(t)
  BY <1>1, <1>3 DEF Publish
<1>4. CASE Load(t)
  <2>1. Abandon(t) \/ \E w : req' = [req EXCEPT ![t] = w]
    BY <1>4 DEF Load
  <2> QED
    BY <1>1, <2>1 DEF Abandon
<1>5. CASE Ask(t)
  <2>1. \E w : req' = [req EXCEPT ![t] = w]
    BY <1>5 DEF Ask
  <2> QED
    BY <1>1, <2>1
<1>6. CASE Snapshot(t)
  BY <1>1, <1>6 DEF Snapshot, Abandon
<1>7. CASE req[t].at = "run" /\ \E m \in req[t].todo : Check(t, m)
  <2>1. \E w : req' = [req EXCEPT ![t] = w]
    BY <1>7 DEF Check
  <2> QED
    BY <1>1, <2>1
<1>8. CASE MoveFile(t)
  <2>1. Abandon(t) \/ \E w : req' = [req EXCEPT ![t] = w]
    BY <1>8 DEF MoveFile
  <2> QED
    BY <1>1, <2>1 DEF Abandon
<1>9. CASE Finish(t)
  BY <1>1, <1>9 DEF Finish, Abandon
<1> QED
  BY <1>2, <1>3, <1>4, <1>5, <1>6, <1>7, <1>8, <1>9 DEF FileStep

LEMMA StepKeepsGrants ==
  ASSUME FileTypeOK, GrantInv, NEW t \in Thread, FileStep(t)
  PROVE  GrantInv'
<1>1. \A u \in Thread : u # t => req'[u] = req[u]
  BY OthersRest
<1>2. HasGrant(approvals, req[t]) /\ \A e \in done : Settled(approvals, e.approval)
  BY DEF GrantInv
<1>3. SettledStays /\ HasGrant(approvals', req'[t]) /\ (\A e \in done' : e \in done \/ Settled(approvals', e.approval))
        => GrantInv'
  BY <1>1, OthersKeepGrants
<1>4. CASE \E lane \in Lane : Scan(t, lane)
  <2>1. PICK lane \in Lane : Scan(t, lane)
    BY <1>4
  <2>2. req'[t].at = "publish"
    BY <2>1, ScanFacts
  <2>3. UNCHANGED approvals /\ UNCHANGED done
    BY <2>1 DEF Scan, approvalVars
  <2> QED
    BY <1>3, <2>2, <2>3, UnchangedRows DEF HasGrant
<1>5. CASE Publish(t)
  <2>1. req'[t].at = "load" /\ UNCHANGED approvals /\ UNCHANGED done
    BY <1>5, PublishFacts DEF Publish, approvalVars
  <2> QED
    BY <1>3, <2>1, UnchangedRows DEF HasGrant
<1>6. CASE Load(t)
  <2>1. UNCHANGED approvals /\ UNCHANGED done
    BY <1>6 DEF Load, approvalVars
  <2>2. CASE req'[t] = Idle
    BY <1>3, <2>1, <2>2, UnchangedRows, IdleHasGrant
  <2>3. CASE req'[t].at = "ask" /\ ~ req'[t].granted
    BY <1>3, <2>1, <2>3, UnchangedRows DEF HasGrant
  <2>4. CASE req'[t].at = "snapshot" /\ req'[t].granted = Granted(req'[t].approval)
    <3>1. req'[t].granted => Settled(approvals', req'[t].approval)
      BY <2>1, <2>4, GrantedIsSettled
    <3> QED
      BY <1>3, <2>1, <2>4, <3>1, UnchangedRows DEF HasGrant
  <2> QED
    BY <1>6, <2>2, <2>3, <2>4, LoadFacts
<1>7. CASE Ask(t)
  <2>1. /\ SettledStays /\ req'[t].at = "snapshot"
        /\ req'[t].granted => req[t].granted \/ Settled(approvals', req'[t].approval)
    BY <1>7, AskFacts
  <2>2. ~ req[t].granted /\ UNCHANGED done
    BY <1>2, <1>7 DEF Ask, HasGrant
  <2> QED
    BY <1>3, <2>1, <2>2 DEF HasGrant
<1>8. CASE Snapshot(t)
  <2>1. UNCHANGED approvals /\ UNCHANGED done /\ req[t].at = "snapshot"
    BY <1>8 DEF Snapshot, approvalVars
  <2>2. CASE req'[t] = Idle
    BY <1>3, <2>1, <2>2, UnchangedRows, IdleHasGrant
  <2>3. CASE /\ req[t].granted /\ req'[t].granted /\ req'[t].at = "run"
             /\ req'[t].approval = req[t].approval
    BY <1>2, <1>3, <2>1, <2>3, UnchangedRows DEF HasGrant
  <2> QED
    BY <1>8, <2>2, <2>3, SnapshotFacts
<1>9. CASE req[t].at = "run" /\ \E m \in req[t].todo : Check(t, m)
  <2>1. PICK m \in req[t].todo : Check(t, m)
    BY <1>9
  <2>2. UNCHANGED approvals /\ UNCHANGED done
    BY <2>1 DEF Check, approvalVars
  <2>3. /\ req'[t].granted = req[t].granted /\ req'[t].approval = req[t].approval
        /\ req'[t].at \in {"run", "move"}
    BY <2>1, CheckFacts
  <2> QED
    BY <1>2, <1>3, <1>9, <2>2, <2>3, UnchangedRows DEF HasGrant
<1>10. CASE MoveFile(t)
  <2>1. UNCHANGED approvals /\ req[t].at = "move"
    BY <1>10 DEF MoveFile, approvalVars
  <2>2. CASE req'[t] = Idle /\ UNCHANGED done
    BY <1>3, <2>1, <2>2, UnchangedRows, IdleHasGrant
  <2>3. CASE /\ done' = done \cup {Executed(req[t].next, t)}
             /\ req'[t].at = "run" /\ req'[t].granted = req[t].granted
             /\ req'[t].approval = req[t].approval
    <3>1. Executed(req[t].next, t).approval = req[t].approval
      BY DEF Executed
    <3> QED
      BY <1>2, <1>3, <2>1, <2>3, <3>1, UnchangedRows DEF HasGrant
  <2> QED
    BY <1>10, <2>2, <2>3, MoveFacts
<1>11. CASE Finish(t)
  <2>1. UNCHANGED approvals /\ UNCHANGED done /\ req'[t] = Idle
    BY <1>11, FinishFacts DEF Finish, approvalVars
  <2> QED
    BY <1>3, <2>1, UnchangedRows, IdleHasGrant
<1> QED
  BY <1>4, <1>5, <1>6, <1>7, <1>8, <1>9, <1>10, <1>11 DEF FileStep

LEMMA NextKeepsGrants == FileTypeOK /\ GrantInv /\ [FileNext]_allVars => GrantInv'
<1> SUFFICES ASSUME FileTypeOK, GrantInv, [FileNext]_allVars PROVE GrantInv'
  OBVIOUS
<1>1. ASSUME UNCHANGED req, SettledStays, \A e \in done' : e \in done \/ Settled(approvals', e.approval)
      PROVE  GrantInv'
  BY <1>1 DEF GrantInv, HasGrant, SettledStays
<1>2. ASSUME NEW b \in DOMAIN batches, NEW i \in DOMAIN approvals, ExecuteBatch(b, i)
      PROVE  GrantInv'
  <2>1. UNCHANGED req /\ UNCHANGED approvals /\ Settled(approvals, i)
    BY <1>2, GrantedIsSettled DEF ExecuteBatch, approvalVars
  <2>2. \A e \in done' : e \in done \/ e.approval = i
    BY <1>2, BatchFacts
  <2> QED
    BY <1>1, <2>1, <2>2, UnchangedRows
<1>3. CASE \E p \in Local, c \in Content \cup {0} : Edit(p, c)
  <2>1. UNCHANGED <<req, approvals, done>>
    BY <1>3 DEF Edit, approvalVars
  <2> QED
    BY <1>1, <2>1, UnchangedRows
<1>4. CASE \E x \in Blocker : ChangeBlocker(x)
  <2>1. UNCHANGED <<req, approvals, done>>
    BY <1>4 DEF ChangeBlocker, approvalVars
  <2> QED
    BY <1>1, <2>1, UnchangedRows
<1>5. CASE Crash
  <2>1. UNCHANGED <<approvals, done>>
    BY <1>5 DEF Crash
  <2>2. \A t \in Thread : req'[t] = Idle
    BY <1>5, CrashFacts
  <2> QED
    BY <2>1, <2>2, IdleHasGrant DEF GrantInv
<1>6. CASE (ChangePolicy \/ Resolve) /\ UNCHANGED fileVars
  <2>1. SettledStays
    BY <1>6, AnswerRow DEF FileTypeOK
  <2>2. UNCHANGED <<req, done>>
    BY <1>6 DEF fileVars
  <2> QED
    BY <1>1, <2>1, <2>2
<1>7. CASE UNCHANGED allVars
  <2>1. UNCHANGED <<req, approvals, done>>
    BY <1>7 DEF allVars, approvalVars, fileVars
  <2> QED
    BY <1>1, <2>1, UnchangedRows
<1> QED
  BY <1>2, <1>3, <1>4, <1>5, <1>6, <1>7, StepKeepsGrants DEF FileNext

\* Nothing is moved or executed under an approval that is still open or that
\* the policy denied, whatever answers, changes of the policy and requests of
\* other threads come between the look at the row and the move
\* (apply_file_graph_batch, execute_file_graph_connector_batch).
THEOREM MovesKeepTheirGrant == FileSpec => []MovesHaveGrant
<1>1. FileInit => GrantInv
  BY IdleHasGrant DEF FileInit, GrantInv
<1>2. GrantInv => MovesHaveGrant
  BY DEF GrantInv, MovesHaveGrant, Settled
<1> QED
  BY <1>1, <1>2, FileInitType, FileNextType, NextKeepsGrants, PTL DEF FileSpec

-------------------------------------------------------------------------------
(* Where a file may be *)

\* Two files are never archived as the same one. The code names an archived
\* file after its path with / as __, so a/b and a__b break this.
DistinctArchives ==
  \A p, q \in Local : ArchiveOf[p] # 0 /\ ArchiveOf[p] = ArchiveOf[q] => p = q

Root == {p \in Local : Start[p] # 0}

\* A set of pairs (file at the start, place) that archiving does not leave.
Closed(S) ==
  /\ \A p \in Root : <<p, p>> \in S
  /\ \A p \in Root, q \in Local :
       <<p, q>> \in S /\ ArchiveOf[q] # 0 => <<p, ArchiveOf[q]>> \in S

\* The least one: the places along the chain of archives of each file.
Home == {x \in Root \X Local : \A S \in SUBSET (Root \X Local) : Closed(S) => x \in S}

LEMMA HomeIsLeast ==
  ASSUME NEW S \in SUBSET (Root \X Local), Closed(S)
  PROVE  Home \subseteq S
BY DEF Home

LEMMA HomeIsClosed == Closed(Home)
<1>1. \A q \in Local : ArchiveOf[q] # 0 => ArchiveOf[q] \in Local
  BY FileAssumption DEF Path
<1>2. \A p \in Root : <<p, p>> \in Home
  BY DEF Home, Closed, Root
<1>3. ASSUME NEW p \in Root, NEW q \in Local, <<p, q>> \in Home, ArchiveOf[q] # 0
      PROVE  <<p, ArchiveOf[q]>> \in Home
  BY <1>1, <1>3 DEF Home, Closed
<1> QED
  BY <1>2, <1>3 DEF Closed

\* Archives are later in the order of paths than what they archive.
LEMMA HomeIsLater ==
  ASSUME NEW p \in Root, NEW q \in Local, <<p, q>> \in Home
  PROVE  p <= q
<1> DEFINE S == {x \in Root \X Local : x[1] <= x[2]}
<1>1. \A r \in Local : r \in Nat
  BY FileAssumption
<1>2. \A r \in Root : <<r, r>> \in S
  BY <1>1 DEF Root
<1>3. ASSUME NEW r \in Root, NEW s \in Local, <<r, s>> \in S, ArchiveOf[s] # 0
      PROVE  <<r, ArchiveOf[s]>> \in S
  <2>1. ArchiveOf[s] \in Local /\ s < ArchiveOf[s]
    BY <1>3, FileAssumption DEF Path
  <2>2. r \in Local /\ r <= s
    BY <1>3 DEF Root
  <2>3. r <= ArchiveOf[s]
    BY <1>1, <2>1, <2>2
  <2> QED
    BY <2>1, <2>3
<1>4. Closed(S)
  BY <1>2, <1>3 DEF Closed
<1>5. <<p, q>> \in S
  BY <1>4, HomeIsLeast
<1> QED
  BY <1>5

\* A place on the chain is the start or the archive of another place on it.
LEMMA HomeHasSource ==
  ASSUME NEW p \in Root, NEW q \in Local, <<p, q>> \in Home, q # p
  PROVE  \E r \in Local : ArchiveOf[r] = q /\ <<p, r>> \in Home
<1> DEFINE S == {x \in Home : \/ x[1] = x[2]
                              \/ \E r \in Local : ArchiveOf[r] = x[2] /\ <<x[1], r>> \in Home}
<1>1. S \in SUBSET (Root \X Local)
  BY DEF Home
<1>2. \A r \in Root : <<r, r>> \in S
  BY HomeIsClosed DEF Closed
<1>3. ASSUME NEW r \in Root, NEW s \in Local, <<r, s>> \in S, ArchiveOf[s] # 0
      PROVE  <<r, ArchiveOf[s]>> \in S
  <2>1. <<r, s>> \in Home
    BY <1>3
  <2>2. <<r, ArchiveOf[s]>> \in Home
    BY <1>3, <2>1, HomeIsClosed DEF Closed
  <2> QED
    BY <2>1, <2>2
<1>4. Closed(S)
  BY <1>2, <1>3 DEF Closed
<1>5. <<p, q>> \in S
  BY <1>1, <1>4, HomeIsLeast
<1> QED
  BY <1>5

\* At the start nothing lies further up a chain.
LEMMA HomeStartsFree ==
  ASSUME NEW p \in Root, NEW q \in Local, <<p, q>> \in Home, q # p
  PROVE  Start[q] = 0
<1>1. PICK r \in Local : ArchiveOf[r] = q
  BY HomeHasSource
<1>2. q \in Nat \ {0}
  BY FileAssumption
<1> QED
  BY <1>1, <1>2, FileAssumption

\* Without collisions a chain can be followed backwards ...
LEMMA HomeBackwards ==
  ASSUME DistinctArchives, NEW p \in Root, NEW q \in Local, ArchiveOf[q] # 0,
         <<p, ArchiveOf[q]>> \in Home
  PROVE  <<p, q>> \in Home
<1>1. ArchiveOf[q] \in Local /\ Start[ArchiveOf[q]] = 0
  BY FileAssumption DEF Path
<1>2. ArchiveOf[q] # p
  BY <1>1 DEF Root
<1>3. PICK r \in Local : ArchiveOf[r] = ArchiveOf[q] /\ <<p, r>> \in Home
  BY <1>1, <1>2, HomeHasSource
<1> QED
  BY <1>3 DEF DistinctArchives

\* ... so that a place belongs to one file.
LEMMA HomeIsUnique ==
  ASSUME DistinctArchives, NEW p \in Root, NEW r \in Root, NEW q \in Local,
         <<p, q>> \in Home, <<r, q>> \in Home
  PROVE  p = r
<1> DEFINE S == {x \in Home : \A o \in Root : <<o, x[2]>> \in Home => o = x[1]}
<1>1. S \in SUBSET (Root \X Local)
  BY DEF Home
<1>2. ASSUME NEW s \in Root PROVE <<s, s>> \in S
  <2>1. <<s, s>> \in Home /\ s \in Local /\ Start[s] # 0
    BY HomeIsClosed DEF Closed, Root
  <2>2. \A o \in Root : <<o, s>> \in Home => o = s
    BY <2>1, HomeStartsFree
  <2> QED
    BY <2>1, <2>2
<1>3. ASSUME NEW s \in Root, NEW u \in Local, <<s, u>> \in S, ArchiveOf[u] # 0
      PROVE  <<s, ArchiveOf[u]>> \in S
  <2>1. <<s, u>> \in Home /\ \A o \in Root : <<o, u>> \in Home => o = s
    BY <1>3
  <2>2. <<s, ArchiveOf[u]>> \in Home
    BY <1>3, <2>1, HomeIsClosed DEF Closed
  <2>3. \A o \in Root : <<o, ArchiveOf[u]>> \in Home => o = s
    BY <1>3, <2>1, HomeBackwards
  <2> QED
    BY <2>2, <2>3
<1>4. Closed(S)
  BY <1>2, <1>3 DEF Closed
<1>5. <<p, q>> \in S
  BY <1>1, <1>4, HomeIsLeast
<1> QED
  BY <1>5

-------------------------------------------------------------------------------
(* The inductive invariant of the workspace *)

\* The first copy of a content.
First(f) == f \in Path /\ Start[f] # 0 /\ Canonical(Start, f)

\* A move of a plan archives a duplicate, one of a restore takes it back.
Forward(m) == ~ InCloud(m) => ArchiveOf[m.from] = m.to /\ ~ First(m.from)

Sane(m) == Forward(m) \/ Forward([from |-> m.to, to |-> m.from])

SaneWork(w) ==
  /\ w.at \in {"publish", "load"} => \A m \in w.plan.moves : Forward(m)
  /\ w.at \in {"ask", "snapshot", "run", "move"} => \A m \in w.todo : Sane(m)
  /\ w.at = "move" => Sane(w.next) /\ ~ InCloud(w.next)

SaneMoves ==
  /\ \A m \in plan.moves : Forward(m)
  /\ \A i \in DOMAIN snaps : \A m \in snaps[i].moves : Forward(m)
  /\ \A t \in Thread : SaneWork(req[t])

\* Crawled items and first copies stay; every other file lies on the chain of a
\* file of the start with its content, no two of them on one chain.
CloudStays == \A q \in Cloud : fs[q] = Start[q]

FirstStays == \A f \in Path : First(f) => fs[f] = Start[f]

OnItsChain == \A q \in Local : fs[q] # 0 => \E p \in Root : <<p, q>> \in Home /\ fs[q] = Start[p]

OnePerChain ==
  \A p \in Root : \A q, r \in Local :
    <<p, q>> \in Home /\ <<p, r>> \in Home /\ fs[q] # 0 /\ fs[r] # 0 => q = r

CountsKept == \A c \in Content : Cardinality(Holders(fs, c)) = Cardinality(Holders(Start, c))

InPlace == CloudStays /\ FirstStays /\ OnItsChain /\ OnePerChain /\ CountsKept

KeptInv == edits = 0 => InPlace /\ SaneMoves

LEMMA PathFacts ==
  /\ \A p \in Path : p \in Nat /\ p # 0
  /\ \A p \in Local : ArchiveOf[p] # 0 =>
       ArchiveOf[p] \in Local /\ p < ArchiveOf[p] /\ Start[ArchiveOf[p]] = 0
  /\ \A m \in Move : ~ InCloud(m) => m.from \in Local /\ m.to \in Local
<1>1. \A p \in Path : p \in Nat /\ p # 0
  BY FileAssumption DEF Path
<1>2. \A p \in Local : ArchiveOf[p] # 0 =>
        ArchiveOf[p] \in Local /\ p < ArchiveOf[p] /\ Start[ArchiveOf[p]] = 0
  BY FileAssumption DEF Path
<1>3. \A m \in Move : ~ InCloud(m) => m.from \in Local /\ m.to \in Local
  BY DEF Move, InCloud, Path
<1> QED
  BY <1>1, <1>2, <1>3

\* Holders of a content when one file moves to a free place.
LEMMA MoveKeepsCount ==
  ASSUME NEW files \in [Path -> Content \cup {0}], NEW after,
         NEW a \in Path, NEW b \in Path, a # b, files[a] # 0, files[b] = 0,
         \A p \in Path : after[p] = IF p = b THEN files[a] ELSE IF p = a THEN 0 ELSE files[p],
         NEW c \in Content
  PROVE  Cardinality(Holders(after, c)) = Cardinality(Holders(files, c))
<1> DEFINE H == Holders(files, c)
<1>1. IsFiniteSet(H)
  BY FileAssumption, FS_Subset DEF Holders
<1>2. c # 0
  BY FileAssumption
<1>4. CASE files[a] = c
  <2>1. Holders(after, c) = (H \ {a}) \cup {b}
    BY <1>2, <1>4 DEF Holders
  <2>2. a \in H /\ b \notin H
    BY <1>2, <1>4 DEF Holders
  <2> HIDE DEF H
  <2>3. IsFiniteSet(H \ {a}) /\ Cardinality(H \ {a}) = Cardinality(H) - 1
    BY <1>1, <2>2, FS_RemoveElement
  <2>4. Cardinality((H \ {a}) \cup {b}) = Cardinality(H \ {a}) + 1
    BY <2>2, <2>3, FS_AddElement
  <2>5. Cardinality(H) \in Nat
    BY <1>1, FS_CardinalityType
  <2>6. Cardinality((H \ {a}) \cup {b}) = Cardinality(H)
    BY <2>3, <2>4, <2>5
  <2>7. Cardinality(Holders(after, c)) = Cardinality(H)
    BY <2>1, <2>6
  <2> QED
    BY <2>7 DEF H
<1>5. CASE files[a] # c
  <2>1. Holders(after, c) = H
    BY <1>2, <1>5 DEF Holders
  <2> QED
    BY <2>1
<1> QED
  BY <1>4, <1>5

\* A sane move finds its destination free and leaves everything in place.
LEMMA MoveStaysInPlace ==
  ASSUME DistinctArchives, fs \in [Path -> Content \cup {0}], InPlace,
         NEW m \in Move, ~ InCloud(m), Sane(m), fs[m.from] # 0,
         fs' = [fs EXCEPT ![m.from] = 0, ![m.to] = fs[m.from]]
  PROVE  InPlace'
<1> DEFINE a == m.from
           b == m.to
<1>1. a \in Local /\ b \in Local /\ Local \subseteq Path /\ a \in Nat /\ b \in Nat /\ a # 0 /\ b # 0
  BY PathFacts DEF Path
<1>2. \/ ArchiveOf[a] = b /\ ~ First(a)
      \/ ArchiveOf[b] = a /\ ~ First(b)
  <2> DEFINE back == [from |-> b, to |-> a]
  <2>1. back.from = b /\ back.to = a /\ ~ InCloud(back)
    BY DEF InCloud
  <2> HIDE DEF back
  <2> QED
    BY <2>1 DEF Sane, Forward, back
<1>3. a # b /\ ~ First(a) /\ ~ First(b)
  <2>1. CASE ArchiveOf[a] = b /\ ~ First(a)
    BY <1>1, <2>1, PathFacts DEF First
  <2>2. CASE ArchiveOf[b] = a /\ ~ First(b)
    BY <1>1, <2>2, PathFacts DEF First
  <2> QED
    BY <1>2, <2>1, <2>2
<1>4. PICK p \in Root : <<p, a>> \in Home /\ fs[a] = Start[p]
  BY <1>1 DEF InPlace, OnItsChain
<1>5. <<p, b>> \in Home
  <2>1. CASE ArchiveOf[a] = b
    BY <1>1, <1>4, <2>1, HomeIsClosed DEF Closed
  <2>2. CASE ArchiveOf[b] = a
    BY <1>1, <1>4, <2>2, HomeBackwards
  <2> QED
    BY <1>2, <2>1, <2>2
<1>6. fs[b] = 0
  BY <1>1, <1>3, <1>4, <1>5 DEF InPlace, OnePerChain
<1>7. \A q \in Path : fs'[q] = IF q = b THEN fs[a] ELSE IF q = a THEN 0 ELSE fs[q]
  BY <1>1, <1>3
<1>8. \A q \in Cloud : q # a /\ q # b /\ q \in Path
  BY <1>1, FileAssumption DEF Path
<1> HIDE DEF a, b
<1>9. CloudStays'
  BY <1>7, <1>8 DEF InPlace, CloudStays
<1>10. FirstStays'
  BY <1>3, <1>7 DEF InPlace, FirstStays
<1>11. OnItsChain'
  <2> SUFFICES ASSUME NEW q \in Local, fs'[q] # 0
               PROVE  \E r \in Root : <<r, q>> \in Home /\ fs'[q] = Start[r]
    BY DEF OnItsChain
  <2>1. CASE q = b
    BY <1>1, <1>4, <1>5, <1>7, <2>1
  <2>2. CASE q # b
    <3>1. fs'[q] = fs[q]
      BY <1>1, <1>7, <2>2
    <3> QED
      BY <3>1 DEF InPlace, OnItsChain
  <2> QED
    BY <2>1, <2>2
<1>12. OnePerChain'
  <2> SUFFICES ASSUME NEW o \in Root, NEW q \in Local, NEW r \in Local,
                      <<o, q>> \in Home, <<o, r>> \in Home, fs'[q] # 0, fs'[r] # 0
               PROVE  q = r
    BY DEF OnePerChain
  <2>1. q # a /\ r # a
    BY <1>1, <1>3, <1>7
  <2>2. \A s \in Local : s # a /\ s # b => fs'[s] = fs[s]
    BY <1>1, <1>7
  <2>3. \A s \in Local : s # a /\ s # b /\ <<p, s>> \in Home => fs'[s] = 0
    BY <1>1, <1>4, <2>2 DEF InPlace, OnePerChain, a
  <2>4. q = b \/ r = b => o = p
    BY <1>1, <1>5, HomeIsUnique
  <2>5. CASE q # b /\ r # b
    BY <2>1, <2>2, <2>5 DEF InPlace, OnePerChain
  <2> QED
    BY <2>1, <2>3, <2>4, <2>5
<1>13. CountsKept'
  <2> SUFFICES ASSUME NEW c \in Content
               PROVE  Cardinality(Holders(fs', c)) = Cardinality(Holders(Start, c))
    BY DEF CountsKept
  <2>1. a \in Path /\ b \in Path /\ a # b /\ fs[a] # 0 /\ fs[b] = 0
    BY <1>1, <1>3, <1>6 DEF a, b
  <2> DEFINE new == fs'
  <2>2. \A q \in Path : new[q] = IF q = b THEN fs[a] ELSE IF q = a THEN 0 ELSE fs[q]
    BY <1>7
  <2> HIDE DEF new
  <2>3. Cardinality(Holders(new, c)) = Cardinality(Holders(fs, c))
    BY <2>1, <2>2, MoveKeepsCount
  <2> QED
    BY <2>3 DEF InPlace, CountsKept, new
<1> QED
  BY <1>9, <1>10, <1>11, <1>12, <1>13 DEF InPlace

LEMMA StartInPlace == FileInit => InPlace /\ SaneMoves
<1> SUFFICES ASSUME FileInit PROVE InPlace /\ SaneMoves
  OBVIOUS
<1>1. fs = Start
  BY DEF FileInit
<1>2. CloudStays /\ FirstStays /\ CountsKept
  BY <1>1 DEF CloudStays, FirstStays, CountsKept
<1>3. OnItsChain
  <2> SUFFICES ASSUME NEW q \in Local, fs[q] # 0
               PROVE  \E p \in Root : <<p, q>> \in Home /\ fs[q] = Start[p]
    BY DEF OnItsChain
  <2>1. q \in Root
    BY <1>1 DEF Root
  <2> QED
    BY <1>1, <2>1, HomeIsClosed DEF Closed
<1>4. OnePerChain
  <2> SUFFICES ASSUME NEW p \in Root, NEW q \in Local, NEW r \in Local,
                      <<p, q>> \in Home, <<p, r>> \in Home, fs[q] # 0, fs[r] # 0
               PROVE  q = r
    BY DEF OnePerChain
  <2>1. q = p /\ r = p
    BY <1>1, HomeStartsFree
  <2> QED
    BY <2>1
<1>5. SaneMoves
  BY DEF FileInit, SaneMoves, SaneWork, Idle
<1> QED
  BY <1>2, <1>3, <1>4, <1>5 DEF InPlace

\* A plan made of a workspace in which everything is in place archives no first
\* copy: what else has its content comes from a later file.
LEMMA PlansAreSane ==
  ASSUME FileTypeOK, InPlace, NEW m \in PlanOf(fs, blockers).moves
  PROVE  Forward(m)
<1>1. PICK q \in Path : /\ m = [from |-> q, to |-> ArchiveOf[q]]
                        /\ fs[q] # 0 /\ ~ Canonical(fs, q)
  BY DEF PlanOf
<1> SUFFICES ASSUME ~ InCloud(m), First(q) PROVE FALSE
  BY <1>1 DEF Forward
<1>2. q \in Local
  BY <1>1 DEF InCloud, Path
<1>3. fs[q] = Start[q] /\ Canonical(Start, q)
  BY <1>1 DEF InPlace, FirstStays, First
<1>4. ASSUME NEW r \in Path, fs[r] = fs[q] PROVE q <= r
  <2>1. CASE r \in Cloud
    <3>1. q < r /\ q \in Nat /\ r \in Nat
      BY <1>2, <2>1, FileAssumption
    <3> QED
      BY <3>1
  <2>2. CASE r \in Local
    <3>1. PICK p \in Root : <<p, r>> \in Home /\ fs[r] = Start[p]
      BY <1>1, <1>4, <2>2 DEF InPlace, OnItsChain
    <3>2. p \in Path /\ p <= r
      BY <2>2, <3>1, HomeIsLater DEF Root, Path
    <3>3. q <= p
      BY <1>3, <1>4, <3>1, <3>2 DEF Canonical, Holders
    <3>4. p \in Nat /\ q \in Nat /\ r \in Nat
      BY <3>2, PathFacts
    <3> QED
      BY <3>2, <3>3, <3>4
  <2> QED
    BY <2>1, <2>2 DEF Path
<1>5. Canonical(fs, q)
  BY <1>4 DEF Canonical, Holders
<1> QED
  BY <1>1, <1>5

\* What is offered of a sane manifest is sane.
LEMMA OffersAreSane ==
  ASSUME FileTypeOK, SaneMoves, NEW lane, NEW manifest \in Manifests(lane),
         NEW m \in Offered(lane, manifest)
  PROVE  Sane(m)
<1>1. \A n \in manifest.moves : Forward(n)
  BY DEF Manifests, SaneMoves
<1>2. CASE lane = "apply"
  BY <1>1, <1>2 DEF Offered, Sane
<1>3. CASE lane # "apply"
  <2>1. PICK n \in manifest.moves : m = [from |-> n.to, to |-> n.from]
    BY <1>3 DEF Offered, Back
  <2>2. n \in Move
    BY ManifestType DEF FileTypeOK, Plan
  <2>3. [from |-> m.to, to |-> m.from] = n
    BY <2>1, <2>2 DEF Move
  <2> QED
    BY <1>1, <2>3 DEF Sane
<1> QED
  BY <1>2, <1>3

\* What a step of one request leaves of the others.
LEMMA OthersStaySane ==
  ASSUME SaneMoves, NEW t \in Thread, SaneWork(req'[t]),
         \A u \in Thread : u # t => req'[u] = req[u],
         \A m \in plan'.moves : Forward(m),
         \A i \in DOMAIN snaps' : \A m \in snaps'[i].moves : Forward(m)
  PROVE  SaneMoves'
BY DEF SaneMoves

LEMMA IdleIsSane == SaneWork(Idle)
BY DEF SaneWork, Idle

LEMMA StepStaysInPlace ==
  ASSUME DistinctArchives, FileTypeOK, InPlace, SaneMoves, NEW t \in Thread, FileStep(t)
  PROVE  InPlace' /\ SaneMoves'
<1>1. \A u \in Thread : u # t => req'[u] = req[u]
  BY OthersRest
<1>2. /\ SaneWork(req[t])
      /\ \A m \in plan.moves : Forward(m)
      /\ \A i \in DOMAIN snaps : \A m \in snaps[i].moves : Forward(m)
  BY DEF SaneMoves
<1>3. SaneWork(req'[t]) /\ UNCHANGED plan /\ UNCHANGED snaps => SaneMoves'
  BY <1>1, <1>2, OthersStaySane
<1>4. UNCHANGED fs => InPlace'
  BY DEF InPlace, CloudStays, FirstStays, OnItsChain, OnePerChain, CountsKept
<1>5. CASE \E lane \in Lane : Scan(t, lane)
  <2>1. PICK lane \in Lane : Scan(t, lane)
    BY <1>5
  <2>2. req'[t].at = "publish" /\ req'[t].plan = PlanOf(fs, blockers)
    BY <2>1, ScanFacts
  <2>3. SaneWork(req'[t])
    BY <2>2, PlansAreSane DEF SaneWork
  <2> QED
    BY <1>3, <1>4, <2>1, <2>3 DEF Scan
<1>6. CASE Publish(t)
  <2>1. req'[t] = [req[t] EXCEPT !.at = "load"] /\ req[t].at = "publish"
    BY <1>6 DEF Publish, FileTypeOK
  <2>2. Planning(req[t])
    BY <2>1, Stages DEF FileTypeOK
  <2>3. req'[t].at = "load" /\ req'[t].plan = req[t].plan
    BY <2>1, <2>2 DEF Planning
  <2>4. SaneWork(req'[t]) /\ \A m \in plan'.moves : Forward(m)
    BY <1>2, <1>6, <2>1, <2>3 DEF SaneWork, Publish
  <2>5. UNCHANGED fs /\ UNCHANGED snaps
    BY <1>6 DEF Publish
  <2> QED
    BY <1>1, <1>2, <1>4, <2>4, <2>5, OthersStaySane
<1>7. CASE Load(t)
  <2>1. UNCHANGED <<fs, plan, snaps>>
    BY <1>7 DEF Load
  <2>2. CASE req'[t] = Idle
    BY <1>3, <1>4, <2>1, <2>2, IdleIsSane
  <2>3. ASSUME NEW manifest \in Manifests(req[t].lane),
               req'[t].todo \subseteq Offered(req[t].lane, manifest),
               req'[t].at \in {"ask", "snapshot"}
        PROVE  SaneWork(req'[t])
    BY <2>3, OffersAreSane DEF SaneWork
  <2> QED
    BY <1>3, <1>4, <1>7, <2>1, <2>2, <2>3, LoadFacts
<1>8. CASE Ask(t)
  <2>1. UNCHANGED <<fs, plan, snaps>> /\ req[t].at = "ask"
    BY <1>8 DEF Ask
  <2>2. req'[t].at = "snapshot" /\ req'[t].todo = req[t].todo
    BY <1>8, AskFacts
  <2>3. SaneWork(req'[t])
    BY <1>2, <2>1, <2>2 DEF SaneWork
  <2> QED
    BY <1>3, <1>4, <2>1, <2>3
<1>9. CASE Snapshot(t)
  <2>1. UNCHANGED <<fs, plan>> /\ req[t].at = "snapshot"
    BY <1>9 DEF Snapshot
  <2>2. SaneWork(req'[t])
    BY <1>2, <1>9, <2>1, SnapshotFacts, IdleIsSane DEF SaneWork
  <2>3. snaps \in Seq(Plan) /\ (snaps' = snaps \/ snaps' = Append(snaps, plan))
    BY <1>9, SnapshotFacts DEF FileTypeOK
  <2>4. \A i \in DOMAIN snaps' : \A m \in snaps'[i].moves : Forward(m)
    BY <1>2, <2>3
  <2> QED
    BY <1>1, <1>2, <1>4, <2>1, <2>2, <2>4, OthersStaySane
<1>10. CASE req[t].at = "run" /\ \E m \in req[t].todo : Check(t, m)
  <2>1. PICK m \in req[t].todo : Check(t, m)
    BY <1>10
  <2>2. UNCHANGED <<fs, plan, snaps>>
    BY <2>1 DEF Check
  <2>3. /\ req'[t].todo = req[t].todo \ {m}
        /\ \/ req'[t].at = "run"
           \/ req'[t].at = "move" /\ req'[t].next = m /\ ~ InCloud(m)
    BY <2>1, CheckFacts
  <2>4. \A n \in req[t].todo : Sane(n)
    BY <1>2, <1>10 DEF SaneWork
  <2>5. SaneWork(req'[t])
    BY <2>1, <2>3, <2>4 DEF SaneWork
  <2> QED
    BY <1>3, <1>4, <2>2, <2>5
<1>11. CASE MoveFile(t)
  <2>1. UNCHANGED <<plan, snaps>> /\ req[t].at = "move"
    BY <1>11 DEF MoveFile
  <2>2. CASE req'[t] = Idle /\ UNCHANGED fs
    BY <1>3, <1>4, <2>1, <2>2, IdleIsSane
  <2>3. CASE /\ fs[req[t].next.from] # 0
             /\ fs' = [fs EXCEPT ![req[t].next.from] = 0, ![req[t].next.to] = fs[req[t].next.from]]
             /\ req'[t].at = "run" /\ req'[t].todo = req[t].todo
    <3>1. Sane(req[t].next) /\ ~ InCloud(req[t].next) /\ req[t].next \in Move
      BY <1>2, <1>11, <2>1, MoveFacts DEF SaneWork
    <3>2. InPlace'
      BY <2>3, <3>1, MoveStaysInPlace DEF FileTypeOK
    <3>3. SaneWork(req'[t])
      BY <1>2, <2>1, <2>3 DEF SaneWork
    <3> QED
      BY <1>3, <2>1, <3>2, <3>3
  <2> QED
    BY <1>11, <2>2, <2>3, MoveFacts
<1>12. CASE Finish(t)
  <2>1. UNCHANGED <<fs, plan, snaps>> /\ req'[t] = Idle
    BY <1>12, FinishFacts DEF Finish
  <2> QED
    BY <1>3, <1>4, <2>1, IdleIsSane
<1> QED
  BY <1>5, <1>6, <1>7, <1>8, <1>9, <1>10, <1>11, <1>12 DEF FileStep

LEMMA StepLeavesEdits ==
  ASSUME NEW t \in Thread, FileStep(t)
  PROVE  UNCHANGED edits
BY DEF FileStep, Scan, Publish, Load, Ask, Snapshot, Check, MoveFile, Finish

LEMMA NextStaysInPlace ==
  ASSUME DistinctArchives, FileTypeOK, KeptInv, [FileNext]_allVars
  PROVE  KeptInv'
<1> SUFFICES ASSUME edits' = 0 PROVE InPlace' /\ SaneMoves'
  BY DEF KeptInv
<1>1. ASSUME UNCHANGED <<fs, plan, snaps>>, UNCHANGED req \/ \A t \in Thread : req'[t] = Idle,
             edits = 0
      PROVE  InPlace' /\ SaneMoves'
  BY <1>1, IdleIsSane DEF KeptInv, InPlace, CloudStays, FirstStays, OnItsChain, OnePerChain,
                          CountsKept, SaneMoves
<1>2. ASSUME NEW t \in Thread, FileStep(t) PROVE InPlace' /\ SaneMoves'
  BY <1>2, StepStaysInPlace, StepLeavesEdits DEF KeptInv
<1>3. CASE \E b \in DOMAIN batches, i \in DOMAIN approvals : ExecuteBatch(b, i)
  BY <1>1, <1>3 DEF ExecuteBatch
<1>4. CASE \E p \in Local, c \in Content \cup {0} : Edit(p, c)
  BY <1>4, EditFacts
<1>5. CASE \E x \in Blocker : ChangeBlocker(x)
  BY <1>1, <1>5 DEF ChangeBlocker
<1>6. CASE Crash
  BY <1>1, <1>6, CrashFacts DEF Crash
<1>7. CASE (ChangePolicy \/ Resolve) /\ UNCHANGED fileVars
  BY <1>1, <1>7 DEF fileVars
<1>8. CASE UNCHANGED allVars
  BY <1>1, <1>8 DEF allVars, fileVars
<1> QED
  BY <1>2, <1>3, <1>4, <1>5, <1>6, <1>7, <1>8 DEF FileNext

LEMMA WorkspaceInPlace ==
  ASSUME DistinctArchives
  PROVE  FileSpec => [](FileTypeOK /\ KeptInv)
<1>1. FileInit => FileTypeOK /\ KeptInv
  BY FileInitType, StartInPlace DEF KeptInv
<1>2. FileTypeOK /\ KeptInv /\ [FileNext]_allVars => (FileTypeOK /\ KeptInv)'
  BY FileNextType, NextStaysInPlace
<1> QED
  BY <1>1, <1>2, PTL DEF FileSpec

\* As long as no worker writes, the first copy of every content stays where it
\* is, for any files, threads, plans, snapshots and crashes
\* (build_file_graph_governance_plan, apply, restore).
THEOREM FirstCopiesStay == DistinctArchives => (FileSpec => []KeepsFirstCopy)
<1> SUFFICES ASSUME DistinctArchives PROVE FileSpec => []KeepsFirstCopy
  OBVIOUS
<1>1. KeptInv => KeepsFirstCopy
  BY DEF KeptInv, InPlace, FirstStays, First, KeepsFirstCopy
<1> QED
  BY <1>1, WorkspaceInPlace, PTL

\* ... and of every content there are as many copies as at the start: no move
\* replaces a file that another thread has put at its destination meanwhile.
THEOREM NoFileIsLost == DistinctArchives => (FileSpec => []FilesAreKept)
<1> SUFFICES ASSUME DistinctArchives PROVE FileSpec => []FilesAreKept
  OBVIOUS
<1>1. KeptInv => FilesAreKept
  BY DEF KeptInv, InPlace, CountsKept, FilesAreKept
<1> QED
  BY <1>1, WorkspaceInPlace, PTL

=============================================================================
