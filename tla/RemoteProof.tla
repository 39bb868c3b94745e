------------------------------ MODULE RemoteProof ------------------------------
(* Proofs for any targets, commands, tasks, builders and bounds: packages,       *)
(* approvals and dispatches are well typed, and a remote run is made of one      *)
(* package.                                                                      *)
EXTENDS RemoteLaunch, ApprovalsProof

-------------------------------------------------------------------------------
(* The newest pending row *)

LEMMA NewestOfType ==
  ASSUME NEW n \in Nat, NEW S \in SUBSET (1 .. n)
  PROVE  NewestOf(S) \in 0 .. n
<1>1. CASE S = {}
  BY <1>1 DEF NewestOf
<1>2. CASE S # {}
  <2>1. \E i \in S : \A j \in S : j <= i
    BY <1>2, NewestExists
  <2>2. NewestOf(S) \in S
    BY <1>2, <2>1 DEF NewestOf
  <2>3. NewestOf(S) \in 1 .. n
    BY <2>2
  <2> QED
    BY <2>3
<1> QED
  BY <1>1, <1>2
-------------------------------------------------------------------------------
(* The inductive invariant: rows and builders *)

Work == [at : {"found", "flushed", "written"}, wants : Package,
         row : 0 .. MaxApprovals, rows : Seq(Row)]

\* A row that was found is still there: rows are never deleted.
FoundRowsExist ==
  \A b \in Builder : builders[b].at = "found" => builders[b].row <= Len(approvals)

\* Who holds the write lock will commit at least the rows there are.
HolderKeepsRows ==
  lock # None =>
    /\ builders[lock].at \in {"flushed", "written"}
    /\ Len(approvals) <= Len(builders[lock].rows)
    /\ Len(builders[lock].rows) <= MaxApprovals

RowInv ==
  /\ ApprovalTypeOK
  /\ selected \in Target \cup {None}
  /\ builders \in [Builder -> {Idle} \cup Work]
  /\ lock \in Builder \cup {None}
  /\ granted \subseteq Wish
  /\ builds \in 0 .. MaxBuilds
  /\ selections \in 0 .. MaxSelections
  /\ crashes \in 0 .. MaxCrashes
  /\ FoundRowsExist
  /\ HolderKeepsRows

LEMMA RowInit == Init => RowInv
<1> SUFFICES ASSUME Init PROVE RowInv
  OBVIOUS
<1>1. approvals = <<>> /\ answers = {} /\ lock = None
  BY DEF Init, ApprovalInit
<1>2. DOMAIN approvals = {} /\ Len(approvals) = 0 /\ approvals \in Seq(Row)
  BY <1>1
<1>3. ApprovalTypeOK
  BY <1>1, <1>2, ApprovalsAssumption DEF Init, ApprovalTypeOK, ApprovalInit
<1>4. builders \in [Builder -> {Idle} \cup Work] /\ \A b \in Builder : builders[b] = Idle
  BY DEF Init
<1>5. FoundRowsExist
  BY <1>4 DEF FoundRowsExist, Idle
<1> QED
  BY <1>1, <1>3, <1>4, <1>5, RemoteAssumption DEF RowInv, Init, HolderKeepsRows

-------------------------------------------------------------------------------
(* Answers *)

LEMMA ReadKeepsRowInv ==
  ASSUME RowInv, NEW i \in DOMAIN approvals, NEW verdict \in Verdict, ReadAnswer(i, verdict)
  PROVE  ApprovalTypeOK' /\ approvals' = approvals
<1> DEFINE x == [row |-> i, verdict |-> verdict, risk |-> approvals[i].risk]
<1>1. answers' = answers \cup {x} /\ UNCHANGED <<policy, policyChanges, approvals, remembered>>
  BY DEF ReadAnswer
<1>2. approvals \in Seq(Row) /\ Len(approvals) <= MaxApprovals /\ MaxApprovals \in Nat
  BY ApprovalsAssumption DEF RowInv, ApprovalTypeOK
<1>3. approvals[i] \in Row /\ i \in 1 .. MaxApprovals
  BY <1>2
<1>4. x \in Answer /\ x.row \in DOMAIN approvals
  BY <1>3 DEF Answer, Row
<1> HIDE DEF x
<1> QED
  BY <1>1, <1>4 DEF RowInv, ApprovalTypeOK

LEMMA StoreKeepsRowInv ==
  ASSUME RowInv, NEW x \in answers, StoreAnswer(x)
  PROVE  ApprovalTypeOK' /\ Len(approvals') = Len(approvals)
<1>1. /\ x \in Answer /\ x.row \in DOMAIN approvals
      /\ answers' = answers \ {x} /\ UNCHANGED <<policy, policyChanges>>
      /\ approvals \in Seq(Row)
  BY DEF RowInv, ApprovalTypeOK, StoreAnswer
<1>2. CASE ~Permitted(x)
  BY <1>1, <1>2 DEF RowInv, ApprovalTypeOK, StoreAnswer
<1>3. CASE Permitted(x)
  <2> DEFINE row == [approvals[x.row] EXCEPT !.status = x.verdict, !.by = "user"]
  <2>1. approvals[x.row] \in Row
    BY <1>1
  <2>2. row \in Row
    BY <1>1, <2>1 DEF Row, Status, Answer, Verdict
  <2>3. approvals' = [approvals EXCEPT ![x.row] = row]
    BY <1>3 DEF StoreAnswer
  <2>4. remembered' \in SUBSET Class
    BY <1>3, <2>1 DEF StoreAnswer, RowInv, ApprovalTypeOK, Row
  <2> HIDE DEF row
  <2>5. /\ approvals' \in Seq(Row) /\ Len(approvals') = Len(approvals)
        /\ DOMAIN approvals' = DOMAIN approvals
    BY <1>1, <2>2, <2>3
  <2> QED
    BY <1>1, <2>4, <2>5 DEF RowInv, ApprovalTypeOK
<1> QED
  BY <1>2, <1>3

LEMMA GrantsAreWishes ==
  ASSUME NEW rows \in Seq(Row)
  PROVE  GrantsIn(rows) \subseteq Wish
<1>1. \A i \in DOMAIN rows : rows[i] \in Row
  OBVIOUS
<1> QED
  BY <1>1 DEF GrantsIn, Row

LEMMA UsersKeepRows == RowInv /\ Users => RowInv'
<1> SUFFICES ASSUME RowInv, Users PROVE RowInv'
  OBVIOUS
<1>1. UNCHANGED <<selected, builders, lock, builds, selections, crashes>>
  BY DEF Users
<1>2. ApprovalTypeOK' /\ Len(approvals') = Len(approvals) /\ granted' \subseteq Wish
  <2>1. CASE \E i \in DOMAIN approvals, verdict \in Verdict :
               ReadAnswer(i, verdict) /\ UNCHANGED granted
    BY <2>1, ReadKeepsRowInv DEF RowInv
  <2>2. CASE lock = None /\ ChangePolicy /\ UNCHANGED granted
    BY <2>2, ApprovalsAssumption DEF RowInv, ChangePolicy, ApprovalTypeOK
  <2>3. CASE \E x \in answers : StoreAnswer(x)
             /\ granted' = granted \cup (GrantsIn(approvals') \ GrantsIn(approvals))
    <3>1. ApprovalTypeOK' /\ Len(approvals') = Len(approvals)
      BY <2>3, StoreKeepsRowInv
    <3>2. GrantsIn(approvals') \subseteq Wish
      BY <3>1, GrantsAreWishes DEF ApprovalTypeOK
    <3> QED
      BY <2>3, <3>1, <3>2 DEF RowInv
  <2> QED
    BY <2>1, <2>2, <2>3 DEF Users
<1> QED
  BY <1>1, <1>2 DEF RowInv, FoundRowsExist, HolderKeepsRows
-------------------------------------------------------------------------------
(* Builders *)

LEMMA FindKeepsRows ==
  ASSUME RowInv, NEW b \in Builder, BuildFind(b)
  PROVE  RowInv'
<1>1. PICK command \in Command, dry \in BOOLEAN, writes \in BOOLEAN, ready \in BOOLEAN :
        builders' = [builders EXCEPT ![b] =
          [at |-> "found",
           wants |-> [target |-> selected, command |-> command, dry |-> dry,
                      writes |-> writes, ready |-> ready],
           row |-> NewestOf(Pending(approvals)),
           rows |-> <<>>]]
  BY DEF BuildFind
<1> DEFINE wants == [target |-> selected, command |-> command, dry |-> dry,
                     writes |-> writes, ready |-> ready]
           newest == NewestOf(Pending(approvals))
           work == [at |-> "found", wants |-> wants, row |-> newest, rows |-> <<>>]
<1>2. wants \in Package
  BY DEF BuildFind, RowInv, Package
<1>3. /\ Len(approvals) \in Nat /\ Len(approvals) <= MaxApprovals /\ MaxApprovals \in Nat
      /\ DOMAIN approvals = 1 .. Len(approvals)
  BY ApprovalsAssumption DEF RowInv, ApprovalTypeOK
<1>4. newest \in 0 .. Len(approvals)
  <2>1. Pending(approvals) \in SUBSET (1 .. Len(approvals))
    BY <1>3 DEF Pending
  <2> QED
    BY <1>3, <2>1, NewestOfType
<1>5. newest \in 0 .. MaxApprovals /\ newest <= Len(approvals)
  BY <1>3, <1>4
<1>6. builders' = [builders EXCEPT ![b] = work]
  BY <1>1
<1> HIDE DEF wants, newest
<1>7. work \in Work /\ work.at = "found" /\ work.row = newest
  BY <1>2, <1>5 DEF Work
<1> HIDE DEF work
<1>8. /\ builders' \in [Builder -> {Idle} \cup Work]
      /\ \A c \in Builder : builders'[c] = IF c = b THEN work ELSE builders[c]
  BY <1>6, <1>7 DEF RowInv
<1>9. /\ UNCHANGED <<approvalVars, selected, lock, granted, selections, crashes>>
      /\ builders[b] = Idle /\ builds' \in 0 .. MaxBuilds
  BY RemoteAssumption DEF BuildFind, RowInv
<1>10. lock # b
  <2>1. Idle.at = "idle"
    BY DEF Idle
  <2>2. None \notin Builder
    BY RemoteAssumption
  <2> QED
    BY <1>9, <2>1, <2>2 DEF RowInv, HolderKeepsRows
<1>11. ApprovalTypeOK' /\ approvals' = approvals
  BY <1>9 DEF RowInv, ApprovalTypeOK, approvalVars
<1>12. FoundRowsExist'
  BY <1>5, <1>7, <1>8, <1>11 DEF RowInv, FoundRowsExist
<1>13. HolderKeepsRows'
  BY <1>8, <1>9, <1>10, <1>11 DEF RowInv, HolderKeepsRows
<1> QED
  BY <1>8, <1>9, <1>11, <1>12, <1>13 DEF RowInv

\* What a flush makes of the rows has their type and loses none.
LEMMA RowsAfterType ==
  ASSUME RowInv, NEW b \in Builder, builders[b].at = "found"
  PROVE  RowsAfter(b) \in Seq(Row) /\ Len(approvals) <= Len(RowsAfter(b))
<1> DEFINE wants == builders[b].wants
           i == builders[b].row
           new == NewRow("launch", wants, ActOf[wants.command])
<1>1. builders[b] \in Work
  <2>1. Idle.at = "idle"
    BY DEF Idle
  <2> QED
    BY <2>1 DEF RowInv
<1>2. wants \in Package /\ i \in 0 .. MaxApprovals /\ i <= Len(approvals)
  BY <1>1 DEF Work, RowInv, FoundRowsExist
<1>3. "launch" \in Class /\ wants \in Wish /\ ActOf[wants.command] \in Acts
  BY <1>2, LaunchAssumption, RemoteAssumption DEF Package
<1>4. new \in Row
  BY <1>3, NewRowFacts, ApprovalsAssumption
<1>5. approvals \in Seq(Row) /\ MaxApprovals \in Nat
  BY ApprovalsAssumption DEF RowInv, ApprovalTypeOK
<1>6. RowsAfter(b) =
        IF Needed(wants)
        THEN IF i = 0 THEN Append(approvals, new)
             ELSE [approvals EXCEPT ![i] = Refreshed(@, wants)]
        ELSE IF i = 0 THEN approvals ELSE [approvals EXCEPT ![i] = Expired(@)]
  BY DEF RowsAfter
<1> HIDE DEF wants, new, i
<1>7. CASE i = 0
  <2>1. Append(approvals, new) \in Seq(Row) /\ Len(Append(approvals, new)) = Len(approvals) + 1
    BY <1>4, <1>5
  <2> QED
    BY <1>5, <1>6, <1>7, <2>1
<1>8. CASE i # 0
  <2>1. i \in DOMAIN approvals /\ approvals[i] \in Row
    BY <1>2, <1>5, <1>8
  <2>2. Refreshed(approvals[i], wants) \in Row
    <3>1. Refreshed(approvals[i], wants) =
            IF new.status = "pending"
            THEN [new EXCEPT !.status = approvals[i].status, !.by = approvals[i].by]
            ELSE new
      BY DEF Refreshed, new
    <3> QED
      BY <1>4, <2>1, <3>1 DEF Row
  <2>3. Expired(approvals[i]) \in Row
    BY <2>1 DEF Expired, Row, Status
  <2>4. ASSUME NEW r \in Row
        PROVE  /\ [approvals EXCEPT ![i] = r] \in Seq(Row)
               /\ Len([approvals EXCEPT ![i] = r]) = Len(approvals)
    BY <1>5, <2>1
  <2> QED
    BY <1>5, <1>6, <1>8, <2>2, <2>3, <2>4
<1> QED
  BY <1>7, <1>8

LEMMA FlushKeepsRows ==
  ASSUME RowInv, NEW b \in Builder, BuildFlush(b)
  PROVE  RowInv'
<1> DEFINE after == RowsAfter(b)
           work == [builders[b] EXCEPT !.at = "flushed", !.rows = after]
<1>1. after \in Seq(Row) /\ Len(approvals) <= Len(after) /\ Len(after) <= MaxApprovals
  BY RowsAfterType DEF BuildFlush
<1>2. builders[b] \in Work
  <2>1. Idle.at = "idle"
    BY DEF Idle
  <2> QED
    BY <2>1 DEF RowInv, BuildFlush
<1>3. builders' = [builders EXCEPT ![b] = work] /\ lock' = IF after = approvals THEN None ELSE b
  BY DEF BuildFlush
<1> HIDE DEF after
<1>4. work \in Work /\ work.at = "flushed" /\ work.rows = after
  BY <1>1, <1>2 DEF Work
<1> HIDE DEF work
<1>5. /\ builders' \in [Builder -> {Idle} \cup Work]
      /\ \A c \in Builder : builders'[c] = IF c = b THEN work ELSE builders[c]
  BY <1>3, <1>4 DEF RowInv
<1>6. UNCHANGED <<approvalVars, selected, granted, builds, selections, crashes>>
  BY DEF BuildFlush
<1>7. ApprovalTypeOK' /\ approvals' = approvals
  BY <1>6 DEF RowInv, ApprovalTypeOK, approvalVars
<1>8. FoundRowsExist'
  BY <1>4, <1>5, <1>7 DEF RowInv, FoundRowsExist
<1>9. HolderKeepsRows'
  BY <1>1, <1>3, <1>4, <1>5, <1>7 DEF HolderKeepsRows
<1> QED
  BY <1>3, <1>5, <1>6, <1>7, <1>8, <1>9 DEF RowInv

LEMMA WriteKeepsRows ==
  ASSUME RowInv, NEW b \in Builder, BuildWrite(b)
  PROVE  RowInv'
<1> DEFINE work == [builders[b] EXCEPT !.at = "written"]
<1>1. builders[b] \in Work
  <2>1. Idle.at = "idle"
    BY DEF Idle
  <2> QED
    BY <2>1 DEF RowInv, BuildWrite
<1>2. builders' = [builders EXCEPT ![b] = work]
  BY DEF BuildWrite
<1>3. work \in Work /\ work.at = "written" /\ work.rows = builders[b].rows
  BY <1>1 DEF Work
<1> HIDE DEF work
<1>4. /\ builders' \in [Builder -> {Idle} \cup Work]
      /\ \A c \in Builder : builders'[c] = IF c = b THEN work ELSE builders[c]
  BY <1>2, <1>3 DEF RowInv
<1>5. UNCHANGED <<approvalVars, selected, lock, granted, builds, selections, crashes>>
  BY DEF BuildWrite
<1>6. ApprovalTypeOK' /\ approvals' = approvals
  BY <1>5 DEF RowInv, ApprovalTypeOK, approvalVars
<1>7. FoundRowsExist'
  BY <1>3, <1>4, <1>6 DEF RowInv, FoundRowsExist
<1>8. HolderKeepsRows'
  BY <1>3, <1>4, <1>5, <1>6 DEF RowInv, HolderKeepsRows
<1> QED
  BY <1>4, <1>5, <1>6, <1>7, <1>8 DEF RowInv

LEMMA CommitKeepsRows ==
  ASSUME RowInv, NEW b \in Builder, BuildCommit(b)
  PROVE  RowInv'
<1>1. /\ builders' = [builders EXCEPT ![b] = Idle]
      /\ UNCHANGED <<policy, policyChanges, answers, remembered, selected, builds,
                     selections, crashes>>
  BY DEF BuildCommit
<1>2. /\ builders' \in [Builder -> {Idle} \cup Work]
      /\ \A c \in Builder : builders'[c] = IF c = b THEN Idle ELSE builders[c]
  BY <1>1 DEF RowInv
<1>3. builders[b] \in Work
  <2>1. Idle.at = "idle"
    BY DEF Idle
  <2> QED
    BY <2>1 DEF RowInv, BuildCommit
<1>4. Len(approvals) \in Nat /\ approvals \in Seq(Row) /\ MaxApprovals \in Nat
  BY ApprovalsAssumption DEF RowInv, ApprovalTypeOK
<1>5. /\ approvals' \in Seq(Row) /\ Len(approvals') <= MaxApprovals
      /\ Len(approvals) <= Len(approvals')
      /\ DOMAIN approvals \subseteq DOMAIN approvals'
  <2>1. CASE lock = b
    <3>1. approvals' = builders[b].rows
      BY <2>1 DEF BuildCommit
    <3>2. b # None
      BY RemoteAssumption
    <3>3. approvals' \in Seq(Row)
      BY <1>3, <3>1 DEF Work
    <3>4. Len(approvals) <= Len(approvals') /\ Len(approvals') <= MaxApprovals
      BY <2>1, <3>1, <3>2 DEF RowInv, HolderKeepsRows
    <3> QED
      BY <1>4, <3>3, <3>4
  <2>2. CASE lock # b
    BY <1>4, <2>2 DEF BuildCommit, RowInv, ApprovalTypeOK
  <2> QED
    BY <2>1, <2>2
<1>6. ApprovalTypeOK'
  BY <1>1, <1>5 DEF RowInv, ApprovalTypeOK
<1>7. lock' \in Builder \cup {None} /\ lock' # b
      /\ (lock' # None => lock' = lock /\ approvals' = approvals)
  BY RemoteAssumption DEF BuildCommit, RowInv
<1>8. granted' \subseteq Wish
  <2>1. GrantsIn(approvals') \subseteq Wish
    BY <1>5, GrantsAreWishes
  <2> QED
    BY <2>1 DEF BuildCommit, RowInv
<1>9. FoundRowsExist'
  <2>1. \A c \in Builder : builders'[c].at = "found" => builders'[c].row <= Len(approvals)
    BY <1>2 DEF RowInv, FoundRowsExist, Idle
  <2>2. \A c \in Builder : builders'[c].at = "found" => builders'[c].row \in Nat
    <3>1. Idle.at = "idle"
      BY DEF Idle
    <3>2. \A w \in Work : w.row \in Nat
      BY <1>4 DEF Work
    <3> QED
      BY <1>2, <3>1, <3>2
  <2> QED
    BY <1>4, <1>5, <2>1, <2>2 DEF FoundRowsExist
<1>10. HolderKeepsRows'
  BY <1>2, <1>7 DEF RowInv, HolderKeepsRows
<1> QED
  BY <1>1, <1>2, <1>6, <1>7, <1>8, <1>9, <1>10 DEF RowInv

LEMMA RowNext == RowInv /\ [Next]_allVars => RowInv'
<1> SUFFICES ASSUME RowInv, [Next]_allVars PROVE RowInv'
  OBVIOUS
<1>1. ASSUME NEW b \in Builder, Build(b) PROVE RowInv'
  BY <1>1, FindKeepsRows, FlushKeepsRows, WriteKeepsRows, CommitKeepsRows DEF Build
<1>2. CASE Users
  BY <1>2, UsersKeepRows
<1>3. CASE Select
  <2>1. ApprovalTypeOK' /\ approvals' = approvals
    BY <1>3 DEF Select, RowInv, ApprovalTypeOK, approvalVars
  <2>2. selected' \in Target \cup {None} /\ selections' \in 0 .. MaxSelections
        /\ UNCHANGED <<builders, lock, granted, builds, crashes>>
    BY <1>3, RemoteAssumption DEF Select, RowInv
  <2> QED
    BY <2>1, <2>2 DEF RowInv, FoundRowsExist, HolderKeepsRows
<1>4. ASSUME NEW t \in Task, Dispatch(t) PROVE RowInv'
  <2>1. UNCHANGED <<approvalVars, selected, builders, lock, granted, builds, selections, crashes>>
    BY <1>4 DEF Dispatch, See, Ask, Start
  <2> QED
    BY <2>1 DEF approvalVars, RowInv, ApprovalTypeOK, FoundRowsExist, HolderKeepsRows
<1>5. CASE Crash
  <2>1. /\ builders' = [b \in Builder |-> Idle] /\ lock' = None /\ answers' = {}
        /\ UNCHANGED <<policy, policyChanges, approvals, remembered, selected, granted,
                       builds, selections>>
        /\ crashes' \in 0 .. MaxCrashes
    BY <1>5, RemoteAssumption DEF Crash, RowInv
  <2>2. ApprovalTypeOK'
    BY <2>1 DEF RowInv, ApprovalTypeOK
  <2>3. FoundRowsExist' /\ HolderKeepsRows'
    BY <2>1 DEF FoundRowsExist, HolderKeepsRows, Idle
  <2> QED
    BY <2>1, <2>2, <2>3 DEF RowInv
<1>6. CASE UNCHANGED allVars
  BY <1>6 DEF allVars, remoteVars, approvalVars, RowInv, ApprovalTypeOK, FoundRowsExist,
              HolderKeepsRows
<1> QED
  BY <1>1, <1>2, <1>3, <1>4, <1>5, <1>6 DEF Next

-------------------------------------------------------------------------------
(* The inductive invariant: packages and dispatches *)

Dispatches == [at : {"idle", "seen", "asked", "done"}, first : Snapshot, second : Snapshot]

\* A dispatch that asked holds a package that is written and passed its preflight.
AskedIsWritten ==
  \A t \in Task : dispatches[t].at = "asked" =>
    dispatches[t].second.package \in written /\ dispatches[t].second.package.ready

PackageInv ==
  /\ package \in written \cup {NoPackage}
  /\ written \subseteq Package
  /\ dispatches \in [Task -> Dispatches]
  /\ launched \subseteq [task : Task, target : Target, command : Command, under : Package]
  /\ AskedIsWritten
  /\ RunIsOnePackage

\* What a dispatch reads has the type of a snapshot.
LEMMA NowType == RowInv /\ PackageInv => Now \in Snapshot
<1> SUFFICES ASSUME RowInv, PackageInv PROVE Now \in Snapshot
  OBVIOUS
<1>1. approvals \in Seq(Row) /\ Len(approvals) \in 0 .. MaxApprovals
  BY ApprovalsAssumption DEF RowInv, ApprovalTypeOK
<1>2. approvals # <<>> => approvals[Len(approvals)].status \in Status
  <2>1. approvals # <<>> => approvals[Len(approvals)] \in Row
    BY <1>1
  <2> QED
    BY <2>1 DEF Row
<1>3. selected \in Target \cup {None} /\ package \in Package \cup {NoPackage}
  BY DEF RowInv, PackageInv
<1> QED
  BY <1>1, <1>2, <1>3 DEF Now, Snapshot

LEMMA NothingType == Nothing \in Snapshot
  BY ApprovalsAssumption DEF Nothing, Snapshot

LEMMA PackageInit == Init => PackageInv
<1> SUFFICES ASSUME Init PROVE PackageInv
  OBVIOUS
<1>1. dispatches \in [Task -> Dispatches] /\ \A t \in Task : dispatches[t].at = "idle"
  BY NothingType DEF Init, Dispatches
<1> QED
  BY <1>1 DEF Init, PackageInv, AskedIsWritten, RunIsOnePackage

LEMMA WriteKeepsPackages ==
  ASSUME RowInv, PackageInv, NEW b \in Builder, BuildWrite(b)
  PROVE  PackageInv'
<1>1. builders[b].wants \in Package
  <2>1. Idle.at = "idle"
    BY DEF Idle
  <2>2. builders[b] \in Work
    BY <2>1 DEF RowInv, BuildWrite
  <2> QED
    BY <2>2 DEF Work
<1>2. /\ package' \in written' /\ written \subseteq written' /\ written' \subseteq Package
      /\ UNCHANGED <<dispatches, launched>>
  BY <1>1 DEF BuildWrite, PackageInv
<1>3. AskedIsWritten'
  BY <1>2 DEF PackageInv, AskedIsWritten
<1>4. RunIsOnePackage'
  BY <1>2 DEF PackageInv, RunIsOnePackage
<1> QED
  BY <1>2, <1>3, <1>4 DEF PackageInv

\* A step that changes the dispatch of one task, and what is launched.
LEMMA DispatchStep ==
  ASSUME PackageInv, NEW t \in Task, NEW d \in Dispatches,
         dispatches' = [dispatches EXCEPT ![t] = d],
         d.at = "asked" => d.second.package \in written /\ d.second.package.ready,
         UNCHANGED <<package, written>>,
         launched' \subseteq [task : Task, target : Target, command : Command, under : Package],
         RunIsOnePackage'
  PROVE  PackageInv'
<1>1. /\ dispatches' \in [Task -> Dispatches]
      /\ \A u \in Task : dispatches'[u] = IF u = t THEN d ELSE dispatches[u]
  BY DEF PackageInv
<1>2. AskedIsWritten'
  BY <1>1 DEF PackageInv, AskedIsWritten
<1> QED
  BY <1>1, <1>2 DEF PackageInv

LEMMA ForgetIsIdle ==
  ASSUME PackageInv, NEW t \in Task
  PROVE  \E d \in Dispatches : Forget(t) = [dispatches EXCEPT ![t] = d] /\ d.at = "idle"
<1> DEFINE d == [at |-> "idle", first |-> Nothing, second |-> Nothing]
<1>1. d \in Dispatches /\ d.at = "idle"
  BY NothingType DEF Dispatches
<1> QED
  BY <1>1 DEF Forget

LEMMA DispatchKeepsPackages ==
  ASSUME RowInv, PackageInv, NEW t \in Task, Dispatch(t)
  PROVE  PackageInv'
<1>1. Now \in Snapshot
  BY NowType
<1>2. dispatches[t] \in Dispatches
  BY DEF PackageInv
<1>3. UNCHANGED <<package, written>>
  BY DEF Dispatch, See, Ask, Start
<1>4. CASE See(t)
  <2> DEFINE d == [dispatches[t] EXCEPT !.at = "seen", !.first = Now]
  <2>1. dispatches' = [dispatches EXCEPT ![t] = d] /\ UNCHANGED launched
    BY <1>4 DEF See
  <2>2. d \in Dispatches /\ d.at = "seen"
    BY <1>1, <1>2 DEF Dispatches
  <2>3. RunIsOnePackage'
    BY <1>3, <2>1 DEF PackageInv, RunIsOnePackage
  <2> HIDE DEF d
  <2> QED
    BY <1>3, <2>1, <2>2, <2>3, DispatchStep DEF PackageInv
<1>5. CASE Ask(t)
  <2>1. UNCHANGED launched
    BY <1>5 DEF Ask
  <2>2. RunIsOnePackage'
    BY <1>3, <2>1 DEF PackageInv, RunIsOnePackage
  <2>3. CASE RequestReady(dispatches[t].first, Now)
    <3> DEFINE d == [dispatches[t] EXCEPT !.at = "asked", !.second = Now]
    <3>1. dispatches' = [dispatches EXCEPT ![t] = d]
      BY <1>5, <2>3 DEF Ask
    <3>2. d \in Dispatches /\ d.second = Now
      BY <1>1, <1>2 DEF Dispatches
    <3>3. Now.package = package /\ package # NoPackage /\ package.ready
      BY <2>3 DEF RequestReady, Now
    <3>4. d.second.package \in written /\ d.second.package.ready
      BY <3>2, <3>3 DEF PackageInv
    <3> HIDE DEF d
    <3> QED
      BY <1>3, <2>1, <2>2, <3>1, <3>2, <3>4, DispatchStep DEF PackageInv
  <2>4. CASE ~ RequestReady(dispatches[t].first, Now)
    <3>1. dispatches' = Forget(t)
      BY <1>5, <2>4 DEF Ask
    <3>2. PICK d \in Dispatches : Forget(t) = [dispatches EXCEPT ![t] = d] /\ d.at = "idle"
      BY ForgetIsIdle
    <3> QED
      BY <1>3, <2>1, <2>2, <3>1, <3>2, DispatchStep DEF PackageInv
  <2> QED
    BY <2>3, <2>4
<1>6. CASE Start(t)
  <2> DEFINE first == dispatches[t].first
             second == dispatches[t].second
             run == [task |-> t, target |-> first.target, command |-> second.package.command,
                     under |-> second.package]
  <2>1. dispatches[t].at = "asked" /\ second.package \in written /\ second.package.ready
    BY <1>6 DEF Start, PackageInv, AskedIsWritten
  <2>2. second.package \in Package
    BY <2>1 DEF PackageInv
  <2>3. PICK d \in Dispatches : Forget(t) = [dispatches EXCEPT ![t] = d] /\ d.at = "idle"
    BY ForgetIsIdle
  <2>4. CASE RunnerAgrees(first, second)
    <3>1. dispatches' = [Forget(t) EXCEPT ![t].at = "done"] /\ launched' = launched \cup {run}
      BY <1>6, <2>4 DEF Start
    <3> DEFINE e == [d EXCEPT !.at = "done"]
    <3>2. dispatches' = [dispatches EXCEPT ![t] = e]
      BY <2>3, <3>1 DEF PackageInv
    <3>3. e \in Dispatches /\ e.at = "done"
      BY DEF Dispatches
    <3>4. first.target = second.package.target
      BY <2>4 DEF RunnerAgrees
    <3>5. run \in [task : Task, target : Target, command : Command, under : Package]
      BY <2>2, <3>4 DEF Package
    <3>6. run.target = second.package.target /\ run.command = second.package.command
      BY <3>4
    <3> HIDE DEF run, e, second, first
    <3>7. RunIsOnePackage'
      BY <1>3, <2>1, <3>1, <3>6 DEF PackageInv, RunIsOnePackage
    <3> QED
      BY <1>3, <3>1, <3>2, <3>3, <3>5, <3>7, DispatchStep DEF PackageInv
  <2>5. CASE ~ RunnerAgrees(first, second)
    <3>1. dispatches' = Forget(t) /\ UNCHANGED launched
      BY <1>6, <2>5 DEF Start
    <3>2. RunIsOnePackage'
      BY <1>3, <3>1 DEF PackageInv, RunIsOnePackage
    <3> QED
      BY <1>3, <2>3, <3>1, <3>2, DispatchStep DEF PackageInv
  <2> QED
    BY <2>4, <2>5
<1> QED
  BY <1>4, <1>5, <1>6 DEF Dispatch

LEMMA CrashKeepsPackages == PackageInv /\ Crash => PackageInv'
<1> SUFFICES ASSUME PackageInv, Crash PROVE PackageInv'
  OBVIOUS
<1> DEFINE idle == [at |-> "idle", first |-> Nothing, second |-> Nothing]
<1>1. /\ dispatches' = [t \in Task |-> IF dispatches[t].at = "done" THEN dispatches[t] ELSE idle]
      /\ UNCHANGED <<package, launched, written>>
  BY DEF Crash
<1>2. idle \in Dispatches /\ idle.at = "idle"
  BY NothingType DEF Dispatches
<1> HIDE DEF idle
<1>3. dispatches' \in [Task -> Dispatches] /\ \A t \in Task : dispatches'[t].at # "asked"
  BY <1>1, <1>2 DEF PackageInv
<1> QED
  BY <1>1, <1>3 DEF PackageInv, AskedIsWritten, RunIsOnePackage

LEMMA PackageNext == RowInv /\ PackageInv /\ [Next]_allVars => PackageInv'
<1> SUFFICES ASSUME RowInv, PackageInv, [Next]_allVars PROVE PackageInv'
  OBVIOUS
<1> DEFINE Same == UNCHANGED <<package, written, dispatches, launched>>
<1>1. Same => PackageInv'
  BY DEF PackageInv, AskedIsWritten, RunIsOnePackage
<1>2. ASSUME NEW b \in Builder, Build(b) PROVE PackageInv'
  <2>1. CASE BuildWrite(b)
    BY <2>1, WriteKeepsPackages
  <2>2. CASE BuildFind(b) \/ BuildFlush(b) \/ BuildCommit(b)
    BY <1>1, <2>2 DEF BuildFind, BuildFlush, BuildCommit
  <2> QED
    BY <1>2, <2>1, <2>2 DEF Build
<1>3. ASSUME NEW t \in Task, Dispatch(t) PROVE PackageInv'
  BY <1>3, DispatchKeepsPackages
<1>4. CASE Users \/ Select
  BY <1>1, <1>4 DEF Users, Select
<1>5. CASE Crash
  BY <1>5, CrashKeepsPackages
<1>6. CASE UNCHANGED allVars
  BY <1>1, <1>6 DEF allVars, remoteVars
<1> QED
  BY <1>2, <1>3, <1>4, <1>5, <1>6 DEF Next

-------------------------------------------------------------------------------
LEMMA RemoteInvariant == Spec => [](RowInv /\ PackageInv)
<1>1. Init => RowInv /\ PackageInv
  BY RowInit, PackageInit
<1>2. (RowInv /\ PackageInv) /\ [Next]_allVars => (RowInv /\ PackageInv)'
  BY RowNext, PackageNext
<1> QED
  BY <1>1, <1>2, PTL DEF Spec

\* Packages, approval rows, builders and dispatches keep their types.
THEOREM RemoteTypes == Spec => []RemoteTypeOK
<1>1. RowInv /\ PackageInv => RemoteTypeOK
  BY DEF RowInv, PackageInv, RemoteTypeOK, Work, Dispatches
<1> QED
  BY <1>1, RemoteInvariant, PTL

\* Whatever is built, selected and answered between the two readings of a
\* dispatch, and whenever the daemon dies, a process runs the command of one
\* package on the target it was built for
\* (build_remote_execution_execution_request, _start_process).
THEOREM RemoteRunIsOnePackage == Spec => []RunIsOnePackage
<1>1. PackageInv => RunIsOnePackage
  BY DEF PackageInv
<1> QED
  BY <1>1, RemoteInvariant, PTL
===============================================================================
