---------------------------- MODULE ApprovalsProof ----------------------------
(* Proofs for any actions, policies and number of rows: approvals are well     *)
(* typed, what is of high risk is granted by a user and one time only, and     *)
(* closing a policy down unblocks nothing.                                     *)
EXTENDS Approvals, SequenceTheorems, WellFoundedInduction, TLAPS

-------------------------------------------------------------------------------
(* The risk and the decision of an action *)

\* An action that signals nothing has one of the four levels.
LEMMA BareRiskLevel ==
  ASSUME NEW act \in Action
  PROVE  BareRisk(act) \in {"low", "medium", "high"}
<1>1. act.shows \in {"validation", "command", "plain_tool", "risky_tool", "nothing"}
  BY DEF Action
<1>2. CASE act.shows \in {"validation", "plain_tool"}
  BY <1>2 DEF BareRisk
<1>3. CASE act.shows \in {"command", "nothing"}
  BY <1>3 DEF BareRisk
<1>4. CASE act.shows = "risky_tool"
  BY <1>4 DEF BareRisk
<1> QED
  BY <1>1, <1>2, <1>3, <1>4

LEMMA RiskLevel ==
  ASSUME NEW act \in Action
  PROVE  Risk(act) \in Level
<1>1. BareRisk(act) \in {"low", "medium", "high"}
  BY BareRiskLevel
<1> QED
  BY <1>1 DEF Risk, Level

\* The policy alone grants no action of high or critical risk.
LEMMA OnlySmallRisksAreAutomatic ==
  ASSUME NEW p, NEW act, Decision(p, act) = "auto_approved"
  PROVE  Risk(act) \in {"low", "medium"}
<1>1. WriteRule(p, act) # "auto_approved"
  BY DEF WriteRule
<1>2. AutoApproved(p, act)
  BY <1>1 DEF Decision
<1> QED
  BY <1>2 DEF AutoApproved

LEMMA Decisions ==
  ASSUME NEW p, NEW act
  PROVE  Decision(p, act) \in {"blocked", "pending", "auto_approved"}
<1>1. WriteRule(p, act) \in {"blocked", "pending", "none"}
  BY DEF WriteRule
<1> QED
  BY <1>1 DEF Decision

\* A new row has the type of a row, its action's risk, and is granted by the
\* policy only when that risk is small.
LEMMA NewRowFacts ==
  ASSUME Acts \subseteq Action, NEW class \in Class, NEW asks \in Wish, NEW act \in Acts
  PROVE  /\ NewRow(class, asks, act) \in Row
         /\ NewRow(class, asks, act).status \in Granting
              => NewRow(class, asks, act).risk \in {"low", "medium"}
<1> DEFINE decision == Decision(policy, act)
<1>1. decision \in {"blocked", "pending", "auto_approved"}
  BY Decisions
<1>2. Risk(act) \in Level
  BY RiskLevel
<1>3. decision = "auto_approved" => Risk(act) \in {"low", "medium"}
  BY OnlySmallRisksAreAutomatic
<1>4. NewRow(class, asks, act) =
        [class  |-> class, asks |-> asks, act |-> act, risk |-> Risk(act),
         status |-> CASE decision = "auto_approved" -> "approved_once"
                      [] decision = "blocked"       -> "denied"
                      [] decision = "pending"       -> "pending",
         by     |-> IF decision = "pending" THEN "nobody" ELSE "policy"]
  BY DEF NewRow
<1> HIDE DEF decision
<1>5. CASE decision = "auto_approved"
  BY <1>2, <1>3, <1>4, <1>5 DEF Row, Status, Verdict, Granting
<1>6. CASE decision = "blocked"
  BY <1>2, <1>4, <1>6 DEF Row, Status, Verdict, Granting
<1>7. CASE decision = "pending"
  BY <1>2, <1>4, <1>7 DEF Row, Status, Verdict, Granting
<1> QED
  BY <1>1, <1>5, <1>6, <1>7

-------------------------------------------------------------------------------
(* The inductive invariant *)

\* An answer on its way carries the risk of its row, and rows do not change
\* their risk.
AnswersKnowTheRisk ==
  \A x \in answers : x.row \in DOMAIN approvals /\ x.risk = approvals[x.row].risk

ApprovalInv == ApprovalTypeOK /\ AnswersKnowTheRisk /\ HighRiskIsUsersChoice

LEMMA InitInv == ApprovalInit => ApprovalInv
<1> SUFFICES ASSUME ApprovalInit PROVE ApprovalInv
  OBVIOUS
<1>1. approvals = <<>> /\ answers = {}
  BY DEF ApprovalInit
<1>2. DOMAIN approvals = {} /\ Len(approvals) = 0 /\ approvals \in Seq(Row)
  BY <1>1
<1>3. MaxPolicies \in Nat /\ MaxApprovals \in Nat
  BY ApprovalsAssumption
<1>4. ApprovalTypeOK
  BY <1>1, <1>2, <1>3 DEF ApprovalTypeOK, ApprovalInit
<1> QED
  BY <1>1, <1>2, <1>4 DEF ApprovalInv, AnswersKnowTheRisk, HighRiskIsUsersChoice

LEMMA PolicyInv == ApprovalInv /\ ChangePolicy => ApprovalInv'
<1> SUFFICES ASSUME ApprovalInv, ChangePolicy PROVE ApprovalInv'
  OBVIOUS
<1>1. policyChanges' \in 0 .. MaxPolicies
  BY ApprovalsAssumption DEF ChangePolicy, ApprovalInv, ApprovalTypeOK
<1> QED
  BY <1>1 DEF ChangePolicy, ApprovalInv, ApprovalTypeOK, AnswersKnowTheRisk,
              HighRiskIsUsersChoice

LEMMA RequestInv ==
  ASSUME ApprovalInv, NEW class \in Class, NEW asks \in Wish, NEW act \in Acts,
         Request(class, asks, act)
  PROVE  ApprovalInv'
<1> DEFINE row == NewRow(class, asks, act)
<1>1. row \in Row /\ (row.status \in Granting => row.risk \in {"low", "medium"})
  BY NewRowFacts, ApprovalsAssumption
<1>2. approvals' = Append(approvals, row) /\ approvals \in Seq(Row)
      /\ Len(approvals) < MaxApprovals
  BY DEF Request, CreateApproval, ApprovalInv, ApprovalTypeOK
<1> HIDE DEF row
<1>3. /\ approvals' \in Seq(Row)
      /\ Len(approvals') = Len(approvals) + 1
      /\ DOMAIN approvals' = DOMAIN approvals \cup {Len(approvals) + 1}
      /\ \A i \in DOMAIN approvals : approvals'[i] = approvals[i]
      /\ approvals'[Len(approvals) + 1] = row
  BY <1>1, <1>2
<1>4. UNCHANGED <<policy, policyChanges, answers, remembered>>
  BY DEF Request
<1>5. ApprovalTypeOK'
  <2>1. Len(approvals') <= MaxApprovals
    BY <1>2, <1>3, ApprovalsAssumption
  <2> QED
    BY <1>3, <1>4, <2>1 DEF ApprovalInv, ApprovalTypeOK
<1>6. AnswersKnowTheRisk'
  BY <1>3, <1>4 DEF ApprovalInv, AnswersKnowTheRisk
<1>7. HighRiskIsUsersChoice'
  BY <1>1, <1>3 DEF ApprovalInv, HighRiskIsUsersChoice
<1> QED
  BY <1>5, <1>6, <1>7 DEF ApprovalInv

LEMMA ReadInv ==
  ASSUME ApprovalInv, NEW i \in DOMAIN approvals, NEW verdict \in Verdict,
         ReadAnswer(i, verdict)
  PROVE  ApprovalInv'
<1> DEFINE x == [row |-> i, verdict |-> verdict, risk |-> approvals[i].risk]
<1>1. answers' = answers \cup {x} /\ UNCHANGED <<policy, policyChanges, approvals, remembered>>
  BY DEF ReadAnswer
<1>2. approvals[i].risk \in Level /\ i \in 1 .. MaxApprovals
  <2>1. approvals \in Seq(Row) /\ Len(approvals) <= MaxApprovals /\ MaxApprovals \in Nat
    BY ApprovalsAssumption DEF ApprovalInv, ApprovalTypeOK
  <2>2. approvals[i] \in Row /\ i \in 1 .. MaxApprovals
    BY <2>1
  <2> QED
    BY <2>2 DEF Row
<1>3. x \in Answer /\ x.row = i /\ x.risk = approvals[i].risk
  BY <1>2 DEF Answer
<1> HIDE DEF x
<1> QED
  BY <1>1, <1>3 DEF ApprovalInv, ApprovalTypeOK, AnswersKnowTheRisk, HighRiskIsUsersChoice

LEMMA StoreInv ==
  ASSUME ApprovalInv, NEW x \in answers, StoreAnswer(x)
  PROVE  ApprovalInv'
<1>1. /\ x \in Answer /\ x.row \in DOMAIN approvals /\ x.risk = approvals[x.row].risk
      /\ answers' = answers \ {x} /\ UNCHANGED <<policy, policyChanges>>
      /\ approvals \in Seq(Row)
  BY DEF ApprovalInv, ApprovalTypeOK, AnswersKnowTheRisk, StoreAnswer
<1>2. CASE ~Permitted(x)
  BY <1>1, <1>2 DEF ApprovalInv, ApprovalTypeOK, AnswersKnowTheRisk, HighRiskIsUsersChoice,
                    StoreAnswer
<1>3. CASE Permitted(x)
  <2> DEFINE row == [approvals[x.row] EXCEPT !.status = x.verdict, !.by = "user"]
  <2>1. approvals[x.row] \in Row
    BY <1>1
  <2>2. /\ row \in Row /\ row.risk = approvals[x.row].risk
        /\ row.status = x.verdict /\ row.by = "user"
    BY <1>1, <2>1 DEF Row, Status, Answer, Verdict
  <2>3. approvals' = [approvals EXCEPT ![x.row] = row]
    BY <1>3 DEF StoreAnswer
  <2>4. remembered' \in SUBSET Class
    BY <1>3, <2>1 DEF StoreAnswer, ApprovalInv, ApprovalTypeOK, Row
  <2>5. row.risk \in {"high", "critical"} /\ row.status \in Granting
          => row.status = "approved_once"
    BY <1>1, <1>3, <2>2 DEF Permitted, MayAllowForProject, Granting
  <2> HIDE DEF row
  <2>6. /\ approvals' \in Seq(Row) /\ Len(approvals') = Len(approvals)
        /\ DOMAIN approvals' = DOMAIN approvals
        /\ \A i \in DOMAIN approvals :
             approvals'[i] = IF i = x.row THEN row ELSE approvals[i]
    BY <1>1, <2>2, <2>3
  <2>7. ApprovalTypeOK'
    BY <1>1, <2>4, <2>6 DEF ApprovalInv, ApprovalTypeOK
  <2>8. AnswersKnowTheRisk'
    BY <1>1, <2>2, <2>6 DEF ApprovalInv, AnswersKnowTheRisk
  <2>9. HighRiskIsUsersChoice'
    BY <2>2, <2>5, <2>6 DEF ApprovalInv, HighRiskIsUsersChoice
  <2> QED
    BY <2>7, <2>8, <2>9 DEF ApprovalInv
<1> QED
  BY <1>2, <1>3

LEMMA NextInv == ApprovalInv /\ [ApprovalNext]_approvalVars => ApprovalInv'
<1> SUFFICES ASSUME ApprovalInv, [ApprovalNext]_approvalVars PROVE ApprovalInv'
  OBVIOUS
<1>1. CASE ChangePolicy
  BY <1>1, PolicyInv
<1>2. CASE \E class \in Class, asks \in Wish, act \in Acts : Request(class, asks, act)
  BY <1>2, RequestInv
<1>3. CASE Resolve
  BY <1>3, ReadInv, StoreInv DEF Resolve
<1>4. CASE UNCHANGED approvalVars
  BY <1>4 DEF approvalVars, ApprovalInv, ApprovalTypeOK, AnswersKnowTheRisk,
              HighRiskIsUsersChoice
<1> QED
  BY <1>1, <1>2, <1>3, <1>4 DEF ApprovalNext

\* Rows, answers and the policy keep their types.
THEOREM ApprovalTypes == ApprovalSpec => []ApprovalTypeOK
<1>1. ApprovalInv => ApprovalTypeOK
  BY DEF ApprovalInv
<1> QED
  BY InitInv, NextInv, <1>1, PTL DEF ApprovalSpec

\* What is of high or critical risk is granted by a user, for one time, for
\* any policies and any interleaving of answers, requests and changes of the
\* policy (may_allow_for_project, evaluate_action).
THEOREM HighRiskStaysWithUsers == ApprovalSpec => []HighRiskIsUsersChoice
<1>1. ApprovalInv => HighRiskIsUsersChoice
  BY DEF ApprovalInv
<1> QED
  BY InitInv, NextInv, <1>1, PTL DEF ApprovalSpec

-------------------------------------------------------------------------------
(* Finding rows *)

\* Of finitely many rows one is the newest.
LEMMA NewestExists ==
  ASSUME NEW n \in Nat, NEW S \in SUBSET (1 .. n), S # {}
  PROVE  \E i \in S : \A j \in S : j <= i
<1> DEFINE T == {n - i : i \in S}
<1>0. \A i \in S : i \in 1 .. n
  OBVIOUS
<1>1. T \subseteq Nat /\ T # {}
  <2>1. \A i \in S : n - i \in Nat
    BY <1>0
  <2> QED
    BY <2>1
<1>2. IsWellFoundedOn(OpToRel(<, Nat), Nat)
  BY NatLessThanWellFounded
<1>3. PICK x \in T : \A y \in T : ~ (<<y, x>> \in OpToRel(<, Nat))
  BY <1>1, <1>2, WFMin
<1>4. \A y \in T : ~ (y < x)
  BY <1>1, <1>3 DEF OpToRel
<1>5. PICK i \in S : x = n - i
  OBVIOUS
<1>6. \A j \in S : j <= i
  <2> SUFFICES ASSUME NEW j \in S PROVE j <= i
    OBVIOUS
  <2>1. n - j \in T
    OBVIOUS
  <2>2. ~ (n - j < n - i) /\ i \in Nat /\ j \in Nat
    BY <1>0, <1>4, <1>5, <2>1
  <2> QED
    BY <2>2
<1> QED
  BY <1>6

-------------------------------------------------------------------------------
(* Policies *)

\* The chain of rules is monotone in how far a policy is closed down.
LEMMA TighteningIsMonotone ==
  ASSUME NEW p \in Policy, NEW act, Decision(p, act) = "blocked"
  PROVE  Decision(Tightened(p), act) = "blocked"
<1> DEFINE q == Tightened(p)
<1>1. /\ q.write = "read_only" /\ q.external = "deny" /\ q.deployment = "deny"
      /\ q.network = "deny" /\ q.destructive = "deny"
  BY DEF Tightened, Policy
<1>2. WriteRule(p, act) = "blocked" => WriteRule(q, act) = "blocked"
  BY <1>1 DEF WriteRule
<1>3. WriteRule(q, act) \in {"blocked", "none"}
  BY <1>1 DEF WriteRule
<1>4. Forbidden(p, act) => Forbidden(q, act)
  BY <1>1 DEF Forbidden
<1>5. WriteRule(p, act) = "blocked" \/ Forbidden(p, act)
  BY DEF Decision
<1> QED
  BY <1>2, <1>3, <1>4, <1>5 DEF Decision

\* Whatever the policy of the project, closing it down leaves every blocked
\* action blocked (evaluate_action, whose first matching rule decides).
THEOREM ClosingDownUnblocksNothing == ApprovalSpec => []TighteningBlocksMore
<1>1. ApprovalInv => TighteningBlocksMore
  <2> SUFFICES ASSUME ApprovalInv, NEW act \in Acts, Decision(policy, act) = "blocked"
               PROVE  Decision(Tightened(policy), act) = "blocked"
    BY DEF TighteningBlocksMore
  <2>1. policy \in Policy
    BY ApprovalsAssumption DEF ApprovalInv, ApprovalTypeOK
  <2> QED
    BY <2>1, TighteningIsMonotone
<1> QED
  BY InitInv, NextInv, <1>1, PTL DEF ApprovalSpec
===============================================================================
