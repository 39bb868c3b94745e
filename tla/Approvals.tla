------------------------------- MODULE Approvals -------------------------------
(* Requests for approval: how the policy settles or leaves them pending, and   *)
(* how users resolve them. An answer reads its row and writes it in two steps: *)
(* the endpoints run in worker threads, and a SELECT of pysqlite opens no      *)
(* transaction, so another answer may be stored in between.                    *)
EXTENDS RiskPolicy, Naturals, Sequences

CONSTANTS
  Class,          \* classes of actions: request type, command or title, directory
  Wish,           \* what a request asks to be allowed
  Acts,           \* actions as the risk classifier sees them
  Policies,       \* the policies a project may be given
  MaxApprovals,   \* bound: rows stored
  MaxPolicies     \* bound: changes of the policy

ASSUME ApprovalsAssumption ==
  /\ Acts \subseteq Action
  /\ Policies \subseteq Policy
  /\ MaxApprovals \in Nat
  /\ MaxPolicies \in Nat

VARIABLES
  policy,         \* security_policies row of the project
  policyChanges,
  approvals,      \* approval_requests rows in id order
  answers,        \* answers that found their row pending and have not stored it yet
  remembered      \* classes in project_settings.approval_overrides_json

approvalVars == <<policy, policyChanges, approvals, answers, remembered>>

Verdict == {"approved_once", "denied", "allowed_for_project"}

Status == Verdict \cup {"pending", "expired"}

Granting == {"approved_once", "allowed_for_project"}

Row == [class : Class, asks : Wish, act : Acts, risk : Level, status : Status,
        by : {"nobody", "user", "policy", "system"}]

(* An answer keeps the risk its row had when it was read.                     *)
Answer == [row : 1 .. MaxApprovals, verdict : Verdict, risk : Level]

ApprovalTypeOK ==
  /\ policy \in Policies
  /\ policyChanges \in 0 .. MaxPolicies
  /\ approvals \in Seq(Row)
  /\ Len(approvals) <= MaxApprovals
  /\ answers \in SUBSET Answer
  /\ \A x \in answers : x.row \in DOMAIN approvals
  /\ remembered \in SUBSET Class

ApprovalInit ==
  /\ policy \in Policies
  /\ policyChanges = 0
  /\ approvals = <<>>
  /\ answers = {}
  /\ remembered = {}

-------------------------------------------------------------------------------
(* A mutant: the decision is stored instead of the status it stands for.      *)
RowWithDecision(class, asks, act) ==
  [class |-> class, asks |-> asks, act |-> act, risk |-> Risk(act),
   status |-> Decision(policy, act), by |-> "policy"]

(* A new row: the policy may settle it at once.                               *)
NewRow(class, asks, act) ==
  LET decision == Decision(policy, act)
  IN  [class  |-> class, asks |-> asks, act |-> act, risk |-> Risk(act),
       status |-> CASE decision = "auto_approved" -> "approved_once"
                    [] decision = "blocked"       -> "denied"
                    [] decision = "pending"       -> "pending",
       by     |-> IF decision = "pending" THEN "nobody" ELSE "policy"]

CreateApproval(class, asks, act) ==
  /\ Len(approvals) < MaxApprovals
  /\ approvals' = Append(approvals, NewRow(class, asks, act))

(* update_policy *)
ChangePolicy ==
  /\ policyChanges < MaxPolicies
  /\ policy' \in Policies \ {policy}
  /\ policyChanges' = policyChanges + 1
  /\ UNCHANGED <<approvals, answers, remembered>>

(* _resolve_approval up to its check that the row is pending                  *)
ReadAnswer(i, verdict) ==
  /\ approvals[i].status = "pending"
  /\ LET x == [row |-> i, verdict |-> verdict, risk |-> approvals[i].risk]
     IN  x \notin answers /\ answers' = answers \cup {x}
  /\ UNCHANGED <<policy, policyChanges, approvals, remembered>>

(* ... and from there to the commit: allowing a class of high risk raises,    *)
(* which rolls back.                                                          *)
Permitted(x) == x.verdict = "allowed_for_project" => MayAllowForProject(x.risk)

StoreAnswer(x) ==
  /\ answers' = answers \ {x}
  /\ IF Permitted(x)
     THEN /\ approvals' = [approvals EXCEPT ![x.row].status = x.verdict, ![x.row].by = "user"]
          /\ remembered' = IF x.verdict = "allowed_for_project"
                           THEN remembered \cup {approvals[x.row].class} ELSE remembered
     ELSE UNCHANGED <<approvals, remembered>>
  /\ UNCHANGED <<policy, policyChanges>>

Resolve ==
  \/ \E i \in DOMAIN approvals, verdict \in Verdict : ReadAnswer(i, verdict)
  \/ \E x \in answers : StoreAnswer(x)

-------------------------------------------------------------------------------
(* The rows by themselves, for requests of any kind.                          *)
Request(class, asks, act) ==
  /\ CreateApproval(class, asks, act)
  /\ UNCHANGED <<policy, policyChanges, answers, remembered>>

ApprovalNext ==
  \/ ChangePolicy
  \/ \E class \in Class, asks \in Wish, act \in Acts : Request(class, asks, act)
  \/ Resolve

ApprovalSpec == ApprovalInit /\ [][ApprovalNext]_approvalVars

-------------------------------------------------------------------------------
(* Whatever the policy, an action of high or critical risk is granted by a    *)
(* user and for one time only (evaluate_action, may_allow_for_project).       *)
HighRiskIsUsersChoice ==
  \A i \in DOMAIN approvals :
    approvals[i].risk \in {"high", "critical"} /\ approvals[i].status \in Granting
      => approvals[i].by = "user" /\ approvals[i].status = "approved_once"

(* Closing a project down loosens nothing: what a policy blocks, the same     *)
(* policy with files read-only, accounts, deployments, network and            *)
(* destructive actions denied and no automatic approval blocks as well.       *)
Tightened(p) ==
  [p EXCEPT !.write = "read_only", !.external = "deny", !.deployment = "deny",
            !.network = "deny", !.destructive = "deny", !.autoLow = FALSE,
            !.autoMedium = FALSE, !.highNeedsUser = TRUE]

TighteningBlocksMore ==
  \A act \in Acts :
    Decision(policy, act) = "blocked" => Decision(Tightened(policy), act) = "blocked"

(* "Policy blocks direct credential or secret access." (security/service.py:110) *)
SecretsAreBlocked ==
  \A i \in DOMAIN approvals :
    "credentials" \in Signals(approvals[i].act) => approvals[i].status = "denied"

(* "Reject this action and keep the current safeguards in place."              *)
(* (bridge_messages.py:327): a denied request is not granted afterwards.       *)
DenialStands ==
  [][\A i \in DOMAIN approvals :
       approvals[i].status = "denied" => approvals'[i].status = "denied"]_approvalVars

(* "Allow this class of action for the current project when Mission Control    *)
(* policy permits it." (bridge_messages.py:334): once a class is allowed, a    *)
(* further request of that class and risk is not left pending.                 *)
AllowedClassIsNotAskedAgain ==
  [][\A i \in DOMAIN approvals' \ DOMAIN approvals :
       approvals'[i].class \in remembered /\ MayAllowForProject(approvals'[i].risk)
         => approvals'[i].status # "pending"]_approvalVars
===============================================================================
