------------------------------ MODULE RiskPolicy ------------------------------
(* What an action is taken to risk, and what the security policy of a project *)
(* decides about it: a pure function of the action and the policy.            *)
(* An action carries signals (the boolean fields of the request) and words    *)
(* (classes of tokens found in its type, command, tool, title and summary).   *)
EXTENDS FiniteSets

Signal == {"outside", "deletes", "credentials", "deploys", "external",
           "packages", "network", "writes"}

Word == {"deletes", "network", "packages", "deploys", "credentials"}

Level == {"low", "medium", "high", "critical"}

(* "shows" is what is left to judge by when nothing is signalled: a common    *)
(* validation command, another command, a plain or a suspicious tool name, or *)
(* nothing.                                                                   *)
Action == [type    : {"command", "tool", "plugin", "connected_account", "snapshot"},
           signals : SUBSET Signal,
           words   : SUBSET Word,
           shows   : {"validation", "command", "plain_tool", "risky_tool", "nothing"}]

Policy == [write       : {"read_only", "workspace_write", "limited_paths"},
           external    : {"ask", "deny"},
           deployment  : {"ask", "deny"},
           network     : {"ask", "allow", "deny"},
           destructive : {"critical_approval", "deny"},
           command     : {"ask", "allow_low_risk", "deny"},
           tool        : {"ask", "allow_low_risk", "deny"},
           autoLow     : BOOLEAN,
           autoMedium  : BOOLEAN,
           highNeedsUser : BOOLEAN]

-------------------------------------------------------------------------------
(* Words and types add signals to those the request carries.                  *)
Implied(word) ==
  CASE word = "deletes"  -> {"deletes", "writes"}
    [] word = "packages" -> {"packages", "writes", "network"}
    [] OTHER             -> {word}

Signals(act) ==
  act.signals \cup UNION {Implied(word) : word \in act.words}
    \cup (IF act.type \in {"plugin", "connected_account"} THEN {"external"} ELSE {})
    \cup (IF act.type = "snapshot" THEN {"writes"} ELSE {})

(* Nothing is signalled: judged by the command, else by the tool name.        *)
BareRisk(act) ==
  CASE act.shows \in {"validation", "plain_tool"} -> "low"
    [] act.shows \in {"command", "nothing"}       -> "medium"
    [] act.shows = "risky_tool"                   -> "high"

Risk(act) ==
  LET told == Signals(act)
  IN  IF told \cap {"outside", "deletes", "credentials"} # {} THEN "critical"
      ELSE IF told \cap {"deploys", "external"} # {} \/ {"packages", "network"} \subseteq told THEN "high"
      ELSE IF told # {} THEN "medium"
      ELSE BareRisk(act)

-------------------------------------------------------------------------------
(* A mutant: read-only files are asked about like limited paths.              *)
LenientWriteRule(policy, act) ==
  LET told == Signals(act)
  IN  IF "outside" \in told THEN "blocked"
      ELSE IF "writes" \in told /\ policy.write # "workspace_write" THEN "pending"
      ELSE "none"

(* The policy is read from the top: the write rules come before the rules     *)
(* about credentials, deployments, accounts and the network.                  *)
WriteRule(policy, act) ==
  LET told == Signals(act)
  IN  IF "outside" \in told THEN "blocked"
      ELSE IF "writes" \in told /\ policy.write = "read_only" THEN "blocked"
      ELSE IF "writes" \in told /\ policy.write = "limited_paths" THEN "pending"
      ELSE "none"

Forbidden(policy, act) ==
  LET told == Signals(act)
  IN  \/ "credentials" \in told
      \/ "deploys" \in told /\ policy.deployment = "deny"
      \/ "external" \in told /\ act.type \in {"connected_account", "plugin"} /\ policy.external = "deny"
      \/ "network" \in told /\ policy.network = "deny"
      \/ Risk(act) = "critical" /\ policy.destructive = "deny"

AutoApproved(policy, act) ==
  /\ ~ (Risk(act) \in {"high", "critical"} /\ policy.highNeedsUser)
  /\ \/ Risk(act) = "low" /\ policy.command = "allow_low_risk" /\ policy.autoLow
     \/ Risk(act) = "low" /\ act.type # "command"
        /\ policy.tool = "allow_low_risk" /\ policy.autoLow
     \/ Risk(act) = "medium" /\ act.type = "command"
        /\ policy.command = "allow_low_risk" /\ policy.autoMedium

Decision(policy, act) ==
  IF WriteRule(policy, act) # "none" THEN WriteRule(policy, act)
  ELSE IF Forbidden(policy, act) THEN "blocked"
  ELSE IF AutoApproved(policy, act) THEN "auto_approved"
  ELSE "pending"

(* A mutant: any risk may be allowed for the project.                         *)
MayAllowAnything(risk) == risk \in Level

MayAllowForProject(risk) == risk \in {"low", "medium"}
===============================================================================
