------------------------------ MODULE MCApprovals ------------------------------
(* Small instances of Approvals.                                               *)
EXTENDS Approvals

Does(type, signals, words, shows) ==
  [type |-> type, signals |-> signals, words |-> words, shows |-> shows]

(* One action of each risk, and one of a critical kind that writes files.      *)
FewActs ==
  { Does("command", {}, {}, "validation"),
    Does("command", {"writes"}, {}, "command"),
    Does("plugin", {}, {}, "plain_tool"),
    Does("command", {"credentials"}, {}, "command"),
    Does("command", {"writes"}, {"credentials"}, "command") }

(* The default policy, a trusting one, a closed one and limited paths.         *)
Default ==
  [write |-> "workspace_write", external |-> "ask", deployment |-> "deny", network |-> "ask",
   destructive |-> "critical_approval", command |-> "ask", tool |-> "ask",
   autoLow |-> FALSE, autoMedium |-> FALSE, highNeedsUser |-> TRUE]

Trusting ==
  [Default EXCEPT !.command = "allow_low_risk", !.tool = "allow_low_risk",
                  !.network = "allow", !.deployment = "ask",
                  !.autoLow = TRUE, !.autoMedium = TRUE,
                  !.highNeedsUser = FALSE]

LimitedPaths == [Trusting EXCEPT !.write = "limited_paths"]

FewPolicies == {Default, Trusting, LimitedPaths, Tightened(Trusting)}
===============================================================================
