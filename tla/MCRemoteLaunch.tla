----------------------------- MODULE MCRemoteLaunch -----------------------------
(* Small instances of RemoteLaunch: a command of medium risk, and one that       *)
(* installs packages over the network, which makes it of high risk.              *)
EXTENDS RemoteLaunch, TLC

Runs(signals) == [type |-> "command", signals |-> signals \cup {"network"}, words |-> {}, shows |-> "command"]

MediumAct == Runs({})
HighAct == Runs({"packages"})

RemoteActs == {MediumAct, HighAct}
RiskOf == [c \in Command |-> IF c = "install" THEN HighAct ELSE MediumAct]

DefaultPolicy ==
  [write |-> "workspace_write", external |-> "ask", deployment |-> "deny", network |-> "ask",
   destructive |-> "critical_approval", command |-> "ask", tool |-> "ask",
   autoLow |-> FALSE, autoMedium |-> FALSE, highNeedsUser |-> TRUE]

OnePolicy == {DefaultPolicy}
TwoPolicies == {DefaultPolicy, [DefaultPolicy EXCEPT !.network = "deny"]}

AnyPackage == Package

Devices == Permutations(Target)
===============================================================================
