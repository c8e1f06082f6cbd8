------------------------- MODULE MCCopilotTraffic -------------------------
(* Two callers; two models of one account, room for two of their three     *)
(* cooldowns; a stream may report that the account is limited.             *)
EXTENDS CopilotTraffic

CONSTANTS c1, c2, nobody

TwoCallers == {c1, c2}
CooldownKeys == {"account", "model1", "model2"}
TwoModels == {<<"model1", "account">>, <<"model2", "account">>}
=============================================================================
