------------------------------ MODULE MCEsdtSafe ------------------------------
(* EsdtSafe on its own, with values for TLC. *)
EXTENDS EsdtSafe, TLC

MCServiceFeeConfigs == {[pct |-> 0, max |-> 2], [pct |-> 5, max |-> 1]}
MCFeeSplits == {<<10>>, <<5, 5>>}
Accounts == Permutations(Users)
==============================================================================
