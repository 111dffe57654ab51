-------------------------- MODULE MCEthToMultiversX --------------------------
(* The Ethereum -> MultiversX half bridge, with values for TLC. *)
EXTENDS EthToMultiversX, TLC

MCServiceFeeConfigs == {[pct |-> 0, max |-> 0]}
MCFeeSplits == {}
MCLimits == {[min |-> 1, max |-> 2]}
MCNoFee == {[pct |-> 0, max |-> 0]}
MCErc20ForToken == [token \in {EsdtToken} |-> CHOOSE t \in Tokens : TRUE]
MCEthRecipientOf == [u \in Users |-> u]
HonestSymmetry == Permutations(Honest)
==============================================================================
