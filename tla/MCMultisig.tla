------------------------------ MODULE MCMultisig ------------------------------
(* The MultiversX contracts together, with values for TLC. *)
EXTENDS Multisig, TLC

MCServiceFeeConfigs == {[pct |-> 0, max |-> 0]}
MCFeeSplits == {}
RelayerSymmetry == Permutations(Relayers)
==============================================================================
