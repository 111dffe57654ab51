---------------------------- MODULE MCBroadcaster ----------------------------
(* The exchange of signatures, with values for TLC. *)
EXTENDS Broadcaster, TLC

RelayerSymmetry == Permutations(Relayers)
==============================================================================
