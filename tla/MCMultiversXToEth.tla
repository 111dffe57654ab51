-------------------------- MODULE MCMultiversXToEth --------------------------
(* The MultiversX -> Ethereum half bridge, with values for TLC. *)
EXTENDS MultiversXToEth, TLC

MCServiceFeeConfigs == {[pct |-> 0, max |-> 0]}
MCFeeSplits == {}
MCLimits == {[min |-> 1, max |-> 2]}
MCNoFee == {[pct |-> 0, max |-> 0]}
MCErc20ForToken == [token \in {EsdtToken} |-> CHOOSE t \in Tokens : TRUE]
MCEthRecipientOf == [u \in Users |-> CHOOSE a \in EthRecipients : TRUE]

\* What the only user sends, and somewhat more.
MCTransferLists ==
    {<<[token |-> t, amount |-> a, recipient |-> to]>> :
        t \in Tokens, a \in {1, 2}, to \in EthRecipients}
==============================================================================
