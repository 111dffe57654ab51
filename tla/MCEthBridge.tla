----------------------------- MODULE MCEthBridge -----------------------------
(* The Ethereum contracts, with values for TLC. *)
EXTENDS EthBridge, TLC

MCLimits == {[min |-> 2, max |-> 3]}
MCFee == {[pct |-> 5, max |-> 5]}
Pay(token, amount, to) == [token |-> token, amount |-> amount, recipient |-> to]
CONSTANTS t1, alice, bob
MCTransferLists ==
    {<<Pay(t1, 2, alice), Pay(t1, 2, bob)>>, <<Pay(t1, 1, alice)>>}
==============================================================================
