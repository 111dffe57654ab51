------------------------------ MODULE EthBridge ------------------------------
(***************************************************************************)
(* The Ethereum side as a whole: sol/contracts/Bridge.sol, with the        *)
(* RelayerRole it inherits, on top of the safe it is the bridge of.        *)
(* Relayers sign a MultiversX batch off chain; one of them submits the     *)
(* batch with the signatures and the safe pays it out.                     *)
(*                                                                         *)
(* A signature is the pair of its signer and the message it was made for:  *)
(* recovering it for other data yields an address that is no relayer.      *)
(* Signatures need not come from relayers, may be for different messages   *)
(* and may be submitted several times.  A call with bytes that are no      *)
(* signature at all is reverted by _recover and is no step.                *)
(***************************************************************************)
EXTENDS ERC20Safe, FiniteSetsExt


CONSTANTS
    EthAccounts,            \* accounts that may be relayers and that may sign
    InitialEthRelayers,
    InitialEthQuorum,
    EthQuorums,             \* values passed to setQuorum
    MvxBatchNonces,         \* nonces of MultiversX batches
    MvxTransferLists,       \* lists of transfers that messages contain
    MaxSignatures,          \* bound: signatures ever made, and in one call
    BridgeSettleLimits,     \* values passed to Bridge.setBatchSettleLimit
    InitialBridgeSettle

ASSUME EthBridgeAssumption ==
    /\ IsFiniteSet(EthAccounts)
    /\ InitialEthRelayers \subseteq EthAccounts
    /\ InitialEthQuorum \in 1 .. Cardinality(InitialEthRelayers)
    /\ EthQuorums \subseteq Nat
    /\ MvxTransferLists \subseteq
          Seq([token : Tokens, amount : Nat, recipient : EthRecipients])
    /\ MaxSignatures \in Nat
    /\ BridgeSettleLimits \subseteq Nat
    /\ InitialBridgeSettle \in Nat

VARIABLES
    bridgePaused,
    ethRelayers,
    ethQuorum,
    batchSettleBlockCount,
    executedBatches,        \* nonces whose flag is set
    crossTransferStatuses,  \* [createdBlockNumber, statuses], partial map on nonces
    ethSignatures,          \* external: the signatures made so far
    executions              \* history: [nonce, transfers, statuses] in order

bridgeConfigVars == <<bridgePaused, ethRelayers, ethQuorum, batchSettleBlockCount>>
bridgeVars == <<bridgeConfigVars, executedBatches, crossTransferStatuses,
                ethSignatures, executions>>
ethereumVars == <<ethBlock, erc20Vars, bridgeVars>>

Message(nonce, transfers) == [nonce |-> nonce, transfers |-> transfers]

------------------------------------------------------------------------------
(* Views *)

\* getStatusesAfterExecution answers for this batch.
StatusesAreFinal(nonce) ==
    /\ nonce \in DOMAIN crossTransferStatuses
    /\ crossTransferStatuses[nonce].createdBlockNumber > 0
    /\ crossTransferStatuses[nonce].createdBlockNumber + batchSettleBlockCount <= ethBlock

\* The signers that _validateQuorum counts, each once.
ValidEthSigners(signatures, message) ==
    {r \in ethRelayers : \E i \in DOMAIN signatures :
        signatures[i].signer = r /\ signatures[i].message = message}

\* Mutant of SignersCount: a signature submitted twice counts twice.
SignersCountWithRepeats(signatures, message) ==
    Cardinality({i \in DOMAIN signatures :
        signatures[i].signer \in ethRelayers /\ signatures[i].message = message})

SignersCount(signatures, message) == Cardinality(ValidEthSigners(signatures, message))

------------------------------------------------------------------------------
(* Relayers *)

\* External: an account signs a message with its Ethereum key.
SignMessage(account, nonce, transfers) ==
    /\ Cardinality(ethSignatures) < MaxSignatures
    /\ ethSignatures' = ethSignatures \cup
          {[signer |-> account, message |-> Message(nonce, transfers)]}
    /\ UNCHANGED <<ethBlock, erc20Vars, bridgeConfigVars, executedBatches,
                   crossTransferStatuses, executions>>

ExecuteTransfer(caller, nonce, transfers, signatures, refused) ==
    LET result == TransferAll(transfers, refused) IN
    /\ ~bridgePaused
    /\ caller \in ethRelayers
    /\ Len(signatures) >= ethQuorum
    /\ nonce \notin executedBatches
    /\ SignersCount(signatures, Message(nonce, transfers)) >= ethQuorum
    /\ ~result.reverted
    /\ executedBatches' = executedBatches \cup {nonce}
    /\ tokenBalances' = result.tokenBalances
    /\ erc20Balance' = result.erc20
    /\ crossTransferStatuses' =
          [n \in DOMAIN crossTransferStatuses \cup {nonce} |->
              IF n = nonce
              THEN [createdBlockNumber |-> ethBlock, statuses |-> result.statuses]
              ELSE crossTransferStatuses[n]]
    /\ executions' = Append(executions, [nonce |-> nonce, transfers |-> transfers,
                                         statuses |-> result.statuses])
    /\ UNCHANGED <<ethBlock, erc20ConfigVars, depositVars, serviceFees, supplied,
                   gifts, recovered, bridgeConfigVars, ethSignatures>>

\* removeRelayer by the admin, and renounceRelayer by the relayer itself.
RemoveRelayer(account) ==
    /\ account \in ethRelayers
    /\ ethRelayers' = ethRelayers \ {account}
    /\ UNCHANGED <<ethBlock, erc20Vars, bridgePaused, ethQuorum, batchSettleBlockCount,
                   executedBatches, crossTransferStatuses, ethSignatures, executions>>

------------------------------------------------------------------------------
(* Admin *)

AddRelayer(account) ==
    /\ account \notin ethRelayers
    /\ ethRelayers' = ethRelayers \cup {account}
    /\ UNCHANGED <<ethBlock, erc20Vars, bridgePaused, ethQuorum, batchSettleBlockCount,
                   executedBatches, crossTransferStatuses, ethSignatures, executions>>

\* Mutant of SetQuorum: no minimum quorum.
SetQuorumUnchecked(newQuorum) ==
    /\ ethQuorum' = newQuorum
    /\ UNCHANGED <<ethBlock, erc20Vars, bridgePaused, ethRelayers, batchSettleBlockCount,
                   executedBatches, crossTransferStatuses, ethSignatures, executions>>

SetQuorum(newQuorum) ==
    /\ newQuorum >= 1
    /\ ethQuorum' = newQuorum
    /\ UNCHANGED <<ethBlock, erc20Vars, bridgePaused, ethRelayers, batchSettleBlockCount,
                   executedBatches, crossTransferStatuses, ethSignatures, executions>>

BridgeSetBatchSettleLimit(limit) ==
    /\ bridgePaused
    /\ ~IsAnyBatchInProgress
    /\ batchSettleBlockCount' = limit
    /\ UNCHANGED <<ethBlock, erc20Vars, bridgePaused, ethRelayers, ethQuorum,
                   executedBatches, crossTransferStatuses, ethSignatures, executions>>

BridgeSetPaused ==
    /\ bridgePaused' = ~bridgePaused
    /\ UNCHANGED <<ethBlock, erc20Vars, ethRelayers, ethQuorum, batchSettleBlockCount,
                   executedBatches, crossTransferStatuses, ethSignatures, executions>>

------------------------------------------------------------------------------
\* The constructor of the bridge, whose admin unpauses it.
BridgeDeployed(ready) ==
    /\ bridgePaused = ~ready
    /\ ethRelayers = InitialEthRelayers
    /\ ethQuorum = InitialEthQuorum
    /\ batchSettleBlockCount = InitialBridgeSettle
    /\ executedBatches = {}
    /\ crossTransferStatuses = <<>>
    /\ ethSignatures = {}
    /\ executions = <<>>

EthInit == ERC20SafeDeployed(FALSE, 0) /\ BridgeDeployed(FALSE)

EthRelayerNext ==
    \/ \E account \in EthAccounts, nonce \in MvxBatchNonces, transfers \in MvxTransferLists :
          SignMessage(account, nonce, transfers)
    \/ \E caller \in EthAccounts, nonce \in MvxBatchNonces, transfers \in MvxTransferLists,
          n \in 0 .. MaxSignatures, refused \in SUBSET EthRecipients :
          \E signatures \in [1 .. n -> ethSignatures] :
             ExecuteTransfer(caller, nonce, transfers, signatures, refused)

BridgeAdminNext ==
    \/ "relayers" \in EthSwitches /\ \E account \in EthAccounts : AddRelayer(account)
    \/ "relayers" \in EthSwitches /\ \E account \in EthAccounts : RemoveRelayer(account)
    \/ \E newQuorum \in EthQuorums : SetQuorum(newQuorum)
    \/ \E limit \in BridgeSettleLimits : BridgeSetBatchSettleLimit(limit)
    \/ BridgeSetPaused

EthNext ==
    \/ /\ ERC20UserNext \/ ERC20AdminNext
       /\ UNCHANGED <<ethBlock, bridgeVars>>
    \/ NextEthBlock /\ UNCHANGED <<erc20Vars, bridgeVars>>
    \/ EthRelayerNext
    \/ BridgeAdminNext

EthSpec == EthInit /\ [][EthNext]_ethereumVars

------------------------------------------------------------------------------
(* Properties *)

\* Type invariant of the bridge's storage.
EthBridgeTypeOK ==
    /\ bridgePaused \in BOOLEAN
    /\ ethRelayers \in SUBSET EthAccounts
    /\ ethQuorum \in Nat \ {0}
    /\ batchSettleBlockCount \in Nat
    /\ executedBatches \in SUBSET MvxBatchNonces
    /\ DOMAIN crossTransferStatuses = executedBatches
    /\ \A n \in executedBatches :
          crossTransferStatuses[n] \in
             [createdBlockNumber : Nat, statuses : Seq({"Executed", "Rejected"})]
    /\ ethSignatures \in SUBSET [signer : EthAccounts,
          message : [nonce : MvxBatchNonces, transfers : MvxTransferLists]]
    /\ executions \in Seq([nonce : MvxBatchNonces, transfers : MvxTransferLists,
                           statuses : Seq({"Executed", "Rejected"})])

\* The tokens that transfers of a list move.
AmountsOf(list, S) == SumFunctionOnSet([i \in DOMAIN list |-> list[i].amount], S)

\* What a batch of deposits brings, and what an execution pays, of one token.
DepositedIn(batch, t) ==
    AmountsOf(batch.deposits, {i \in DOMAIN batch.deposits : batch.deposits[i].token = t})
PaidBy(e, t) ==
    AmountsOf(e.transfers, {i \in DOMAIN e.transfers :
                               e.transfers[i].token = t /\ e.statuses[i] = "Executed"})

(***************************************************************************)
(* The safe's books: what is booked for a token is what was deposited and  *)
(* supplied, without fees, minus the transfers reported as Executed, each  *)
(* MultiversX batch at most once.  A transfer the token refused costs      *)
(* nothing and a batch that reverts half-way leaves no trace, although     *)
(* executedBatches is set before the transfers run (executeTransfer,       *)
(* transfer, deposit, initSupply).                                         *)
(***************************************************************************)
BooksBalance ==
    LET in(t) == supplied[t] + SumFunction([n \in DOMAIN batches |-> DepositedIn(batches[n], t)])
        out(t) == SumFunction([n \in DOMAIN executions |-> PaidBy(executions[n], t)])
    IN  /\ \A t \in Tokens : tokenBalances[t] = in(t) - out(t)
        /\ \A m, n \in DOMAIN executions :
              executions[m].nonce = executions[n].nonce => m = n

(***************************************************************************)
(* A batch is only paid out when at least quorum different accounts, all   *)
(* relayers at that moment, have signed exactly its nonce and transfers:   *)
(* repeated signatures, those of removed relayers and those for another    *)
(* list of transfers do not count (_validateQuorum).                       *)
(***************************************************************************)
ExecutionHasQuorum ==
    [][\A n \in DOMAIN executions' \ DOMAIN executions :
          LET message == Message(executions'[n].nonce, executions'[n].transfers) IN
          Cardinality({r \in ethRelayers :
              [signer |-> r, message |-> message] \in ethSignatures}) >= ethQuorum]_executions
==============================================================================
