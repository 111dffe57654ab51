--------------------------- MODULE EthToMultiversX ---------------------------
(***************************************************************************)
(* The Ethereum -> MultiversX half of the bridge as a whole: the deposits  *)
(* of ERC20Safe, the relayers running the steps of                         *)
(* bridge/bridges/ethMultiversX/steps/ethToMultiversX, and the contracts   *)
(* of Multisig, which execute what the relayers send them.                 *)
(*                                                                         *)
(* A relayer reads both chains and sends transactions to MultiversX, which *)
(* are executed later, one sender's transactions in nonce order, and fail  *)
(* without effect when the contract refuses them.  Transactions may be     *)
(* lost, queries may fail and relayers may restart, losing what they hold  *)
(* in memory: each of these uses up one of MaxFailures.  Two relayers may  *)
(* believe at the same time to be the leader, since each of them evaluates *)
(* MyTurnAsLeader with its own clock and its own list of relayers.         *)
(*                                                                         *)
(* Members of Faulty are board members that do not run this program: they  *)
(* call the multisig as they like.                                         *)
(***************************************************************************)
EXTENDS BridgeExecutor

\* What a deposit can ask for is among the transfers that the multisig is asked for.
ASSUME EthToMultiversXAssumption ==
    /\ DepositRecipients \subseteq Recipients
    /\ MaxDeposits <= MaxEthTx
    /\ \A amount \in DepositAmounts, config \in EthServiceFees :
          amount - FeeOf(amount, config) \in TransferAmounts

halfVars == <<chainVars, mempool, clientVars, executor, failures>>

Steps == {"GettingPendingBatchFromEthereum", "VerifyingDepositNonces",
          "ProposingTransferOnMultiversX", "SigningProposedTransferOnMultiversX",
          "WaitingForQuorum", "PerformingActionID"}

FirstStep == "GettingPendingBatchFromEthereum"

------------------------------------------------------------------------------
(* The steps of a relayer *)

(***************************************************************************)
(* GettingPendingBatchFromEthereum, up to the stored batch.  Reading the   *)
(* last executed deposit is a later query of the same step, so it is an    *)
(* action of its own: the contract may move on in between.                 *)
(***************************************************************************)
GetPending(r) ==
    LET n == GetLastExecutedEthBatchID + 1
        reset == ResetRetriesCountOnMultiversX(executor[r])
    IN  /\ At(r, FirstStep)
        /\ IF BatchFromEthereum(n)
           THEN Become(r, StoreBatch(reset, GetBatch(n)), "VerifyingDepositNonces")
           ELSE Become(r, reset, FirstStep)
        /\ UNCHANGED mempool

\* The same when ValidateBatch stops the step.
RefusePending(r) ==
    LET n == GetLastExecutedEthBatchID + 1 IN
    /\ At(r, FirstStep)
    /\ BatchFromEthereum(n)
    /\ RefuseBatch(r, StoreBatch(ResetRetriesCountOnMultiversX(executor[r]), GetBatch(n)),
                   FirstStep)

VerifyLastDepositNonce(r) ==
    /\ At(r, "VerifyingDepositNonces")
    /\ GoTo(r, IF VerifyLastDepositNonceExecuted(executor[r])
               THEN "ProposingTransferOnMultiversX"
               ELSE FirstStep)
    /\ UNCHANGED mempool

\* ProposingTransferOnMultiversX when somebody has proposed the batch already.
FindProposal(r) ==
    /\ At(r, "ProposingTransferOnMultiversX")
    /\ WasTransferProposedOnMultiversX(executor[r])
    /\ GoTo(r, "SigningProposedTransferOnMultiversX")
    /\ UNCHANGED mempool

\* ProposingTransferOnMultiversX in the leader's turn; out of turn nothing happens.
ProposeAsLeader(r) ==
    /\ At(r, "ProposingTransferOnMultiversX")
    /\ MyTurnAsLeader(r)
    /\ ~WasTransferProposedOnMultiversX(executor[r])
    /\ \/ SendFails(r) /\ GoTo(r, FirstStep) /\ UNCHANGED mempool
       \/ /\ ProposeTransferOnMultiversX(r)
          /\ GoTo(r, "SigningProposedTransferOnMultiversX")

SignProposedTransfer(r) ==
    LET e == StoreActionIDForProposeTransfer(executor[r]) IN
    /\ At(r, "SigningProposedTransferOnMultiversX")
    /\ \/ /\ e.actionID = InvalidActionID
          /\ Become(r, e, FirstStep)
          /\ UNCHANGED mempool
       \/ /\ e.actionID # InvalidActionID
          /\ WasActionSignedOnMultiversX(r, e)
          /\ Become(r, e, "WaitingForQuorum")
          /\ UNCHANGED mempool
       \/ /\ e.actionID # InvalidActionID
          /\ ~WasActionSignedOnMultiversX(r, e)
          /\ \/ SendFails(r) /\ Become(r, e, FirstStep) /\ UNCHANGED mempool
             \/ SignActionOnMultiversX(r, e.actionID) /\ Become(r, e, "WaitingForQuorum")

WaitForQuorum(r) ==
    /\ At(r, "WaitingForQuorum")
    /\ IF MaxQuorumRetriesOnMultiversXReached(executor[r])
       THEN GoTo(r, FirstStep)
       ELSE Become(r, CountQuorumRetryOnMultiversX(executor[r]),
                   IF ProcessQuorumReachedOnMultiversX(executor[r])
                   THEN "PerformingActionID" ELSE "WaitingForQuorum")
    /\ UNCHANGED mempool

\* PerformingActionID when the action is gone from the contract.
FindPerformed(r) ==
    /\ At(r, "PerformingActionID")
    /\ WasActionPerformedOnMultiversX(executor[r])
    /\ GoTo(r, FirstStep)
    /\ UNCHANGED mempool

\* PerformingActionID in the leader's turn; the relayer stays to see the effect.
PerformAsLeader(r) ==
    /\ At(r, "PerformingActionID")
    /\ MyTurnAsLeader(r)
    /\ ~WasActionPerformedOnMultiversX(executor[r])
    /\ \/ SendFails(r) /\ GoTo(r, FirstStep) /\ UNCHANGED mempool
       \/ PerformActionOnMultiversX(r) /\ UNCHANGED executor

RelayerStep(r) ==
    \/ GetPending(r)
    \/ VerifyLastDepositNonce(r)
    \/ FindProposal(r)
    \/ SignProposedTransfer(r)
    \/ WaitForQuorum(r)
    \/ FindPerformed(r)

------------------------------------------------------------------------------
(* A deployed bridge in operation, and its steps. *)

FaultyCall(r) ==
    \/ \E transfers \in Lists(EthTransfers, MaxTransfers) :
          ProposeMultiTransferEsdtBatch(r, lastExecutedEthBatchId + 1, transfers)
    \/ \E id \in DOMAIN actions : Sign(r, id)
    \/ \E id \in DOMAIN actions : PerformBatchTransfer(r, id)

HalfBridgeInit == BridgeInit(FirstStep, 0)

EthereumNext ==
    /\ \/ /\ \E token \in Tokens, amount \in DepositAmounts, recipient \in DepositRecipients :
                DepositTokens(token, amount, recipient)
          /\ UNCHANGED ethBlock
       \/ NextEthBlock /\ UNCHANGED erc20Vars
    /\ UNCHANGED <<vars, bridgeVars, mempool, clientVars, executor, failures>>

RelayersNext ==
    \E r \in Honest :
        \/ /\ RelayerStep(r) \/ ProposeAsLeader(r) \/ PerformAsLeader(r)
           /\ UNCHANGED <<chainVars, clientVars, failures>>
        \/ /\ \/ StepFails(r, FirstStep)
              \/ RefusePending(r)
              \/ Restart(r, FirstStep)
              \/ LoseTransaction(r)
           /\ UNCHANGED chainVars

NetworkNext(r) ==
    ExecuteTransaction(r) /\ UNCHANGED <<ethereumVars, clientVars, executor, failures>>

HalfBridgeNext ==
    \/ EthereumNext
    \/ RelayersNext
    \/ \E r \in Honest : NetworkNext(r)
    \/ /\ \/ \E r \in Faulty : FaultyCall(r)
          \/ "multisigPaused" \in Switches /\ MultisigSetPaused
       /\ UNCHANGED <<ethereumVars, mempool, clientVars, executor, failures>>

(***************************************************************************)
(* The polling loop calls a relayer's step again and again, the leader     *)
(* selector hashes the time slot over all relayers so that each gets its   *)
(* turn, and the network executes what is not lost.                        *)
(***************************************************************************)
Fairness ==
    \A r \in Honest :
        /\ WF_halfVars(RelayerStep(r) /\ UNCHANGED <<chainVars, clientVars, failures>>)
        /\ WF_halfVars(ProposeAsLeader(r) /\ UNCHANGED <<chainVars, clientVars, failures>>)
        /\ WF_halfVars(PerformAsLeader(r) /\ UNCHANGED <<chainVars, clientVars, failures>>)
        /\ WF_halfVars(NetworkNext(r))

HalfBridgeSpec == HalfBridgeInit /\ [][HalfBridgeNext]_halfVars

FairHalfBridgeSpec == HalfBridgeSpec /\ Fairness

------------------------------------------------------------------------------
(* Properties *)

\* Type invariant of the relayers and of the network.
RelayersTypeOK ==
    /\ \A r \in Honest :
          /\ executor[r].step \in Steps
          /\ BatchInfo(executor[r].batch) \in Seq(EthTransfers)
          /\ executor[r].actionID \in Nat
          /\ executor[r].quorumRetriesOnMultiversX \in 0 .. MaxQuorumRetriesOnMultiversX
          /\ \A i \in DOMAIN mempool[r] :
                mempool[r][i].type \in {"propose", "sign", "perform"}
    /\ failures \in 0 .. MaxFailures

\* The deposits of batch n as the transfers they ask for, and all deposits.
DepositsOf(n) ==
    [i \in DOMAIN batches[n].deposits |->
        [nonce  |-> batches[n].deposits[i].nonce,
         to     |-> batches[n].deposits[i].recipient,
         amount |-> batches[n].deposits[i].amount]]

AllDeposits == FlattenSeq([n \in DOMAIN batches |-> DepositsOf(n)])

(***************************************************************************)
(* The half bridge does what HalfBridge promises: what the multisig has    *)
(* executed is at any time a prefix of the deposits made on Ethereum, with *)
(* the recipients and amounts of the deposits, whatever fewer than quorum  *)
(* faulty relayers propose and sign and however late the others see it     *)
(* (steps 1 to 5, propose_multi_transfer_esdt_batch, sign, perform_action, *)
(* deposit).                                                               *)
(***************************************************************************)
Half == INSTANCE HalfBridge
        WITH Transfers <- EthTransfers, handedIn <- AllDeposits, handedOut <- executedEthTxs

ImplementsHalfBridge == Half!HalfSpec

(***************************************************************************)
(* Batches are executed whole: the last executed deposit is the last one   *)
(* of the last executed batch.  A deposit that joined its batch after the  *)
(* relayers had read it would be skipped for good                          *)
(* (last_executed_eth_batch_id, last_executed_eth_tx_id, _isBatchFinal).   *)
(***************************************************************************)
BatchesExecutedWhole ==
    /\ lastExecutedEthBatchId <= Len(batches)
    /\ lastExecutedEthTxId =
          Len(FlattenSeq([n \in 1 .. lastExecutedEthBatchId |-> batches[n].deposits]))

(***************************************************************************)
(* Every final Ethereum batch is eventually executed on MultiversX, in     *)
(* spite of lost transactions, failing queries, restarts, relayers that    *)
(* keep an executed batch in memory, and two leaders at a time.            *)
(***************************************************************************)
FinalBatchesAreExecuted ==
    \A n \in 1 .. MaxDeposits :
        (n \in DOMAIN batches /\ IsBatchFinalEth(batches[n])) ~> lastExecutedEthBatchId >= n

\* No relayer waits forever for an action that cannot be performed any more.
RelayersStartOver ==
    \A r \in Honest : []<>At(r, FirstStep)
==============================================================================
