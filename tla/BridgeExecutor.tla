---------------------------- MODULE BridgeExecutor ----------------------------
(***************************************************************************)
(* bridge/bridges/ethMultiversX/bridgeExecutor.go: what a half bridge of a *)
(* relayer remembers between the steps of its state machine, and the calls *)
(* its steps make to the two clients.  Both half bridges use it, each with *)
(* an executor of its own.                                                 *)
(*                                                                         *)
(* executor[r] is the executor of relayer r with the current step of the   *)
(* state machine.  Operators on an executor e return the executor after    *)
(* the call.  Failing queries, lost transactions and restarts each use up  *)
(* one of MaxFailures.                                                     *)
(***************************************************************************)
EXTENDS MultiversXClient, EthereumClient

CONSTANTS
    MaxQuorumRetriesOnEthereum,
    MaxQuorumRetriesOnMultiversX,
    MaxRetriesOnWasProposed,
    MaxFailures             \* bound: lost transactions, errors, restarts

\* checkArgs, without the nil checks; minRetries is 1.
ASSUME BridgeExecutorAssumption ==
    /\ RelayerAccounts = Honest
    /\ MaxQuorumRetriesOnEthereum \in Nat \ {0}
    /\ MaxQuorumRetriesOnMultiversX \in Nat \ {0}
    /\ MaxRetriesOnWasProposed \in Nat \ {0}
    /\ MaxFailures \in Nat

VARIABLES
    executor,
    failures                \* how often something has failed so far

chainVars == <<vars, ethereumVars>>

InvalidActionID == 0

\* createBridgeExecutor, with the state machine's first step and what the step that
\* resolves the statuses has in a local variable while it waits.
NewExecutor(firstStep) ==
    [step |-> firstStep, batch |-> NoBatch, actionID |-> InvalidActionID,
     msgHash |-> NoHash, quorumRetriesOnEthereum |-> 0,
     quorumRetriesOnMultiversX |-> 0, retriesOnWasProposed |-> 0, newNumDeposits |-> 0]

At(r, s) == executor[r].step = s

\* The step of r ends with executor e; the state machine goes on with step s.
Become(r, e, s) == executor' = [executor EXCEPT ![r] = [e EXCEPT !.step = s]]

GoTo(r, s) == Become(r, executor[r], s)

------------------------------------------------------------------------------
(* Counters *)

ResetRetriesCountOnEthereum(e) == [e EXCEPT !.quorumRetriesOnEthereum = 0]

\* Mutant of ResetRetriesCountOnMultiversX: the retries of the last batch still count.
KeepRetriesCountOnMultiversX(e) == e

ResetRetriesCountOnMultiversX(e) == [e EXCEPT !.quorumRetriesOnMultiversX = 0]

ResetRetriesOnWasTransferProposed(e) == [e EXCEPT !.retriesOnWasProposed = 0]

\* The three ProcessMax... methods: is the limit reached, and the counter afterwards.
MaxQuorumRetriesOnEthereumReached(e) ==
    e.quorumRetriesOnEthereum >= MaxQuorumRetriesOnEthereum

CountQuorumRetryOnEthereum(e) == [e EXCEPT !.quorumRetriesOnEthereum = @ + 1]

\* Mutant of MaxQuorumRetriesOnMultiversXReached: one retry too many.
MaxQuorumRetriesOnMultiversXExceeded(e) ==
    e.quorumRetriesOnMultiversX > MaxQuorumRetriesOnMultiversX

MaxQuorumRetriesOnMultiversXReached(e) ==
    e.quorumRetriesOnMultiversX >= MaxQuorumRetriesOnMultiversX

CountQuorumRetryOnMultiversX(e) == [e EXCEPT !.quorumRetriesOnMultiversX = @ + 1]

MaxRetriesOnWasProposedReached(e) == e.retriesOnWasProposed >= MaxRetriesOnWasProposed

CountRetryOnWasProposed(e) ==
    IF e.retriesOnWasProposed < MaxRetriesOnWasProposed
    THEN [e EXCEPT !.retriesOnWasProposed = @ + 1]
    ELSE e

------------------------------------------------------------------------------
(* MultiversX *)

StoreBatch(e, batch) == [e EXCEPT !.batch = batch]

\* verifyDepositNonces
DepositNoncesFollow(batch, lastNonce) ==
    \A i \in DOMAIN batch.deposits : batch.deposits[i].nonce = lastNonce + i

VerifyLastDepositNonceExecuted(e) == DepositNoncesFollow(e.batch, GetLastExecutedEthTxID)

StoreActionIDForProposeTransfer(e) ==
    [e EXCEPT !.actionID = GetActionIDForProposeTransfer(e.batch)]

StoreActionIDForProposeSetStatus(e) ==
    [e EXCEPT !.actionID = GetActionIDForSetStatusOnPendingTransfer(e.batch)]

WasTransferProposedOnMultiversX(e) == WasProposedTransfer(e.batch)

WasSetStatusProposedOnMultiversX(e) == WasProposedSetStatus(e.batch)

WasActionSignedOnMultiversX(r, e) == WasSigned(r, e.actionID)

ProcessQuorumReachedOnMultiversX(e) == QuorumReachedQuery(e.actionID)

WasActionPerformedOnMultiversX(e) == WasExecuted(e.actionID)

ProposeTransferOnMultiversX(r) == ProposeTransfer(r, executor[r].batch)

ProposeSetStatusOnMultiversX(r) == ProposeSetStatus(r, executor[r].batch)

SignActionOnMultiversX(r, id) == SignAction(r, id)

PerformActionOnMultiversX(r) == PerformAction(r, executor[r].actionID)

\* Mutant of ResolveNewDeposits: new deposits count as executed.
ResolveNewDepositsAsExecuted(statuses, newNumDeposits) ==
    [i \in 1 .. (IF newNumDeposits > Len(statuses) THEN newNumDeposits ELSE Len(statuses)) |->
        IF i <= Len(statuses) THEN statuses[i] ELSE "Executed"]

\* Statuses beyond the deposits the contract has now are rejected, and missing ones too.
ResolveNewDeposits(statuses, newNumDeposits) ==
    [i \in 1 .. (IF newNumDeposits > Len(statuses) THEN newNumDeposits ELSE Len(statuses)) |->
        IF i <= Len(statuses) /\ i <= newNumDeposits THEN statuses[i] ELSE "Rejected"]

------------------------------------------------------------------------------
(* Ethereum *)

\* GetBatch of the Ethereum client; batch.ID and the deposits are those of the contract.
GetBatch(n) ==
    TransferBatch(n,
        [i \in DOMAIN batches[n].deposits |->
            DepositTransfer(batches[n].deposits[i].nonce, batches[n].deposits[i].recipient,
                            ConvertToEsdt(batches[n].deposits[i].token),
                            batches[n].deposits[i].amount)])

\* GetAndStoreBatchFromEthereum finds a batch with deposits.
BatchFromEthereum(n) == FinalEthBatch(n) /\ GetBatch(n).deposits # <<>>

WasTransferPerformedOnEthereum(e) == WasBatchExecuted(e.batch.id)

GetBatchStatusesFromEthereum(e) == StatusesAfterExecution(e.batch.id)

SignTransferOnEthereum(r) == BroadcastSignature(r, GenerateMessageHash(executor[r].batch))

ProcessQuorumReachedOnEthereum(r, e) == IsQuorumReached(r, e.msgHash)

PerformTransferOnEthereum(r) ==
    SendExecuteTransfer(r, executor[r].msgHash, executor[r].batch)

ClearStoredP2PSignatures(r) ==
    signaturesHolder' = [signaturesHolder EXCEPT ![r] = {}]

\* WaitAndReturnFinalBatchStatuses asks again until the time is over; a status that is
\* not final by then is an empty list.
WaitAndReturnFinalBatchStatuses(e) == GetBatchStatusesFromEthereum(e)

------------------------------------------------------------------------------
(* The leader *)

\* MyTurnAsLeader in some time slot: the hash of the slot picks any relayer of the list.
\* Clocks and lists differ, so that two relayers may lead at a time.
MyTurnAsLeader(r) == r \in GetAllStakedRelayers

------------------------------------------------------------------------------
(* Failures *)

Fails == failures < MaxFailures /\ failures' = failures + 1

\* A query or sending a transaction fails: every step but the first starts over.
StepFails(r, firstStep) ==
    /\ ~At(r, firstStep)
    /\ Fails
    /\ GoTo(r, firstStep)
    /\ UNCHANGED <<mempool, clientVars>>

\* ValidateBatch refuses the batch, or does not answer: it stays stored in e.
RefuseBatch(r, e, firstStep) ==
    /\ Fails
    /\ Become(r, e, firstStep)
    /\ UNCHANGED <<mempool, clientVars>>

\* Nothing in memory survives a restart; sent transactions do.
Restart(r, firstStep) ==
    /\ Fails
    /\ executor' = [executor EXCEPT ![r] = NewExecutor(firstStep)]
    /\ ForgetSignatures(r)
    /\ UNCHANGED mempool

\* The oldest transaction of r never reaches a block.
LoseTransaction(r) ==
    /\ Fails
    /\ mempool[r] # <<>>
    /\ mempool' = [mempool EXCEPT ![r] = Tail(@)]
    /\ UNCHANGED <<executor, clientVars>>

\* A signature never reaches r, or the Ethereum transaction of r is dropped.
LoseOnEthereum(r) ==
    /\ Fails
    /\ \/ \E signature \in undelivered[r] :
             /\ undelivered' = [undelivered EXCEPT ![r] = @ \ {signature}]
             /\ UNCHANGED ethMempool
       \/ /\ ethMempool[r] # NoEthTx
          /\ ethMempool' = [ethMempool EXCEPT ![r] = NoEthTx]
          /\ UNCHANGED undelivered
    /\ UNCHANGED <<executor, mempool, signaturesHolder>>

\* A deployed bridge in operation.
BridgeInit(firstStep, supply) ==
    /\ block = 0
    /\ SafeDeployed(TRUE)
    /\ MultiTransferInit
    /\ MultisigDeployed(TRUE)
    /\ ERC20SafeDeployed(TRUE, supply)
    /\ BridgeDeployed(TRUE)
    /\ MultiversXClientInit
    /\ EthereumClientInit
    /\ executor = [r \in Honest |-> NewExecutor(firstStep)]
    /\ failures = 0
===============================================================================
