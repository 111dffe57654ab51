--------------------------- MODULE MultiversXToEth ---------------------------
(***************************************************************************)
(* The MultiversX -> Ethereum half of the bridge as a whole: the users'    *)
(* transactions in EsdtSafe, the relayers running the steps of             *)
(* bridge/bridges/ethMultiversX/steps/multiversxToEth, the Ethereum bridge *)
(* that pays out the batch they sign, and the multisig through which they  *)
(* report the outcome, so that failed transfers are refunded.              *)
(*                                                                         *)
(* A step is one action, or two where it waits between two reads: a batch  *)
(* or a status it has read may be stale in the next one.  Two relayers may *)
(* believe at the same time to be the leader.  Members of Faulty sign and  *)
(* call what they like on both chains.                                     *)
(***************************************************************************)
EXTENDS BridgeExecutor

CONSTANT
    InitialSupply           \* tokens of the Ethereum safe when the bridge starts

\* Fewer than the quorum of Ethereum are faulty, and what the safe holds can be paid there.
ASSUME MultiversXToEthAssumption ==
    /\ InitialSupply \in Nat
    /\ Cardinality(Faulty) < InitialEthQuorum
    /\ {"Executed", "Rejected"} \subseteq ProposedStatuses
    /\ EthRecipientOf \in [Users -> EthRecipients]
    /\ EsdtToken \in DOMAIN Erc20ForToken => Erc20ForToken[EsdtToken] \in Tokens

VARIABLE
    settlements             \* history: [id, txs, statuses] as settled on MultiversX

halfVars == <<chainVars, mempool, clientVars, executor, failures, settlements>>

FirstStep == "GettingPendingBatchFromMultiversX"

Steps == {FirstStep, "SigningProposedTransferOnEthereum", "WaitingForQuorumOnTransfer",
          "PerformingTransfer", "WaitingTransferConfirmation",
          "ResolvingSetStatusOnMultiversX", "AwaitingFinalStatuses",
          "ProposingSetStatusOnMultiversX", "SigningProposedSetStatusOnMultiversX",
          "WaitingForQuorumOnSetStatus", "PerformingSetStatus"}

------------------------------------------------------------------------------
(* The transfer on Ethereum *)

\* resetCountersOnMultiversX, with the counter for Ethereum.
ResetCounters(e) ==
    ResetRetriesOnWasTransferProposed(
        ResetRetriesCountOnMultiversX(ResetRetriesCountOnEthereum(e)))

\* GettingPendingBatchFromMultiversX
GetPending(r) ==
    LET batch == GetPendingBatch
        stored == StoreBatch(ResetCounters(executor[r]), batch)
    IN  /\ At(r, FirstStep)
        /\ IF batch = NoBatch
           THEN Become(r, ResetCounters(executor[r]), FirstStep)
           ELSE Become(r, stored, IF WasTransferPerformedOnEthereum(stored)
                                  THEN "ResolvingSetStatusOnMultiversX"
                                  ELSE "SigningProposedTransferOnEthereum")
        /\ UNCHANGED <<mempool, clientVars, ethSignatures>>

\* The same when ValidateBatch stops the step.
RefusePending(r) ==
    /\ At(r, FirstStep)
    /\ GetPendingBatch # NoBatch
    /\ RefuseBatch(r, StoreBatch(ResetCounters(executor[r]), GetPendingBatch), FirstStep)

SignProposedTransfer(r) ==
    /\ At(r, "SigningProposedTransferOnEthereum")
    /\ SignTransferOnEthereum(r)
    /\ Become(r, [executor[r] EXCEPT !.msgHash = GenerateMessageHash(executor[r].batch)],
              "WaitingForQuorumOnTransfer")
    /\ UNCHANGED <<mempool, ethMempool>>

WaitForQuorumOnTransfer(r) ==
    /\ At(r, "WaitingForQuorumOnTransfer")
    /\ IF MaxQuorumRetriesOnEthereumReached(executor[r])
       THEN GoTo(r, FirstStep)
       ELSE Become(r, CountQuorumRetryOnEthereum(executor[r]),
                   IF ProcessQuorumReachedOnEthereum(r, executor[r])
                   THEN "PerformingTransfer" ELSE "WaitingForQuorumOnTransfer")
    /\ UNCHANGED <<mempool, clientVars, ethSignatures>>

\* PerformingTransfer when the batch was paid out, or out of turn.
CheckTransfer(r) ==
    /\ At(r, "PerformingTransfer")
    /\ GoTo(r, IF WasTransferPerformedOnEthereum(executor[r])
               THEN "ResolvingSetStatusOnMultiversX" ELSE "WaitingTransferConfirmation")
    /\ UNCHANGED <<mempool, clientVars, ethSignatures>>

\* PerformingTransfer in the leader's turn.
PerformTransferAsLeader(r) ==
    /\ At(r, "PerformingTransfer")
    /\ MyTurnAsLeader(r)
    /\ ~WasTransferPerformedOnEthereum(executor[r])
    /\ \/ /\ \/ TransferFails(r, executor[r].msgHash, executor[r].batch)
             \/ ethMempool[r] # NoEthTx
          /\ GoTo(r, FirstStep)
          /\ UNCHANGED ethMempool
       \/ /\ PerformTransferOnEthereum(r)
          /\ GoTo(r, "WaitingTransferConfirmation")
    /\ UNCHANGED <<mempool, signaturesHolder, undelivered, ethSignatures>>

\* WaitForTransferConfirmation ends when the batch was executed or the time is over.
WaitTransferConfirmation(r) ==
    /\ At(r, "WaitingTransferConfirmation")
    /\ GoTo(r, "PerformingTransfer")
    /\ UNCHANGED <<mempool, clientVars, ethSignatures>>

------------------------------------------------------------------------------
(* The statuses on MultiversX *)

(***************************************************************************)
(* ResolvingSetStatusOnMultiversX.  Of the batch that is fetched again     *)
(* only the number of deposits is used, not the id; it is as old as the    *)
(* wait for the statuses is long.  No final statuses within the time       *)
(* WaitAndReturnFinalBatchStatuses has means starting over.                *)
(***************************************************************************)
FetchBatchAgain(r) ==
    /\ At(r, "ResolvingSetStatusOnMultiversX")
    /\ ClearStoredP2PSignatures(r)
    /\ IF GetPendingBatch = NoBatch
       THEN GoTo(r, FirstStep)
       ELSE Become(r, [executor[r] EXCEPT !.newNumDeposits = Len(GetPendingBatch.deposits)],
                   "AwaitingFinalStatuses")
    /\ UNCHANGED <<mempool, undelivered, ethMempool, ethSignatures>>

ResolveSetStatus(r) ==
    LET statuses == WaitAndReturnFinalBatchStatuses(executor[r])
        e == [executor[r] EXCEPT !.newNumDeposits = 0]
    IN  /\ At(r, "AwaitingFinalStatuses")
        /\ IF statuses = <<>>
           THEN Become(r, e, FirstStep)
           ELSE Become(r, [e EXCEPT !.batch.statuses =
                              ResolveNewDeposits(statuses, executor[r].newNumDeposits)],
                       "ProposingSetStatusOnMultiversX")
        /\ UNCHANGED <<mempool, clientVars, ethSignatures>>

\* ProposingSetStatusOnMultiversX out of turn, or when the statuses are proposed already.
FindProposedSetStatus(r) ==
    /\ At(r, "ProposingSetStatusOnMultiversX")
    /\ IF MaxRetriesOnWasProposedReached(executor[r])
       THEN GoTo(r, FirstStep)
       ELSE Become(r, CountRetryOnWasProposed(executor[r]),
                   IF WasSetStatusProposedOnMultiversX(executor[r])
                   THEN "SigningProposedSetStatusOnMultiversX"
                   ELSE "ProposingSetStatusOnMultiversX")
    /\ UNCHANGED <<mempool, clientVars, ethSignatures>>

ProposeSetStatusAsLeader(r) ==
    LET e == CountRetryOnWasProposed(executor[r]) IN
    /\ At(r, "ProposingSetStatusOnMultiversX")
    /\ MyTurnAsLeader(r)
    /\ ~MaxRetriesOnWasProposedReached(executor[r])
    /\ ~WasSetStatusProposedOnMultiversX(executor[r])
    /\ \/ SendFails(r) /\ Become(r, e, FirstStep) /\ UNCHANGED mempool
       \/ ProposeSetStatusOnMultiversX(r) /\ Become(r, e, "SigningProposedSetStatusOnMultiversX")
    /\ UNCHANGED <<clientVars, ethSignatures>>

SignProposedSetStatus(r) ==
    LET e == StoreActionIDForProposeSetStatus(executor[r]) IN
    /\ At(r, "SigningProposedSetStatusOnMultiversX")
    /\ \/ /\ e.actionID = InvalidActionID
          /\ Become(r, e, FirstStep)
          /\ UNCHANGED mempool
       \/ /\ e.actionID # InvalidActionID
          /\ WasActionSignedOnMultiversX(r, e)
          /\ Become(r, e, "WaitingForQuorumOnSetStatus")
          /\ UNCHANGED mempool
       \/ /\ e.actionID # InvalidActionID
          /\ ~WasActionSignedOnMultiversX(r, e)
          /\ \/ SendFails(r) /\ Become(r, e, FirstStep) /\ UNCHANGED mempool
             \/ /\ SignActionOnMultiversX(r, e.actionID)
                /\ Become(r, e, "WaitingForQuorumOnSetStatus")
    /\ UNCHANGED <<clientVars, ethSignatures>>

WaitForQuorumOnSetStatus(r) ==
    /\ At(r, "WaitingForQuorumOnSetStatus")
    /\ IF MaxQuorumRetriesOnMultiversXReached(executor[r])
       THEN GoTo(r, FirstStep)
       ELSE Become(r, CountQuorumRetryOnMultiversX(executor[r]),
                   IF ProcessQuorumReachedOnMultiversX(executor[r])
                   THEN "PerformingSetStatus" ELSE "WaitingForQuorumOnSetStatus")
    /\ UNCHANGED <<mempool, clientVars, ethSignatures>>

\* PerformingSetStatus when the action is gone from the contract.
FindSetStatusPerformed(r) ==
    /\ At(r, "PerformingSetStatus")
    /\ WasActionPerformedOnMultiversX(executor[r])
    /\ GoTo(r, FirstStep)
    /\ UNCHANGED <<mempool, clientVars, ethSignatures>>

\* PerformingSetStatus in the leader's turn; the relayer stays to see the effect.
PerformSetStatusAsLeader(r) ==
    /\ At(r, "PerformingSetStatus")
    /\ MyTurnAsLeader(r)
    /\ ~WasActionPerformedOnMultiversX(executor[r])
    /\ \/ SendFails(r) /\ GoTo(r, FirstStep) /\ UNCHANGED mempool
       \/ PerformActionOnMultiversX(r) /\ UNCHANGED executor
    /\ UNCHANGED <<clientVars, ethSignatures>>

RelayerStep(r) ==
    \/ GetPending(r)
    \/ SignProposedTransfer(r)
    \/ WaitForQuorumOnTransfer(r)
    \/ CheckTransfer(r)
    \/ WaitTransferConfirmation(r)
    \/ FetchBatchAgain(r)
    \/ ResolveSetStatus(r)
    \/ FindProposedSetStatus(r)
    \/ SignProposedSetStatus(r)
    \/ WaitForQuorumOnSetStatus(r)
    \/ FindSetStatusPerformed(r)

------------------------------------------------------------------------------
(* A deployed bridge in operation, and its steps. *)

\* What the relayers and their steps never touch.
chainsButSignatures == <<vars, ethBlock, erc20Vars, bridgeConfigVars, executedBatches,
                         crossTransferStatuses, executions>>

HalfBridgeInit ==
    /\ BridgeInit(FirstStep, InitialSupply)
    /\ settlements = <<>>

\* Users, blocks of both chains, and the owner of the safe changing the batch size.
MultiversXNext ==
    /\ \/ /\ \/ \E from \in Users, payment \in Payments, fee \in RequiredFees :
                   CreateTransaction(from, payment, fee)
             \/ \E size \in BatchSizes : SafeSetMaxTxBatchSize(size)
          /\ UNCHANGED block
       \/ NextBlock /\ UNCHANGED safeVars
    /\ UNCHANGED <<multiTransferVars, multisigVars, ethereumVars>>

EthereumNext ==
    \/ NextEthBlock /\ UNCHANGED <<vars, erc20Vars, bridgeVars>>
    \/ /\ "relayers" \in EthSwitches
       /\ \E r \in Faulty : RemoveRelayer(r)
       /\ UNCHANGED vars

RelayersNext ==
    \E r \in Honest :
        \/ /\ \/ RelayerStep(r)
              \/ PerformTransferAsLeader(r)
              \/ ProposeSetStatusAsLeader(r)
              \/ PerformSetStatusAsLeader(r)
           /\ UNCHANGED <<chainsButSignatures, failures>>
        \/ /\ \/ StepFails(r, FirstStep)
              \/ RefusePending(r)
              \/ Restart(r, FirstStep)
              \/ LoseTransaction(r)
              \/ LoseOnEthereum(r)
           /\ UNCHANGED chainVars

\* What performing the action id settles, if anything.
RecordSettlement(id) ==
    settlements' =
        IF Len(settled') > Len(settled)
        THEN Append(settlements, [id |-> safe.firstBatchId, txs |-> FirstBatch(safe),
                                  statuses |-> actions[id].statuses])
        ELSE settlements

DeliverSignature(r, signer) ==
    /\ ReceiveSignature(r, signer)
    /\ UNCHANGED <<chainVars, mempool, executor, failures, settlements>>

ExecuteOnMultiversX(r) ==
    /\ ExecuteTransaction(r)
    /\ RecordSettlement(Head(mempool[r]).id)
    /\ UNCHANGED <<ethereumVars, clientVars, executor, failures>>

ExecuteOnEthereum(r) ==
    /\ ExecuteEthTransaction(r)
    /\ UNCHANGED <<vars, mempool, executor, failures, settlements>>

FaultyCallOnMultiversX(r) ==
    \/ /\ \/ \E batchId \in BatchIds, statuses \in Lists(ProposedStatuses, MaxStatuses) :
                ProposeEsdtSafeSetCurrentTransactionBatchStatus(r, batchId, statuses)
          \/ \E id \in DOMAIN actions : Sign(r, id)
       /\ UNCHANGED settlements
    \/ \E id \in DOMAIN actions : PerformSetStatus(r, id) /\ RecordSettlement(id)

\* A faulty relayer signs anything, for everyone; it may submit any signature twice.
FaultyCallOnEthereum(r) ==
    \/ \E nonce \in MvxBatchNonces, transfers \in MvxTransferLists :
          /\ SignMessage(r, nonce, transfers)
          /\ undelivered' = [other \in Honest |->
                undelivered[other] \cup {[signer |-> r, message |-> Message(nonce, transfers)]}]
    \/ \E nonce \in MvxBatchNonces, transfers \in MvxTransferLists,
          refused \in SUBSET RefusedRecipients :
          /\ ExecuteTransfer(r, nonce, transfers,
                             SetToSeq(ethSignatures) \o SetToSeq(ethSignatures), refused)
          /\ UNCHANGED undelivered

FaultyNext(r) ==
    \/ /\ FaultyCallOnMultiversX(r)
       /\ UNCHANGED <<ethereumVars, clientVars>>
    \/ /\ FaultyCallOnEthereum(r)
       /\ UNCHANGED <<vars, signaturesHolder, ethMempool, settlements>>

HalfBridgeNext ==
    \/ /\ MultiversXNext \/ EthereumNext
       /\ UNCHANGED <<mempool, clientVars, executor, failures, settlements>>
    \/ RelayersNext /\ UNCHANGED settlements
    \/ \E r \in Honest :
          \/ \E signer \in EthAccounts : DeliverSignature(r, signer)
          \/ ExecuteOnMultiversX(r)
          \/ ExecuteOnEthereum(r)
    \/ \E r \in Faulty : FaultyNext(r) /\ UNCHANGED <<mempool, executor, failures>>

(***************************************************************************)
(* The polling loop calls a relayer's step again and again; signatures,    *)
(* transactions and blocks that are not lost arrive.  A relayer that keeps *)
(* coming back to a step meets its turn as leader there, since the leader  *)
(* selector hashes the time slot over all relayers.                        *)
(***************************************************************************)
Relaying(A) == A /\ UNCHANGED <<chainsButSignatures, failures, settlements>>

Fairness ==
    /\ WF_halfVars(NextBlock /\ MultiversXNext
                    /\ UNCHANGED <<mempool, clientVars, executor, failures, settlements>>)
    /\ \A r \in Honest :
          /\ WF_halfVars(Relaying(RelayerStep(r)))
          /\ SF_halfVars(Relaying(PerformTransferAsLeader(r)))
          /\ SF_halfVars(Relaying(ProposeSetStatusAsLeader(r)))
          /\ WF_halfVars(Relaying(PerformSetStatusAsLeader(r)))
          /\ \A signer \in Honest \ {r} : WF_halfVars(DeliverSignature(r, signer))
          /\ WF_halfVars(ExecuteOnMultiversX(r))
          /\ WF_halfVars(ExecuteOnEthereum(r))

HalfBridgeSpec == HalfBridgeInit /\ [][HalfBridgeNext]_halfVars

FairHalfBridgeSpec == HalfBridgeSpec /\ Fairness

------------------------------------------------------------------------------
(* Properties *)

\* Type invariant of the relayers and of the network.
RelayersTypeOK ==
    /\ \A r \in Honest :
          /\ executor[r].step \in Steps
          /\ executor[r].batch.id \in 0 .. MaxTx + 1
          /\ executor[r].actionID \in Nat
          /\ executor[r].quorumRetriesOnEthereum \in 0 .. MaxQuorumRetriesOnEthereum
          /\ executor[r].quorumRetriesOnMultiversX \in 0 .. MaxQuorumRetriesOnMultiversX
          /\ executor[r].retriesOnWasProposed \in 0 .. MaxRetriesOnWasProposed
          /\ signaturesHolder[r] \cup undelivered[r] \subseteq ethSignatures
    /\ failures \in 0 .. MaxFailures

(***************************************************************************)
(* A user gets the tokens on Ethereum or the refund on MultiversX, never   *)
(* both and never neither: a batch is settled on MultiversX only after the *)
(* Ethereum bridge has executed it, with the recipients and amounts of the *)
(* safe's transactions, and each transaction is settled as Executed        *)
(* exactly if Ethereum paid it.  This in spite of stale batches, a batch   *)
(* that grows after it was signed, two leaders, lost messages, restarts    *)
(* and fewer than quorum faulty relayers (steps 1 to 10,                   *)
(* ResolveNewDeposits, executeTransfer, set_transaction_batch_status).     *)
(***************************************************************************)
SettledAsExecuted ==
    \A s \in Range(settlements) : \E x \in Range(executions) :
        /\ x.nonce = s.id
        /\ Len(x.transfers) <= Len(s.txs)
        /\ \A i \in DOMAIN x.transfers :
              /\ x.transfers[i].amount = s.txs[i].amount
              /\ x.transfers[i].recipient = EthRecipientOf[s.txs[i].from]
        /\ \A i \in DOMAIN s.txs :
              s.statuses[i] = "Executed" <=>
                  (i \in DOMAIN x.transfers /\ x.statuses[i] = "Executed")

\* The safe's transactions as the transfers they ask for, settled ones first.
Asked(txs) ==
    [i \in DOMAIN txs |-> [token |-> Erc20ForToken[EsdtToken], amount |-> txs[i].amount,
                           recipient |-> EthRecipientOf[txs[i].from]]]

AllAsked ==
    Asked(FlattenSeq([n \in DOMAIN settlements |-> settlements[n].txs]) \o Queue(safe))

AllExecuted == FlattenSeq([n \in DOMAIN executions |-> executions[n].transfers])

(***************************************************************************)
(* The half bridge does what HalfBridge promises: what the Ethereum bridge *)
(* was made to pay is at any time a prefix of what users have asked for    *)
(* on MultiversX, each transaction once and in order, whatever fewer than  *)
(* quorum faulty relayers sign.  It relies on an unchanged batch size:     *)
(* otherwise a batch may grow after its payment (step 1, ExecuteTransfer,  *)
(* executedBatches, clear_first_batch).                                    *)
(***************************************************************************)
Amounts == UNION {0 .. payment : payment \in Payments}

Half == INSTANCE HalfBridge
        WITH Transfers <- [token : Tokens, amount : Amounts, recipient : EthRecipients],
             handedIn <- AllAsked, handedOut <- AllExecuted

ImplementsHalfBridge == Half!HalfSpec

(***************************************************************************)
(* No batch stays closed and final for ever, and only settling changes     *)
(* that while the limits stay: every transaction in one is eventually      *)
(* settled, although retries run out, two relayers may lead at a time,     *)
(* signatures are cleared by one relayer while another still waits for     *)
(* them and relayers hold stale batches (steps 1 to 10).                   *)
(***************************************************************************)
ClosedBatchesAreSettled ==
    \A n \in 1 .. MaxTx : []<>~(HasCurrentTxBatch(safe) /\ safe.firstBatchId = n)

(***************************************************************************)
(* No relayer stays for ever between two batches: each one comes back to   *)
(* the first step again and again, although the loop of PerformingTransfer *)
(* and WaitingTransferConfirmation has no limit.                           *)
(***************************************************************************)
RelayersStartOver == \A r \in Honest : []<>At(r, FirstStep)
==============================================================================
