--------------------------- MODULE MultiversXClient ---------------------------
(***************************************************************************)
(* What a relayer sees of MultiversX and what it sends there: the queries  *)
(* of bridge/clients/multiversx/mxClientDataGetter.go, the client in front *)
(* of them, the token mappers and the transaction handler, together with   *)
(* the network that executes the transactions.                             *)
(*                                                                         *)
(* A query answers from the state of the contracts at that moment; that it *)
(* may fail is left to the steps that use it.  The client refuses to send  *)
(* while the multisig is paused, the transaction handler while the relayer *)
(* is not on the list of staked relayers.                                  *)
(***************************************************************************)
EXTENDS Multisig

CONSTANTS
    Faulty,                 \* relayers that follow no program
    EsdtToken,              \* the token users bridge, as MultiversX names it
    Erc20ForToken,          \* the ERC20 address registered for a token id
    EthRecipientOf,         \* the Ethereum address a user sends to
    MaxMempool              \* bound: transactions of one relayer under way

ASSUME MultiversXClientAssumption ==
    /\ Faulty \subseteq Relayers
    /\ Cardinality(Faulty) < InitialQuorum
    /\ DOMAIN EthRecipientOf = Users
    /\ MaxMempool \in Nat \ {0}

VARIABLE
    mempool                 \* transactions a relayer has sent, not yet executed

Honest == Relayers \ Faulty

\* clients.DepositTransfer; the token is the converted one.
DepositTransfer(nonce, to, token, amount) ==
    [nonce |-> nonce, to |-> to, token |-> token, amount |-> amount]

\* clients.TransferBatch
TransferBatch(id, deposits) ==
    [id |-> id, deposits |-> deposits, statuses |-> [i \in DOMAIN deposits |-> "None"]]

NoBatch == TransferBatch(0, <<>>)

------------------------------------------------------------------------------
(* Queries *)

\* parseBool: an empty or missing value is false, one byte is a Boolean.
ParseBool(response) == response # <<>> /\ response[1] = 1

\* ExecuteQueryReturningUint64: an empty or missing value is 0.
ParseUint64(response) == IF response = <<>> THEN 0 ELSE response[1]

\* The contract's answers, with optional values as sequences of at most one element.
OptionalId(mapped) ==
    IF mapped = {} THEN <<>> ELSE <<(CHOOSE m \in mapped : TRUE).actionId>>

BoolResult(b) == IF b THEN <<1>> ELSE <<>>

UintResult(n) == IF n = 0 THEN <<>> ELSE <<n>>

\* GetCurrentBatchAsDataBytes: the batch id and the transactions, or nothing.
GetCurrentBatchAsDataBytes ==
    IF HasCurrentTxBatch(safe) THEN <<safe.firstBatchId, FirstBatch(safe)>> ELSE <<>>

GetERC20AddressForTokenId(token) ==
    IF token \in DOMAIN Erc20ForToken THEN <<Erc20ForToken[token]>> ELSE <<>>

GetTokenIdForErc20Address(erc20) ==
    IF \E token \in DOMAIN Erc20ForToken : Erc20ForToken[token] = erc20
    THEN <<CHOOSE token \in DOMAIN Erc20ForToken : Erc20ForToken[token] = erc20>>
    ELSE <<>>

\* addBatchInfo: what the multisig is told about the deposits of a batch.
BatchInfo(batch) ==
    [i \in DOMAIN batch.deposits |->
        [nonce |-> batch.deposits[i].nonce, to |-> batch.deposits[i].to,
         amount |-> batch.deposits[i].amount]]

\* Mutant of ProposedTransfers: any proposal for the batch is taken for one's own.
ProposedForSameBatch(batch) == {m \in transferActions : m.batchId = batch.id}

ProposedTransfers(batch) ==
    {m \in transferActions : m.batchId = batch.id /\ m.transfers = BatchInfo(batch)}

WasProposedTransfer(batch) == ParseBool(BoolResult(ProposedTransfers(batch) # {}))

GetActionIDForProposeTransfer(batch) == ParseUint64(OptionalId(ProposedTransfers(batch)))

\* Mutant of ProposedStatusesOf: any statuses proposed for the batch are taken for one's own.
StatusesForSameBatch(batch) == {m \in statusActions : m.batchId = batch.id}

ProposedStatusesOf(batch) ==
    {m \in statusActions : m.batchId = batch.id /\ m.statuses = batch.statuses}

WasProposedSetStatus(batch) == ParseBool(BoolResult(ProposedStatusesOf(batch) # {}))

GetActionIDForSetStatusOnPendingTransfer(batch) ==
    ParseUint64(OptionalId(ProposedStatusesOf(batch)))

WasExecuted(id) == ParseBool(BoolResult(WasActionExecuted(id)))

WasSigned(r, id) == ParseBool(BoolResult(r \in signers[id]))

QuorumReachedQuery(id) == ParseBool(BoolResult(QuorumReached(id)))

GetLastExecutedEthBatchID == ParseUint64(UintResult(lastExecutedEthBatchId))

GetLastExecutedEthTxID == ParseUint64(UintResult(lastExecutedEthTxId))

IsPausedQuery == ParseBool(BoolResult(multisigPaused))

GetAllStakedRelayers == {r \in board : HasEnoughStake(r)}

------------------------------------------------------------------------------
(* The client *)

\* ConvertToken of the two mappers; an unknown token is an error.
ConvertToErc20(token) == GetERC20AddressForTokenId(token)[1]
ConvertToEsdt(erc20) == GetTokenIdForErc20Address(erc20)[1]

\* createPendingBatchFromResponse; every transaction is for the one ESDT token.
CreatePendingBatchFromResponse(response) ==
    TransferBatch(response[1],
        [k \in DOMAIN response[2] |->
            DepositTransfer(response[2][k].nonce, EthRecipientOf[response[2][k].from],
                            ConvertToErc20(EsdtToken), response[2][k].amount)])

\* GetPending: NoBatch stands for ErrNoPendingBatchAvailable and for an unknown token.
GetPendingBatch ==
    IF GetCurrentBatchAsDataBytes = <<>> \/ GetERC20AddressForTokenId(EsdtToken) = <<>>
    THEN NoBatch
    ELSE CreatePendingBatchFromResponse(GetCurrentBatchAsDataBytes)

\* A send that the transaction handler or the client refuses.
SendFails(r) == IsPausedQuery \/ r \notin GetAllStakedRelayers

\* SendTransactionReturnHash
Send(r, tx) ==
    /\ ~SendFails(r)
    /\ Len(mempool[r]) < MaxMempool
    /\ mempool' = [mempool EXCEPT ![r] = Append(@, tx)]

ProposeSetStatus(r, batch) ==
    Send(r, [type |-> "setStatus", id |-> batch.id, args |-> batch.statuses])

ProposeTransfer(r, batch) ==
    Send(r, [type |-> "propose", id |-> batch.id, args |-> BatchInfo(batch)])

SignAction(r, id) == Send(r, [type |-> "sign", id |-> id, args |-> <<>>])

PerformAction(r, id) == Send(r, [type |-> "perform", id |-> id, args |-> <<>>])

------------------------------------------------------------------------------
(* The MultiversX chain *)

\* The endpoint a transaction of r calls.
Calls(r, tx) ==
    \/ tx.type = "propose" /\ ProposeMultiTransferEsdtBatch(r, tx.id, tx.args)
    \/ tx.type = "setStatus" /\ ProposeEsdtSafeSetCurrentTransactionBatchStatus(r, tx.id, tx.args)
    \/ tx.type = "sign" /\ Sign(r, tx.id)
    \/ tx.type = "perform" /\ (PerformBatchTransfer(r, tx.id) \/ PerformSetStatus(r, tx.id))

\* One sender's transactions are executed in nonce order; a refused one has no effect.
ExecuteTransaction(r) ==
    /\ mempool[r] # <<>>
    /\ mempool' = [mempool EXCEPT ![r] = Tail(@)]
    /\ IF ENABLED Calls(r, Head(mempool[r]))
       THEN Calls(r, Head(mempool[r]))
       ELSE UNCHANGED vars

MultiversXClientInit == mempool = [r \in Honest |-> <<>>]
===============================================================================
