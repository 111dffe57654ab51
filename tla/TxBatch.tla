------------------------------- MODULE TxBatch -------------------------------
(***************************************************************************)
(* The transaction batches of rs/common/tx-batch-module, the storage       *)
(* module that EsdtSafe and MultiTransferEsdt both include.  A contract    *)
(* keeps the module's storage in one record,                               *)
(*                                                                         *)
(*   [firstBatchId, lastBatchId, pendingBatches,                           *)
(*    maxTxBatchSize, maxTxBatchBlockDuration, lastTxNonce]                *)
(*                                                                         *)
(* and the operators below map a record and a transaction to the record    *)
(* the endpoint leaves behind in the current block. Batches live in the    *)
(* window firstBatchId .. lastBatchId: the first one is being bridged, the *)
(* last one collects new transactions.                                     *)
(*                                                                         *)
(* The rest of what the two contracts share is here too: the chain's block *)
(* and the max-bridged-amount check.                                       *)
(***************************************************************************)
EXTENDS Integers, Sequences, SequencesExt


CONSTANTS
    MaxTx,                  \* bound: transactions a contract ever numbers
    MaxBlock,               \* bound: last block of the MultiversX chain
    MinBlocksForFinality,   \* MIN_BLOCKS_FOR_FINALITY
    Switches                \* the on/off settings that change in an instance

VARIABLE
    block                   \* blockchain().get_block_nonce()

ASSUME TxBatchAssumption ==
    /\ MaxTx \in Nat
    /\ MaxBlock \in Nat
    /\ MinBlocksForFinality \in Nat

(***************************************************************************)
(* A batch is only created for a transaction and only abandoned when it is *)
(* cleared, so MaxTx transactions never need more than MaxTx + 1 batches.  *)
(***************************************************************************)
BatchIds == 1 .. (MaxTx + 1)

\* The chain produces a block; everything else happens inside a block.
NextBlock ==
    /\ block < MaxBlock
    /\ block' = block + 1

\* init: batch id 0 is invalid, both ends of the window start at 1.
EmptyBatches(maxSize, maxDuration) ==
    [firstBatchId            |-> 1,
     lastBatchId             |-> 1,
     pendingBatches          |-> [id \in BatchIds |-> <<>>],
     maxTxBatchSize          |-> maxSize,
     maxTxBatchBlockDuration |-> maxDuration,
     lastTxNonce             |-> 0]

(***************************************************************************)
(* A batch that is not the first one closes by length only; the first one  *)
(* also closes when it has been open for maxTxBatchBlockDuration blocks.   *)
(***************************************************************************)
IsBatchFull(b, id) ==
    LET batch == b.pendingBatches[id] IN
    /\ batch # <<>>
    /\ \/ Len(batch) = b.maxTxBatchSize
       \/ /\ id <= b.firstBatchId
          /\ block - batch[1].block >= b.maxTxBatchBlockDuration

IsBatchFinal(batch) ==
    /\ batch # <<>>
    /\ block - batch[Len(batch)].block > MinBlocksForFinality

\* Mutant of HasCurrentTxBatch: a batch that is still open is shown.
HasCurrentTxBatchWhileOpen(b) == IsBatchFinal(b.pendingBatches[b.firstBatchId])

\* getCurrentTxBatch answers something: the first batch is closed and final.
HasCurrentTxBatch(b) ==
    /\ IsBatchFull(b, b.firstBatchId)
    /\ IsBatchFinal(b.pendingBatches[b.firstBatchId])

\* The transactions getCurrentTxBatch then returns.
FirstBatch(b) == b.pendingBatches[b.firstBatchId]

AddToBatch(b, tx) ==
    LET id == IF IsBatchFull(b, b.lastBatchId)
              THEN b.lastBatchId + 1
              ELSE b.lastBatchId
    IN  [b EXCEPT !.lastBatchId = id,
                  !.pendingBatches[id] = Append(@, tx)]

(***************************************************************************)
(* The loop of add_multiple_tx_to_batch reads firstBatchId once; the       *)
(* transactions only ever move lastBatchId and the batches it has reached. *)
(***************************************************************************)
AddedOneByOne(b, txs) ==
    LET added[n \in 0 .. Len(txs)] ==
            IF n = 0 THEN b ELSE AddToBatch(added[n - 1], txs[n])
    IN  added[Len(txs)]

AddMultipleTxToBatch(b, txs) ==
    LET added == AddedOneByOne(b, txs)
    IN  [b EXCEPT !.lastBatchId = added.lastBatchId,
                  !.pendingBatches = added.pendingBatches]

\* The transactions at these positions of a list, in their order.
Picked(txs, positions) ==
    LET picked[n \in 0 .. Len(txs)] ==
            IF n = 0 THEN <<>>
            ELSE IF n \in positions THEN Append(picked[n - 1], txs[n])
            ELSE picked[n - 1]
    IN  picked[Len(txs)]

\* Mutant of ClearFirstBatch: the last batch stays where it was.
ClearFirstBatchKeepingLast(b) ==
    [b EXCEPT !.firstBatchId = @ + 1,
              !.pendingBatches[b.firstBatchId] = <<>>]

(***************************************************************************)
(* Clearing the only batch also moves lastBatchId, otherwise the next      *)
(* transaction would be added to the batch that was just processed.        *)
(***************************************************************************)
ClearFirstBatch(b) ==
    LET first == b.firstBatchId IN
    [b EXCEPT !.firstBatchId = first + 1,
              !.lastBatchId = IF @ = first THEN first + 1 ELSE @,
              !.pendingBatches[first] = <<>>]

SetMaxTxBatchSize(b, size) == [b EXCEPT !.maxTxBatchSize = size]

SetMaxTxBatchBlockDuration(b, duration) ==
    [b EXCEPT !.maxTxBatchBlockDuration = duration]

\* is_above_max_amount of the max-bridged-amount module: 0 means no limit.
IsAboveMaxAmount(limit, amount) == limit > 0 /\ amount > limit

TransactionStatuses == {"None", "Pending", "InProgress", "Executed", "Rejected"}

(***************************************************************************)
(* The transactions that wait in the window, oldest first.                 *)
(***************************************************************************)
Queue(b) ==
    FlattenSeq([i \in 1 .. (b.lastBatchId - b.firstBatchId + 1) |->
                    b.pendingBatches[b.firstBatchId + i - 1]])
==============================================================================
