------------------------------- MODULE EsdtSafe -------------------------------
(***************************************************************************)
(* The MultiversX -> Ethereum safe of rs/esdt-safe, with the token, fee    *)
(* and max-amount modules it includes.  Users lock tokens with             *)
(* createTransaction; the owner (the Multisig contract) settles the first  *)
(* batch with one status per transaction, burning what was executed on     *)
(* Ethereum and crediting a refund for what was rejected.                  *)
(*                                                                         *)
(* One bridged token is modelled: every map of the contract is keyed by    *)
(* token and no operation mixes tokens.  The price aggregator is external: *)
(* calculate_required_fee may return any member of RequiredFees at any     *)
(* call.  Ethereum addresses and events are left out.                      *)
(***************************************************************************)
EXTENDS TxBatch, FiniteSets, FiniteSetsExt, Functions


CONSTANTS
    Users,              \* MultiversX accounts
    Payments,           \* amounts users send to createTransaction
    RequiredFees,       \* what calculate_required_fee may return
    ServiceFeeConfigs,  \* [pct, max] records the owner may configure
    MaxPercentage,      \* MAX_PERCENTAGE of the fee estimator module
    MaxBridgedAmounts,  \* limits the owner may set, 0 for none
    BatchSizes,         \* sizes the owner may set
    BatchDurations,     \* durations the owner may set
    FeeSplits           \* percentage lists passed to distributeFees

ASSUME EsdtSafeAssumption ==
    /\ IsFiniteSet(Users)
    /\ Payments \subseteq Nat
    /\ RequiredFees \subseteq Nat
    /\ ServiceFeeConfigs \subseteq [pct : Nat, max : Nat]
    /\ MaxPercentage \in Nat \ {0}
    /\ MaxBridgedAmounts \subseteq Nat
    /\ BatchSizes \subseteq Nat \ {0}
    /\ BatchDurations \subseteq Nat \ {0}
    /\ FeeSplits \subseteq Seq(Nat)

VARIABLES
    safePaused,         \* the pause module's flag
    whitelisted,        \* the token is in token_whitelist
    burnRole,           \* the safe holds the token's local burn role
    serviceFeeConfig,   \* service_fee_percentage and max_service_fee
    maxBridgedAmount,   \* max_bridged_amount, 0 when there is no limit
    safe,               \* storage of the tx-batch module
    refundAmount,       \* refund_amount per user
    accumulatedFees,    \* accumulated_transaction_fees
    safeBalance,        \* tokens the contract holds
    lockedForever,      \* history: tokens of executed transactions not burnt
    settled             \* history: nonces of the transactions settled so far

safeConfigVars == <<safePaused, whitelisted, burnRole, serviceFeeConfig, maxBridgedAmount>>
safeTokenVars == <<refundAmount, accumulatedFees, safeBalance, lockedForever>>
safeVars == <<safeConfigVars, safe, safeTokenVars, settled>>

SafeTx == [block : Nat, nonce : Nat, from : Users, amount : Nat,
           serviceFee : Nat, isRefundTx : BOOLEAN]

------------------------------------------------------------------------------
(* Fees *)

\* calculate_service_fee: the configured share, at most max_service_fee.
ServiceFee(amount) ==
    LET share == (amount * serviceFeeConfig.pct) \div MaxPercentage IN
    IF share > serviceFeeConfig.max THEN serviceFeeConfig.max ELSE share

\* What a transaction holds in the safe until it is settled.
Held(tx) == tx.amount + tx.serviceFee

------------------------------------------------------------------------------
(* Users *)

CreateTransaction(from, payment, fee) ==
    LET net == payment - fee
        serviceFee == ServiceFee(net)
        nonce == safe.lastTxNonce + 1
        tx == [block |-> block, nonce |-> nonce, from |-> from,
               amount |-> net - serviceFee, serviceFee |-> serviceFee,
               isRefundTx |-> FALSE]
    IN  /\ ~safePaused
        /\ whitelisted
        /\ fee < payment
        /\ ~IsAboveMaxAmount(maxBridgedAmount, payment)
        /\ serviceFee <= net            \* the BigUint subtraction traps
        /\ nonce <= MaxTx
        /\ safe' = AddToBatch([safe EXCEPT !.lastTxNonce = nonce], tx)
        /\ accumulatedFees' = accumulatedFees + fee
        /\ safeBalance' = safeBalance + payment
        /\ UNCHANGED <<safeConfigVars, refundAmount, lockedForever, settled>>

\* Mutant of ClaimRefund: the claimed refund is not cleared.
ClaimRefundWithoutReset(user) ==
    /\ refundAmount[user] > 0
    /\ safeBalance' = safeBalance - refundAmount[user]
    /\ UNCHANGED <<safeConfigVars, safe, refundAmount, accumulatedFees, lockedForever,
                   settled>>

ClaimRefund(user) ==
    /\ refundAmount[user] > 0
    /\ refundAmount' = [refundAmount EXCEPT ![user] = 0]
    /\ safeBalance' = safeBalance - refundAmount[user]
    /\ UNCHANGED <<safeConfigVars, safe, accumulatedFees, lockedForever, settled>>

------------------------------------------------------------------------------
(* Owner: settling and refunds *)

\* The tokens that some transactions of a batch hold.
HeldBy(batch, S) == SumFunctionOnSet([i \in DOMAIN batch |-> Held(batch[i])], S)

\* Mutant of WithStatus: refund transactions are settled like any other.
WithStatusOrRefund(batch, statuses, status) ==
    {i \in DOMAIN batch : statuses[i] = status}

\* The transactions of a batch that hold tokens and were given this status.
WithStatus(batch, statuses, status) ==
    {i \in DOMAIN batch : ~batch[i].isRefundTx /\ statuses[i] = status}

(***************************************************************************)
(* setTransactionBatchStatus.  Refund transactions hold no tokens here, so *)
(* their status is not even looked at.  An executed transaction is burnt   *)
(* (and its service fee sent on) only while the safe has the burn role;    *)
(* otherwise its tokens stay in the contract.                              *)
(***************************************************************************)
SetTransactionBatchStatus(batchId, statuses) ==
    LET batch == FirstBatch(safe)
        with(status) == WithStatus(batch, statuses, status)
        executed == HeldBy(batch, with("Executed"))
    IN  /\ batchId = safe.firstBatchId
        /\ Len(statuses) = Len(batch)
        /\ \A i \in DOMAIN batch :
              batch[i].isRefundTx \/ statuses[i] \in {"Executed", "Rejected"}
        /\ safeBalance' = IF burnRole THEN safeBalance - executed ELSE safeBalance
        /\ lockedForever' = IF burnRole THEN lockedForever ELSE lockedForever + executed
        /\ refundAmount' =
              [u \in Users |-> refundAmount[u]
                   + HeldBy(batch, {i \in with("Rejected") : batch[i].from = u})]
        /\ safe' = ClearFirstBatch(safe)
        /\ settled' = settled \o [i \in DOMAIN batch |-> batch[i].nonce]
        /\ UNCHANGED <<safeConfigVars, accumulatedFees>>

\* The refunds that cover the fee.
PayingRefunds(refundTxs, fee) ==
    Picked(refundTxs, {i \in DOMAIN refundTxs : refundTxs[i].amount > fee})

(***************************************************************************)
(* addRefundBatch.  A failed Ethereum -> MultiversX transfer becomes a     *)
(* refund transaction in the other direction, after the fee; one that does *)
(* not cover the fee is dropped.  The tokens are not in the safe, and the  *)
(* fee is not added to the accumulated fees.                               *)
(***************************************************************************)
AddRefundBatch(refundTxs, fee) ==
    LET paying == PayingRefunds(refundTxs, fee)
        newTxs == [i \in DOMAIN paying |->
                     [block |-> block, nonce |-> safe.lastTxNonce + i,
                      from |-> paying[i].to, amount |-> paying[i].amount - fee,
                      serviceFee |-> paying[i].serviceFee, isRefundTx |-> TRUE]]
    IN  /\ safe.lastTxNonce + Len(paying) <= MaxTx
        /\ safe' = AddMultipleTxToBatch(
                       [safe EXCEPT !.lastTxNonce = @ + Len(paying)], newTxs)
        /\ UNCHANGED <<safeConfigVars, safeTokenVars, settled>>

SplitTotal(split) == SumFunction(split)

\* What the addresses of a split receive, every share rounded down.
SharesOf(fees, split) ==
    SumFunction([i \in DOMAIN split |-> (fees * split[i]) \div MaxPercentage])

\* Mutant of DistributeFees: what rounding leaves over is forgotten.
DistributeFeesDroppingRest(split) ==
    LET sent == SharesOf(accumulatedFees, split) IN
    /\ SplitTotal(split) = MaxPercentage
    /\ whitelisted
    /\ accumulatedFees > 0
    /\ accumulatedFees' = 0
    /\ safeBalance' = safeBalance - sent
    /\ UNCHANGED <<safeConfigVars, safe, refundAmount, lockedForever, settled>>

\* distributeFees: what rounding leaves over stays accumulated.
DistributeFees(split) ==
    LET sent == SharesOf(accumulatedFees, split) IN
    /\ SplitTotal(split) = MaxPercentage
    /\ whitelisted
    /\ accumulatedFees > 0
    /\ accumulatedFees' = accumulatedFees - sent
    /\ safeBalance' = safeBalance - sent
    /\ UNCHANGED <<safeConfigVars, safe, refundAmount, lockedForever, settled>>

------------------------------------------------------------------------------
(* Owner and token manager: configuration *)

SafeSetPaused ==
    /\ safePaused' = ~safePaused
    /\ UNCHANGED <<whitelisted, burnRole, serviceFeeConfig, maxBridgedAmount,
                   safe, safeTokenVars, settled>>

SafeSetWhitelisted ==
    /\ whitelisted' = ~whitelisted
    /\ UNCHANGED <<safePaused, burnRole, serviceFeeConfig, maxBridgedAmount,
                   safe, safeTokenVars, settled>>

\* The token manager sets or unsets the safe's local burn role.
SafeSetBurnRole ==
    /\ burnRole' = ~burnRole
    /\ UNCHANGED <<safePaused, whitelisted, serviceFeeConfig, maxBridgedAmount,
                   safe, safeTokenVars, settled>>

SafeSetServiceFee(config) ==
    /\ serviceFeeConfig' = config
    /\ UNCHANGED <<safePaused, whitelisted, burnRole, maxBridgedAmount,
                   safe, safeTokenVars, settled>>

SafeSetMaxBridgedAmount(limit) ==
    /\ maxBridgedAmount' = limit
    /\ UNCHANGED <<safePaused, whitelisted, burnRole, serviceFeeConfig,
                   safe, safeTokenVars, settled>>

SafeSetMaxTxBatchSize(size) ==
    /\ safe' = SetMaxTxBatchSize(safe, size)
    /\ UNCHANGED <<safeConfigVars, safeTokenVars, settled>>

SafeSetMaxTxBatchBlockDuration(duration) ==
    /\ safe' = SetMaxTxBatchBlockDuration(safe, duration)
    /\ UNCHANGED <<safeConfigVars, safeTokenVars, settled>>

------------------------------------------------------------------------------
\* init, with whatever the deployment has set up before users arrive.
SafeDeployed(ready) ==
    /\ safePaused = ~ready
    /\ whitelisted = ready
    /\ burnRole = ready
    /\ serviceFeeConfig \in ServiceFeeConfigs
    /\ maxBridgedAmount = 0
    /\ \E size \in BatchSizes, duration \in BatchDurations :
          safe = EmptyBatches(size, duration)
    /\ refundAmount = [u \in Users |-> 0]
    /\ accumulatedFees = 0
    /\ safeBalance = 0
    /\ lockedForever = 0
    /\ settled = <<>>

SafeInit == block = 0 /\ SafeDeployed(FALSE)

SafeUserNext ==
    \/ \E from \in Users, payment \in Payments, fee \in RequiredFees :
          CreateTransaction(from, payment, fee)
    \/ \E user \in Users : ClaimRefund(user)

SafeConfigNext ==
    \/ "safePaused" \in Switches /\ SafeSetPaused
    \/ "whitelisted" \in Switches /\ SafeSetWhitelisted
    \/ "burnRole" \in Switches /\ SafeSetBurnRole
    \/ \E config \in ServiceFeeConfigs : SafeSetServiceFee(config)
    \/ \E limit \in MaxBridgedAmounts : SafeSetMaxBridgedAmount(limit)
    \/ \E size \in BatchSizes : SafeSetMaxTxBatchSize(size)
    \/ \E duration \in BatchDurations : SafeSetMaxTxBatchBlockDuration(duration)
    \/ \E split \in FeeSplits : DistributeFees(split)

(***************************************************************************)
(* The safe on its own: its owner settles whatever the first batch holds   *)
(* with any statuses and hands over any refund batch of at most two        *)
(* transactions.                                                           *)
(***************************************************************************)
SafeOwnerNext ==
    \/ /\ FirstBatch(safe) # <<>>
       /\ \E statuses \in [DOMAIN FirstBatch(safe) -> TransactionStatuses] :
             SetTransactionBatchStatus(safe.firstBatchId, statuses)
    \/ \E n \in 1 .. 2, fee \in RequiredFees, to \in Users :
          \E amounts \in [1 .. n -> Payments] :
             AddRefundBatch([i \in 1 .. n |->
                 [to |-> to, amount |-> amounts[i], serviceFee |-> 0]], fee)

SafeNext ==
    \/ /\ SafeUserNext \/ SafeConfigNext \/ SafeOwnerNext
       /\ UNCHANGED block
    \/ NextBlock /\ UNCHANGED safeVars

SafeSpec == SafeInit /\ [][SafeNext]_<<block, safeVars>>

------------------------------------------------------------------------------
(* Properties *)

\* Type invariant of the safe's storage.
SafeTypeOK ==
    /\ block \in Nat
    /\ safePaused \in BOOLEAN
    /\ whitelisted \in BOOLEAN
    /\ burnRole \in BOOLEAN
    /\ serviceFeeConfig \in ServiceFeeConfigs
    /\ maxBridgedAmount \in Nat
    /\ safe \in [firstBatchId : BatchIds, lastBatchId : BatchIds,
                 pendingBatches : [BatchIds -> Seq(SafeTx)],
                 maxTxBatchSize : BatchSizes,
                 maxTxBatchBlockDuration : BatchDurations,
                 lastTxNonce : 0 .. MaxTx]
    /\ refundAmount \in [Users -> Nat]
    /\ accumulatedFees \in Nat
    /\ safeBalance \in Nat
    /\ lockedForever \in Nat
    /\ settled \in Seq(1 .. MaxTx)

(***************************************************************************)
(* The tokens the safe holds are exactly the collected fees, the refunds   *)
(* it owes, what waits in a batch, and what a missing burn role locked.    *)
(* So every burn, refund and fee payment is covered, through any order of  *)
(* deposits, settlements, claims and changes of the fee configuration      *)
(* (create_transaction, set_transaction_batch_status, claim_refund,        *)
(* distribute_fees).                                                       *)
(***************************************************************************)
SafeConservation ==
    LET queue == Queue(safe)
        waiting == {i \in DOMAIN queue : ~queue[i].isRefundTx}
    IN  safeBalance = accumulatedFees + SumFunction(refundAmount) + lockedForever
                      + HeldBy(queue, waiting)

(***************************************************************************)
(* The transactions ever numbered are, in order, the settled ones and then *)
(* the ones that wait in the window first_batch_id .. last_batch_id: no    *)
(* transaction is lost by a rollover or by clearing the only batch, none   *)
(* is settled twice or out of order (add_to_batch, clear_first_batch).     *)
(***************************************************************************)
SafeQueueInOrder ==
    LET queue == Queue(safe) IN
    settled \o [i \in DOMAIN queue |-> queue[i].nonce]
        = [n \in 1 .. safe.lastTxNonce |-> n]
==============================================================================
