---------------------------- MODULE MultiTransfer ----------------------------
(***************************************************************************)
(* The Ethereum -> MultiversX side of rs/multi-transfer-esdt.  Its owner   *)
(* (the Multisig contract) hands it the transfers of one Ethereum batch;   *)
(* each is either minted and paid out, or turned into a refund transaction *)
(* that waits in the contract's own batches until the owner moves it to    *)
(* the safe.                                                               *)
(*                                                                         *)
(* The wrapping and swapping contracts the payout goes through are reduced *)
(* to the variable payout.  Every call passes through the wrapping         *)
(* contract, each payment through the swapping contract; when one of them  *)
(* refuses (it is paused or short of funds) the whole call reverts.        *)
(***************************************************************************)
EXTENDS TxBatch, FiniteSets

CONSTANTS
    Recipients,             \* destinations of Ethereum -> MultiversX transfers
    InvalidRecipients,      \* of these, the zero address and smart contracts
    TransferAmounts,        \* amounts of those transfers
    MaxTransferAmounts,     \* limits the owner may set, 0 for none
    RefundBatchSizes,       \* refund batch sizes the owner may set
    RefundBatchDurations    \* refund batch durations the owner may set

ASSUME MultiTransferAssumption ==
    /\ InvalidRecipients \subseteq Recipients
    /\ TransferAmounts \subseteq Nat
    /\ MaxTransferAmounts \subseteq Nat
    /\ RefundBatchSizes \subseteq Nat \ {0}
    /\ RefundBatchDurations \subseteq Nat \ {0}

VARIABLES
    mintRole,               \* the contract holds the token's local mint role
    frozen,                 \* accounts on which the token is frozen
    maxTransferAmount,      \* max_bridged_amount, 0 when there is no limit
    payout,                 \* what the wrapping and swapping contracts accept
    refunds,                \* storage of the tx-batch module
    delivered,              \* history: nonces of the transfers paid out
    refunded                \* history: nonces of the transfers to be refunded

multiTransferConfigVars == <<mintRole, frozen, maxTransferAmount, payout>>
multiTransferVars == <<multiTransferConfigVars, refunds, delivered, refunded>>

\* An EthTransaction.
EthTx == [nonce : Nat, to : Recipients, amount : TransferAmounts]

Nonces(txs) == [i \in DOMAIN txs |-> txs[i].nonce]

MustRefund(tx) ==
    \/ tx.to \in InvalidRecipients
    \/ ~mintRole
    \/ IsAboveMaxAmount(maxTransferAmount, tx.amount)
    \/ tx.to \in frozen

\* The transfers of a batch that are not paid out.
ToRefund(transfers) == {i \in DOMAIN transfers : MustRefund(transfers[i])}

PayoutStates == {"accepted", "swapRefused", "wrapRefused"}

\* wrap_tokens and distribute_payments go through.
PayoutAccepted(payments) ==
    \/ payout = "accepted"
    \/ payout = "swapRefused" /\ payments = <<>>

ConvertToRefundTx(tx) ==
    [block |-> block, nonce |-> tx.nonce, to |-> tx.to, amount |-> tx.amount,
     serviceFee |-> 0, isRefundTx |-> TRUE]

\* Mutant of BatchTransferEsdtToken: a transfer to refund is paid out as well.
BatchTransferEsdtTokenWithoutContinue(transfers) ==
    LET refundTxs == Picked(transfers, ToRefund(transfers)) IN
    /\ PayoutAccepted(transfers)
    /\ delivered' = delivered \o Nonces(transfers)
    /\ refunded' = refunded \o Nonces(refundTxs)
    /\ refunds' = AddMultipleTxToBatch(refunds,
                      [i \in DOMAIN refundTxs |-> ConvertToRefundTx(refundTxs[i])])
    /\ UNCHANGED multiTransferConfigVars

BatchTransferEsdtToken(transfers) ==
    LET refundTxs == Picked(transfers, ToRefund(transfers))
        payments == Picked(transfers, DOMAIN transfers \ ToRefund(transfers))
    IN
    /\ PayoutAccepted(payments)
    /\ delivered' = delivered \o Nonces(payments)
    /\ refunded' = refunded \o Nonces(refundTxs)
    /\ refunds' = AddMultipleTxToBatch(refunds,
                      [i \in DOMAIN refundTxs |-> ConvertToRefundTx(refundTxs[i])])
    /\ UNCHANGED multiTransferConfigVars

\* The first refund batch is taken whatever its age, when it is not empty.
GetAndClearFirstRefundBatch ==
    /\ FirstBatch(refunds) # <<>>
    /\ refunds' = ClearFirstBatch(refunds)
    /\ UNCHANGED <<multiTransferConfigVars, delivered, refunded>>

------------------------------------------------------------------------------
(* Token manager, owner and the contracts behind the payout *)

SetMintRole ==
    /\ mintRole' = ~mintRole
    /\ UNCHANGED <<frozen, maxTransferAmount, payout, refunds, delivered, refunded>>

SetFrozen(account) ==
    /\ frozen' = IF account \in frozen THEN frozen \ {account} ELSE frozen \cup {account}
    /\ UNCHANGED <<mintRole, maxTransferAmount, payout, refunds, delivered, refunded>>

SetMaxTransferAmount(limit) ==
    /\ maxTransferAmount' = limit
    /\ UNCHANGED <<mintRole, frozen, payout, refunds, delivered, refunded>>

SetMaxRefundTxBatchSize(size) ==
    /\ refunds' = SetMaxTxBatchSize(refunds, size)
    /\ UNCHANGED <<multiTransferConfigVars, delivered, refunded>>

SetMaxRefundTxBatchBlockDuration(duration) ==
    /\ refunds' = SetMaxTxBatchBlockDuration(refunds, duration)
    /\ UNCHANGED <<multiTransferConfigVars, delivered, refunded>>

SetPayout(state) ==
    /\ payout' = state
    /\ UNCHANGED <<mintRole, frozen, maxTransferAmount, refunds, delivered, refunded>>

MultiTransferInit ==
    /\ mintRole = TRUE
    /\ frozen = {}
    /\ maxTransferAmount = 0
    /\ payout = "accepted"
    /\ \E size \in RefundBatchSizes, duration \in RefundBatchDurations :
          refunds = EmptyBatches(size, duration)
    /\ delivered = <<>>
    /\ refunded = <<>>

MultiTransferConfigNext ==
    \/ "mintRole" \in Switches /\ SetMintRole
    \/ "frozen" \in Switches /\ \E account \in Recipients : SetFrozen(account)
    \/ \E limit \in MaxTransferAmounts : SetMaxTransferAmount(limit)
    \/ \E size \in RefundBatchSizes : SetMaxRefundTxBatchSize(size)
    \/ \E duration \in RefundBatchDurations : SetMaxRefundTxBatchBlockDuration(duration)
    \/ "payout" \in Switches /\ \E state \in PayoutStates : SetPayout(state)

==============================================================================
