------------------------------- MODULE Multisig -------------------------------
(***************************************************************************)
(* The MultiversX multisig of rs/multisig, the owner of the safe and of    *)
(* the multi-transfer contract.  Board members (the relayers) propose,     *)
(* sign and perform two kinds of action:                                   *)
(*                                                                         *)
(*   BatchTransfer  pay out the transfers of the next Ethereum batch,      *)
(*   SetStatus      settle the safe's current batch with the statuses its  *)
(*                  transactions got on Ethereum.                          *)
(*                                                                         *)
(* Board members are not trusted here: any of them may propose any list of *)
(* transfers or statuses and sign anything.  A failing call reverts, so an *)
(* endpoint is an action whose guard is the conjunction of its require!s   *)
(* and of those of the contracts it calls.                                 *)
(***************************************************************************)
EXTENDS EsdtSafe, MultiTransfer

CONSTANTS
    Relayers,               \* accounts that may ever be board members
    InitialBoard,
    InitialQuorum,
    Quorums,                \* values changeQuorum is called with
    RequiredStake,
    SlashAmount,
    StakeAmounts,           \* amounts relayers stake and unstake
    MaxStake,               \* bound: stake of one relayer, and all slashed stake
    MaxActions,             \* bound: actions ever proposed
    MaxTransfers,           \* bound: transfers in one proposal
    MaxStatuses,            \* bound: statuses in one proposal
    ProposedStatuses,       \* statuses that proposals use
    MaxEthTx                \* bound: nonces of Ethereum deposits

ASSUME MultisigAssumption ==
    /\ IsFiniteSet(Relayers)
    /\ InitialBoard \subseteq Relayers
    /\ InitialQuorum \in 0 .. Cardinality(InitialBoard)
    /\ Quorums \subseteq Nat
    /\ RequiredStake \in Nat
    /\ SlashAmount \in 0 .. RequiredStake
    /\ StakeAmounts \subseteq Nat
    /\ MaxStake \in Nat
    /\ MaxActions \in Nat
    /\ MaxTransfers \in Nat
    /\ MaxStatuses \in Nat
    /\ ProposedStatuses \subseteq TransactionStatuses
    /\ MaxEthTx \in 0 .. MaxTx
    /\ Recipients \subseteq Users

VARIABLES
    board,                  \* users whose role is BoardMember
    numBoardMembers,        \* num_board_members, a counter kept beside the roles
    amountStaked,
    slashedTokens,
    quorum,
    multisigPaused,
    actions,                \* action_mapper: Seq of actions, cleared ones Nothing
    signers,                \* action_signer_ids
    transferActions,        \* batch_id_to_action_id_mapping, as a set of entries
    statusActions,          \* action_id_for_set_current_transaction_batch_status
    lastExecutedEthBatchId,
    lastExecutedEthTxId,
    executedEthTxs          \* history: what the multi-transfer contract was handed

boardVars == <<board, numBoardMembers, amountStaked, slashedTokens, quorum>>
actionVars == <<actions, signers, transferActions, statusActions>>
ethVars == <<lastExecutedEthBatchId, lastExecutedEthTxId, executedEthTxs>>
multisigVars == <<boardVars, multisigPaused, actionVars, ethVars>>
vars == <<block, safeVars, multiTransferVars, multisigVars>>

Nothing == [type |-> "Nothing"]

BatchTransfer(batchId, transfers) ==
    [type |-> "BatchTransfer", batchId |-> batchId, transfers |-> transfers]

SetStatus(batchId, statuses) ==
    [type |-> "SetStatus", batchId |-> batchId, statuses |-> statuses]

------------------------------------------------------------------------------
(* Queries *)

HasEnoughStake(r) == amountStaked[r] >= RequiredStake

ValidSigners(id) == {r \in signers[id] : r \in board /\ HasEnoughStake(r)}

QuorumReached(id) == Cardinality(ValidSigners(id)) >= quorum

IsPending(id) == id \in DOMAIN actions /\ actions[id] # Nothing

\* Mutant of WasActionExecuted: only ids that were never given are "executed".
WasActionExecutedIfUnknown(id) == id \notin DOMAIN actions

\* was_action_executed: an invalid id was not executed, a cleared one was.
WasActionExecuted(id) == id \in DOMAIN actions /\ actions[id] = Nothing

\* require_valid_eth_tx_ids
ValidEthTxIds(transfers) ==
    \A i \in DOMAIN transfers : transfers[i].nonce = lastExecutedEthTxId + i

(***************************************************************************)
(* The length of the current batch as propose_esdt_safe_set_current_...    *)
(* computes it: every transaction is returned as TxFields values and their *)
(* number is divided by the constant TX_MULTIRESULT_NR_FIELDS.             *)
(***************************************************************************)
TxFields == 7
TxMultiresultNrFields == 6
CurrentBatchLen == (Len(FirstBatch(safe)) * TxFields) \div TxMultiresultNrFields

------------------------------------------------------------------------------
(* Board members: proposing and signing *)

\* propose_action: the proposer signs as well, if it has staked enough.
ProposeAction(r, action) ==
    /\ r \in board
    /\ ~multisigPaused
    /\ Len(actions) < MaxActions
    /\ actions' = Append(actions, action)
    /\ signers' = Append(signers, IF HasEnoughStake(r) THEN {r} ELSE {})

ProposeMultiTransferEsdtBatch(r, batchId, transfers) ==
    /\ batchId = lastExecutedEthBatchId + 1
    /\ ValidEthTxIds(transfers)
    /\ ~ \E m \in transferActions : m.batchId = batchId /\ m.transfers = transfers
    /\ ProposeAction(r, BatchTransfer(batchId, transfers))
    /\ transferActions' = transferActions \cup
          {[batchId |-> batchId, transfers |-> transfers, actionId |-> Len(actions')]}
    /\ UNCHANGED <<block, safeVars, multiTransferVars, boardVars, multisigPaused,
                   statusActions, ethVars>>

ProposeEsdtSafeSetCurrentTransactionBatchStatus(r, batchId, statuses) ==
    /\ HasCurrentTxBatch(safe)
    /\ ~ \E m \in statusActions : m.batchId = batchId /\ m.statuses = statuses
    /\ Len(statuses) = CurrentBatchLen
    /\ batchId = safe.firstBatchId
    /\ ProposeAction(r, SetStatus(batchId, statuses))
    /\ statusActions' = statusActions \cup
          {[batchId |-> batchId, statuses |-> statuses, actionId |-> Len(actions')]}
    /\ UNCHANGED <<block, safeVars, multiTransferVars, boardVars, multisigPaused,
                   transferActions, ethVars>>

\* Signing is possible while the contract is paused.
Sign(r, id) ==
    /\ IsPending(id)
    /\ r \in board
    /\ HasEnoughStake(r)
    /\ signers' = [signers EXCEPT ![id] = @ \cup {r}]
    /\ UNCHANGED <<block, safeVars, multiTransferVars, boardVars, multisigPaused,
                   actions, transferActions, statusActions, ethVars>>

------------------------------------------------------------------------------
(* Board members: performing *)

\* Mutant of ClearedWith: other proposals for the same batch survive.
ClearedWithIdOnly(id, mapped) == {id}

\* Mutant of ClearedWith: the other proposals are cleared from three on.
ClearedWithFromThreeOn(id, mapped) ==
    {id} \cup (IF Cardinality(mapped) > 2 THEN {m.actionId : m \in mapped} ELSE {})

(***************************************************************************)
(* The actions that performing id clears: id itself, and every action that *)
(* the mapping holds for the same batch when it holds more than one.       *)
(***************************************************************************)
ClearedWith(id, mapped) ==
    {id} \cup (IF Cardinality(mapped) > 1 THEN {m.actionId : m \in mapped} ELSE {})

\* clear_action, for a set of actions.
ClearActions(ids) ==
    /\ actions' = [i \in DOMAIN actions |-> IF i \in ids THEN Nothing ELSE actions[i]]
    /\ signers' = [i \in DOMAIN signers |-> IF i \in ids THEN {} ELSE signers[i]]

MayPerform(r, id) ==
    /\ IsPending(id)
    /\ r \in board
    /\ QuorumReached(id)
    /\ ~multisigPaused

PerformSetStatus(r, id) ==
    /\ MayPerform(r, id)
    /\ actions[id].type = "SetStatus"
    /\ LET mapped == {m \in statusActions : m.batchId = actions[id].batchId} IN
       /\ ClearActions(ClearedWith(id, mapped))
       /\ statusActions' = statusActions \ mapped
    /\ SetTransactionBatchStatus(actions[id].batchId, actions[id].statuses)
    /\ UNCHANGED <<block, multiTransferVars, boardVars, multisigPaused,
                   transferActions, ethVars>>

\* Performing an empty list of transfers traps on transfers.len() - 1.
PerformBatchTransfer(r, id) ==
    LET transfers == actions[id].transfers IN
    /\ MayPerform(r, id)
    /\ actions[id].type = "BatchTransfer"
    /\ transfers # <<>>
    /\ LET mapped == {m \in transferActions : m.batchId = actions[id].batchId} IN
       /\ ClearActions(ClearedWith(id, mapped))
       /\ transferActions' = transferActions \ mapped
    /\ lastExecutedEthBatchId' = lastExecutedEthBatchId + 1
    /\ lastExecutedEthTxId' = transfers[Len(transfers)].nonce
    /\ executedEthTxs' = executedEthTxs \o transfers
    /\ BatchTransferEsdtToken(transfers)
    /\ UNCHANGED <<block, safeVars, boardVars, multisigPaused, statusActions>>

------------------------------------------------------------------------------
(* Board members: stake *)

Stake(r, amount) ==
    /\ r \in board
    /\ amountStaked[r] + amount <= MaxStake
    /\ amountStaked' = [amountStaked EXCEPT ![r] = @ + amount]
    /\ UNCHANGED <<block, safeVars, multiTransferVars, board, numBoardMembers,
                   slashedTokens, quorum, multisigPaused, actionVars, ethVars>>

\* Mutant of Unstake: the subtraction is not checked.
UnstakeUnchecked(r, amount) ==
    /\ r \in board => amountStaked[r] - amount >= RequiredStake
    /\ amountStaked' = [amountStaked EXCEPT ![r] = @ - amount]
    /\ UNCHANGED <<block, safeVars, multiTransferVars, board, numBoardMembers,
                   slashedTokens, quorum, multisigPaused, actionVars, ethVars>>

Unstake(r, amount) ==
    /\ amount <= amountStaked[r]
    /\ r \in board => amountStaked[r] - amount >= RequiredStake
    /\ amountStaked' = [amountStaked EXCEPT ![r] = @ - amount]
    /\ UNCHANGED <<block, safeVars, multiTransferVars, board, numBoardMembers,
                   slashedTokens, quorum, multisigPaused, actionVars, ethVars>>

------------------------------------------------------------------------------
(* Owner *)

AddBoardMember(r) ==
    /\ board' = board \cup {r}
    /\ numBoardMembers' = IF r \in board THEN numBoardMembers ELSE numBoardMembers + 1
    /\ UNCHANGED <<block, safeVars, multiTransferVars, amountStaked, slashedTokens,
                   quorum, multisigPaused, actionVars, ethVars>>

\* Mutant of RemoveRole: the quorum is not compared with the smaller board.
RemoveRoleIgnoringQuorum(r) ==
    /\ board' = board \ {r}
    /\ numBoardMembers' = IF r \in board THEN numBoardMembers - 1 ELSE numBoardMembers
    /\ numBoardMembers' > 0

\* The role changes of removeUser, with the checks made after the removal.
RemoveRole(r) ==
    /\ board' = board \ {r}
    /\ numBoardMembers' = IF r \in board THEN numBoardMembers - 1 ELSE numBoardMembers
    /\ numBoardMembers' > 0
    /\ quorum <= numBoardMembers'

RemoveUser(r) ==
    /\ RemoveRole(r)
    /\ UNCHANGED <<block, safeVars, multiTransferVars, amountStaked, slashedTokens,
                   quorum, multisigPaused, actionVars, ethVars>>

SlashBoardMember(r) ==
    /\ RemoveRole(r)
    /\ amountStaked[r] >= SlashAmount       \* the BigUint subtraction traps
    /\ slashedTokens + SlashAmount <= MaxStake
    /\ amountStaked' = [amountStaked EXCEPT ![r] = @ - SlashAmount]
    /\ slashedTokens' = slashedTokens + SlashAmount
    /\ UNCHANGED <<block, safeVars, multiTransferVars, quorum, multisigPaused,
                   actionVars, ethVars>>

ChangeQuorum(newQuorum) ==
    /\ newQuorum <= numBoardMembers
    /\ quorum' = newQuorum
    /\ UNCHANGED <<block, safeVars, multiTransferVars, board, numBoardMembers,
                   amountStaked, slashedTokens, multisigPaused, actionVars, ethVars>>

MultisigSetPaused ==
    /\ multisigPaused' = ~multisigPaused
    /\ UNCHANGED <<block, safeVars, multiTransferVars, boardVars, actionVars, ethVars>>

\* moveRefundBatchToSafe: the refund batch leaves one contract as it enters the other.
MoveRefundBatchToSafe(fee) ==
    /\ GetAndClearFirstRefundBatch
    /\ AddRefundBatch(FirstBatch(refunds), fee)
    /\ UNCHANGED <<block, multisigVars>>

------------------------------------------------------------------------------
\* A deployed multisig: still paused and with no stake, or in operation.
MultisigDeployed(ready) ==
    /\ board = InitialBoard
    /\ numBoardMembers = Cardinality(InitialBoard)
    /\ amountStaked = [r \in Relayers |-> IF ready THEN RequiredStake ELSE 0]
    /\ slashedTokens = 0
    /\ quorum = InitialQuorum
    /\ multisigPaused = ~ready
    /\ actions = <<>>
    /\ signers = <<>>
    /\ transferActions = {}
    /\ statusActions = {}
    /\ lastExecutedEthBatchId = 0
    /\ lastExecutedEthTxId = 0
    /\ executedEthTxs = <<>>

Init ==
    /\ block = 0
    /\ SafeDeployed(TRUE)
    /\ MultiTransferInit
    /\ MultisigDeployed(FALSE)

\* Lists of at most n elements of S, as call arguments.
Lists(S, n) == UNION {[1 .. k -> S] : k \in 0 .. n}

EthTransfers == [nonce : 1 .. MaxEthTx, to : Recipients, amount : TransferAmounts]

ProposeNext(r) ==
    \/ \E batchId \in {lastExecutedEthBatchId, lastExecutedEthBatchId + 1},
          transfers \in Lists(EthTransfers, MaxTransfers) :
          ProposeMultiTransferEsdtBatch(r, batchId, transfers)
    \/ \E batchId \in BatchIds, statuses \in Lists(ProposedStatuses, MaxStatuses) :
          ProposeEsdtSafeSetCurrentTransactionBatchStatus(r, batchId, statuses)

RelayerNext(r) ==
    \/ ProposeNext(r)
    \/ \E id \in DOMAIN actions : Sign(r, id)
    \/ \E id \in DOMAIN actions : PerformSetStatus(r, id)
    \/ \E id \in DOMAIN actions : PerformBatchTransfer(r, id)
    \/ \E amount \in StakeAmounts : Stake(r, amount)
    \/ \E amount \in StakeAmounts : Unstake(r, amount)

OwnerNext ==
    \/ "board" \in Switches /\ \E r \in Relayers : AddBoardMember(r)
    \/ "board" \in Switches /\ \E r \in Relayers : RemoveUser(r)
    \/ "board" \in Switches /\ \E r \in Relayers : SlashBoardMember(r)
    \/ \E newQuorum \in Quorums : ChangeQuorum(newQuorum)
    \/ MultisigSetPaused
    \/ \E fee \in RequiredFees : MoveRefundBatchToSafe(fee)

ContractsNext ==
    \/ /\ SafeUserNext \/ SafeConfigNext
       /\ UNCHANGED <<block, multiTransferVars, multisigVars>>
    \/ /\ MultiTransferConfigNext
       /\ UNCHANGED <<block, safeVars, multisigVars>>
    \/ /\ NextBlock
       /\ UNCHANGED <<safeVars, multiTransferVars, multisigVars>>

Next ==
    \/ \E r \in Relayers : RelayerNext(r)
    \/ OwnerNext
    \/ ContractsNext

Spec == Init /\ [][Next]_vars

------------------------------------------------------------------------------
(* Properties *)

TransferAction == [type : {"BatchTransfer"}, batchId : Nat, transfers : Seq(EthTransfers)]
StatusAction == [type : {"SetStatus"}, batchId : BatchIds, statuses : Seq(ProposedStatuses)]
ActionType == {Nothing} \cup TransferAction \cup StatusAction

\* Type invariant of the multisig's storage.
MultisigTypeOK ==
    /\ board \in SUBSET Relayers
    /\ numBoardMembers \in Nat
    /\ amountStaked \in [Relayers -> Nat]
    /\ slashedTokens \in Nat
    /\ quorum \in Nat
    /\ multisigPaused \in BOOLEAN
    /\ actions \in Seq(ActionType)
    /\ signers \in Seq(SUBSET Relayers)
    /\ Len(signers) = Len(actions)
    /\ transferActions \in SUBSET [batchId : Nat, transfers : Seq(EthTransfers),
                                   actionId : Nat]
    /\ statusActions \in SUBSET [batchId : BatchIds, statuses : Seq(ProposedStatuses),
                                 actionId : Nat]
    /\ lastExecutedEthBatchId \in Nat
    /\ lastExecutedEthTxId \in Nat
    /\ executedEthTxs \in Seq(EthTransfers)

(***************************************************************************)
(* The Ethereum deposits handed to the multi-transfer contract so far are  *)
(* exactly 1 .. last_executed_eth_tx_id, each once and in order, although  *)
(* several proposals for the same batch with different transfers may be    *)
(* pending and signed at the same time: performing one of them has to      *)
(* clear the others (perform_action, clear_action).                        *)
(***************************************************************************)
EthTxsExecutedOnceInOrder ==
    Nonces(executedEthTxs) = [n \in 1 .. lastExecutedEthTxId |-> n]

(***************************************************************************)
(* No stale proposal survives: an action still pending is for the next     *)
(* Ethereum batch and continues right after the last executed deposit, or  *)
(* is for the safe's first batch (perform_action,                          *)
(* propose_multi_transfer_esdt_batch, clear_first_batch).                  *)
(***************************************************************************)
PendingActionsAreCurrent ==
    \A id \in DOMAIN actions :
        /\ actions[id].type = "BatchTransfer" =>
              /\ actions[id].batchId = lastExecutedEthBatchId + 1
              /\ ValidEthTxIds(actions[id].transfers)
        /\ actions[id].type = "SetStatus" => actions[id].batchId = safe.firstBatchId

(***************************************************************************)
(* The two mappings and the list of actions say the same: a relayer that   *)
(* finds its batch in a mapping (wasTransferActionProposed,                *)
(* getActionIdFor...) gets the id of a pending action for that very batch, *)
(* and every pending action can be found.                                  *)
(***************************************************************************)
MappingsMatchActions ==
    /\ \A m \in transferActions :
          /\ m.actionId \in DOMAIN actions
          /\ actions[m.actionId] = BatchTransfer(m.batchId, m.transfers)
    /\ \A m \in statusActions :
          /\ m.actionId \in DOMAIN actions
          /\ actions[m.actionId] = SetStatus(m.batchId, m.statuses)
    /\ \A id \in DOMAIN actions :
          /\ actions[id].type = "BatchTransfer" =>
                [batchId |-> actions[id].batchId, transfers |-> actions[id].transfers,
                 actionId |-> id] \in transferActions
          /\ actions[id].type = "SetStatus" =>
                [batchId |-> actions[id].batchId, statuses |-> actions[id].statuses,
                 actionId |-> id] \in statusActions

(***************************************************************************)
(* The quorum never exceeds the board and the counter of board members is  *)
(* the size of the board, so a quorum of signatures stays obtainable       *)
(* through any order of additions, removals, slashings and quorum changes  *)
(* (add_board_member, remove_user, slash_board_member, change_quorum).     *)
(***************************************************************************)
QuorumWithinBoard ==
    /\ numBoardMembers = Cardinality(board)
    /\ quorum <= numBoardMembers

(***************************************************************************)
(* Every executed Ethereum deposit is paid out or turned into a refund,    *)
(* never both and never twice, and the refunds that wait in the            *)
(* multi-transfer contract are the most recent ones, none lost by a        *)
(* rollover or by a move to the safe (batch_transfer_esdt_token,           *)
(* get_and_clear_first_refund_batch).                                      *)
(***************************************************************************)
EthTxsDeliveredOrRefunded ==
    LET waiting == Nonces(Queue(refunds)) IN
    /\ Len(delivered) + Len(refunded) = lastExecutedEthTxId
    /\ {delivered[i] : i \in DOMAIN delivered} \cup {refunded[i] : i \in DOMAIN refunded}
          = 1 .. lastExecutedEthTxId
    /\ \A i \in DOMAIN waiting :
          waiting[i] = refunded[Len(refunded) - Len(waiting) + i]

(***************************************************************************)
(* A proposed list of statuses has one status for each transaction of the  *)
(* batch it will settle, so performing it cannot be refused by the safe    *)
(* (propose_esdt_safe_set_current_transaction_batch_status,                *)
(* set_transaction_batch_status).  It relies on the current batch staying  *)
(* closed once it has been shown, and so on an unchanged batch size and    *)
(* duration.                                                               *)
(***************************************************************************)
PendingStatusesFitBatch ==
    \A id \in DOMAIN actions :
        actions[id].type = "SetStatus" => Len(actions[id].statuses) = Len(FirstBatch(safe))
==============================================================================
