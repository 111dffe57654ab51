---------------------------- MODULE MultisigProofs ----------------------------
(***************************************************************************)
(* Theorems about the MultiversX contracts, for every board, every batch   *)
(* size and any number of relayers, transfers and statuses: the quorum and *)
(* the types of the storage; the actions, of which no stale one survives   *)
(* and which execute every Ethereum deposit once and in order; and the     *)
(* funds, of which every executed deposit is paid out or refunded, while   *)
(* the safe the multisig owns stays covered and settles in order.          *)
(***************************************************************************)
EXTENDS Multisig, EsdtSafeProofs

------------------------------------------------------------------------------
(* The quorum and the board *)

\* The owner's operations on the board keep the quorum within the board.
QuorumInv ==
    /\ board \in SUBSET Relayers
    /\ numBoardMembers \in Nat
    /\ quorum \in Nat
    /\ QuorumWithinBoard

\* Relayers do not change the board or the quorum.
LEMMA RelayersKeepBoard ==
    ASSUME NEW r \in Relayers, RelayerNext(r)
    PROVE  UNCHANGED <<board, numBoardMembers, quorum>>
<1>1. CASE ProposeNext(r)
  BY <1>1 DEF ProposeNext, ProposeMultiTransferEsdtBatch,
     ProposeEsdtSafeSetCurrentTransactionBatchStatus, boardVars
<1>2. CASE \E id \in DOMAIN actions : Sign(r, id)
  BY <1>2 DEF Sign, boardVars
<1>3. CASE \E id \in DOMAIN actions : PerformSetStatus(r, id)
  BY <1>3 DEF PerformSetStatus, boardVars
<1>4. CASE \E id \in DOMAIN actions : PerformBatchTransfer(r, id)
  BY <1>4 DEF PerformBatchTransfer, boardVars
<1>5. CASE \E amount \in StakeAmounts : Stake(r, amount)
  BY <1>5 DEF Stake
<1>6. CASE \E amount \in StakeAmounts : Unstake(r, amount)
  BY <1>6 DEF Unstake
<1> QED BY <1>1, <1>2, <1>3, <1>4, <1>5, <1>6 DEF RelayerNext

\* removeUser and slashBoardMember check the quorum after the removal.
LEMMA RemovalKeepsQuorum ==
    ASSUME QuorumInv, NEW r \in Relayers, RemoveRole(r), UNCHANGED quorum
    PROVE  QuorumInv'
<1>1. IsFiniteSet(board)
  BY MultisigAssumption, FS_Subset DEF QuorumInv
<1>2. CASE r \in board
  <2>1. Cardinality(board \ {r}) = Cardinality(board) - 1
    BY <1>1, <1>2, FS_RemoveElement
  <2>2. Cardinality(board) \in Nat
    BY <1>1, FS_CardinalityType
  <2> QED BY <1>2, <2>1, <2>2 DEF RemoveRole, QuorumInv, QuorumWithinBoard
<1>3. CASE r \notin board
  <2>1. board \ {r} = board
    BY <1>3
  <2> QED BY <1>3, <2>1 DEF RemoveRole, QuorumInv, QuorumWithinBoard
<1> QED BY <1>2, <1>3

\* The counter follows the board when a member is added, also a second time.
LEMMA AdditionKeepsQuorum ==
    ASSUME QuorumInv, NEW r \in Relayers, AddBoardMember(r)
    PROVE  QuorumInv'
<1>1. IsFiniteSet(board)
  BY MultisigAssumption, FS_Subset DEF QuorumInv
<1>2. Cardinality(board) \in Nat
  BY <1>1, FS_CardinalityType
<1>3. CASE r \in board
  <2>1. board \cup {r} = board
    BY <1>3
  <2> QED BY <1>3, <2>1 DEF AddBoardMember, QuorumInv, QuorumWithinBoard
<1>4. CASE r \notin board
  <2>1. Cardinality(board \cup {r}) = Cardinality(board) + 1
    BY <1>1, <1>4, FS_AddElement
  <2> QED BY <1>2, <1>4, <2>1 DEF AddBoardMember, QuorumInv, QuorumWithinBoard
<1> QED BY <1>3, <1>4

(***************************************************************************)
(* The quorum is never larger than the board and num_board_members counts  *)
(* the board exactly (add_board_member, remove_user, slash_board_member,   *)
(* change_quorum), for any board and any order of these operations.        *)
(***************************************************************************)
THEOREM QuorumStaysWithinBoard == Spec => []QuorumWithinBoard
<1>1. Init => QuorumInv
  <2> SUFFICES ASSUME Init PROVE QuorumInv
    OBVIOUS
  <2>1. IsFiniteSet(InitialBoard)
    BY MultisigAssumption, FS_Subset
  <2>2. Cardinality(InitialBoard) \in Nat
    BY <2>1, FS_CardinalityType
  <2> QED BY <2>2, MultisigAssumption
          DEF Init, MultisigDeployed, QuorumInv, QuorumWithinBoard
<1>2. QuorumInv /\ [Next]_vars => QuorumInv'
  <2> SUFFICES ASSUME QuorumInv, [Next]_vars PROVE QuorumInv'
    OBVIOUS
  <2>1. CASE \E r \in Relayers : RelayerNext(r)
    BY <2>1, RelayersKeepBoard DEF QuorumInv, QuorumWithinBoard
  <2>2. CASE OwnerNext
    <3>1. CASE \E r \in Relayers : AddBoardMember(r)
      BY <3>1, AdditionKeepsQuorum
    <3>2. CASE \E r \in Relayers : RemoveUser(r)
      BY <3>2, RemovalKeepsQuorum DEF RemoveUser
    <3>3. CASE \E r \in Relayers : SlashBoardMember(r)
      BY <3>3, RemovalKeepsQuorum DEF SlashBoardMember
    <3>4. CASE \E newQuorum \in Quorums : ChangeQuorum(newQuorum)
      BY <3>4, MultisigAssumption DEF ChangeQuorum, QuorumInv, QuorumWithinBoard
    <3>5. CASE MultisigSetPaused \/ \E fee \in RequiredFees : MoveRefundBatchToSafe(fee)
      <4>1. UNCHANGED <<board, numBoardMembers, quorum>>
        BY <3>5 DEF MultisigSetPaused, MoveRefundBatchToSafe, multisigVars, boardVars
      <4> QED BY <4>1 DEF QuorumInv, QuorumWithinBoard
    <3> QED BY <2>2, <3>1, <3>2, <3>3, <3>4, <3>5 DEF OwnerNext
  <2>3. CASE ContractsNext
    <3>1. UNCHANGED <<board, numBoardMembers, quorum>>
      BY <2>3 DEF ContractsNext, multisigVars, boardVars
    <3> QED BY <3>1 DEF QuorumInv, QuorumWithinBoard
  <2>4. CASE UNCHANGED vars
    BY <2>4 DEF vars, multisigVars, boardVars, QuorumInv, QuorumWithinBoard
  <2> QED BY <2>1, <2>2, <2>3, <2>4 DEF Next
<1>3. QuorumInv => QuorumWithinBoard
  BY DEF QuorumInv
<1> QED BY <1>1, <1>2, <1>3, PTL DEF Spec

------------------------------------------------------------------------------
(* Types *)

\* Call arguments are sequences.
LEMMA ListsAreSequences ==
    ASSUME NEW S, NEW n \in Nat
    PROVE  Lists(S, n) \subseteq Seq(S)
BY DEF Lists

\* clear_action keeps the list of actions and of their signers in step.
LEMMA ClearActionsType ==
    ASSUME MultisigTypeOK, NEW ids, ClearActions(ids)
    PROVE  /\ actions' \in Seq(ActionType)
           /\ signers' \in Seq(SUBSET Relayers)
           /\ Len(actions') = Len(actions)
           /\ Len(signers') = Len(actions')
           /\ DOMAIN actions' = DOMAIN actions
<1>1. Len(actions) \in Nat /\ DOMAIN actions = 1 .. Len(actions)
  BY DEF MultisigTypeOK
<1>2. DOMAIN signers = 1 .. Len(actions)
  BY DEF MultisigTypeOK
<1>3. actions' \in [1 .. Len(actions) -> ActionType]
  <2>1. \A i \in 1 .. Len(actions) : actions[i] \in ActionType
    BY DEF MultisigTypeOK
  <2> QED BY <1>1, <2>1 DEF ClearActions, ActionType
<1>4. signers' \in [1 .. Len(actions) -> SUBSET Relayers]
  <2>1. \A i \in 1 .. Len(actions) : signers[i] \in SUBSET Relayers
    BY DEF MultisigTypeOK
  <2> QED BY <1>2, <2>1 DEF ClearActions
<1>5. actions' \in Seq(ActionType) /\ Len(actions') = Len(actions)
  BY <1>1, <1>3
<1>6. signers' \in Seq(SUBSET Relayers) /\ Len(signers') = Len(actions)
  BY <1>1, <1>4
<1> QED BY <1>1, <1>3, <1>5, <1>6

\* propose_action appends to both lists at once.
LEMMA ProposeActionType ==
    ASSUME MultisigTypeOK, NEW r \in Relayers, NEW action \in ActionType,
           ProposeAction(r, action)
    PROVE  /\ actions' \in Seq(ActionType)
           /\ signers' \in Seq(SUBSET Relayers)
           /\ Len(actions') = Len(actions) + 1
           /\ Len(signers') = Len(actions')
<1>1. (IF HasEnoughStake(r) THEN {r} ELSE {}) \in SUBSET Relayers
  OBVIOUS
<1> QED BY <1>1 DEF ProposeAction, MultisigTypeOK

\* The contracts as they are deployed, whether the multisig is in operation or not yet.
ContractsDeployed(ready) ==
    block = 0 /\ SafeDeployed(TRUE) /\ MultiTransferInit /\ MultisigDeployed(ready)

LEMMA InitDeployed == Init => ContractsDeployed(FALSE)
BY DEF Init, ContractsDeployed

\* Deployment establishes the types.
LEMMA InitType ==
    ASSUME NEW ready \in BOOLEAN, ContractsDeployed(ready)
    PROVE  MultisigTypeOK
<1>1. Cardinality(InitialBoard) \in Nat
  BY MultisigAssumption, FS_Subset, FS_CardinalityType
<1>2. amountStaked \in [Relayers -> Nat]
  BY MultisigAssumption DEF ContractsDeployed, MultisigDeployed
<1> QED BY <1>1, <1>2, MultisigAssumption DEF ContractsDeployed, MultisigDeployed, MultisigTypeOK

\* Proposals keep the types, however long the proposed list.
LEMMA ProposeTransferType ==
    ASSUME MultisigTypeOK, NEW r \in Relayers, NEW batchId \in Nat,
           NEW transfers \in Seq(EthTransfers),
           ProposeMultiTransferEsdtBatch(r, batchId, transfers)
    PROVE  MultisigTypeOK'
<1>1. BatchTransfer(batchId, transfers) \in ActionType
  BY DEF BatchTransfer, ActionType, TransferAction
<1>2. /\ actions' \in Seq(ActionType)
      /\ signers' \in Seq(SUBSET Relayers)
      /\ Len(signers') = Len(actions')
  BY <1>1, ProposeActionType DEF ProposeMultiTransferEsdtBatch
<1>3. Len(actions') \in Nat
  BY <1>2
<1> QED BY <1>2, <1>3 DEF ProposeMultiTransferEsdtBatch, MultisigTypeOK, boardVars, ethVars

LEMMA ProposeStatusType ==
    ASSUME MultisigTypeOK, NEW r \in Relayers, NEW batchId \in BatchIds,
           NEW statuses \in Seq(ProposedStatuses),
           ProposeEsdtSafeSetCurrentTransactionBatchStatus(r, batchId, statuses)
    PROVE  MultisigTypeOK'
<1>1. SetStatus(batchId, statuses) \in ActionType
  BY DEF SetStatus, ActionType, StatusAction
<1>2. /\ actions' \in Seq(ActionType)
      /\ signers' \in Seq(SUBSET Relayers)
      /\ Len(signers') = Len(actions')
  BY <1>1, ProposeActionType DEF ProposeEsdtSafeSetCurrentTransactionBatchStatus
<1>3. Len(actions') \in Nat
  BY <1>2
<1> QED BY <1>2, <1>3 DEF ProposeEsdtSafeSetCurrentTransactionBatchStatus, MultisigTypeOK,
                          boardVars, ethVars

\* Every operation of a relayer keeps the types.
LEMMA RelayerType ==
    ASSUME MultisigTypeOK, NEW r \in Relayers, RelayerNext(r)
    PROVE  MultisigTypeOK'
<1>1. CASE ProposeNext(r)
  <2>1. CASE \E batchId \in {lastExecutedEthBatchId, lastExecutedEthBatchId + 1},
                transfers \in Lists(EthTransfers, MaxTransfers) :
                ProposeMultiTransferEsdtBatch(r, batchId, transfers)
    <3>1. PICK batchId \in {lastExecutedEthBatchId, lastExecutedEthBatchId + 1},
               transfers \in Lists(EthTransfers, MaxTransfers) :
               ProposeMultiTransferEsdtBatch(r, batchId, transfers)
      BY <2>1
    <3>2. batchId \in Nat /\ transfers \in Seq(EthTransfers)
      BY ListsAreSequences, MultisigAssumption DEF MultisigTypeOK
    <3> QED BY <3>1, <3>2, ProposeTransferType
  <2>2. CASE \E batchId \in BatchIds, statuses \in Lists(ProposedStatuses, MaxStatuses) :
                ProposeEsdtSafeSetCurrentTransactionBatchStatus(r, batchId, statuses)
    <3>1. PICK batchId \in BatchIds, statuses \in Lists(ProposedStatuses, MaxStatuses) :
               ProposeEsdtSafeSetCurrentTransactionBatchStatus(r, batchId, statuses)
      BY <2>2
    <3>2. statuses \in Seq(ProposedStatuses)
      BY ListsAreSequences, MultisigAssumption
    <3> QED BY <3>1, <3>2, ProposeStatusType
  <2> QED BY <1>1, <2>1, <2>2 DEF ProposeNext
<1>2. CASE \E id \in DOMAIN actions : Sign(r, id)
  <2>1. PICK id \in DOMAIN actions : Sign(r, id)
    BY <1>2
  <2>2. id \in 1 .. Len(signers) /\ signers[id] \cup {r} \in SUBSET Relayers
    BY DEF MultisigTypeOK
  <2>3. signers' \in Seq(SUBSET Relayers) /\ Len(signers') = Len(signers)
    BY <2>1, <2>2 DEF Sign, MultisigTypeOK
  <2> QED BY <2>1, <2>3 DEF Sign, MultisigTypeOK, boardVars, ethVars
<1>3. CASE \E id \in DOMAIN actions : PerformSetStatus(r, id)
  <2>1. PICK id \in DOMAIN actions : PerformSetStatus(r, id)
    BY <1>3
  <2>2. PICK mapped :
          /\ ClearActions(ClearedWith(id, mapped))
          /\ statusActions' = statusActions \ mapped
    BY <2>1 DEF PerformSetStatus
  <2>3. /\ actions' \in Seq(ActionType)
        /\ signers' \in Seq(SUBSET Relayers)
        /\ Len(signers') = Len(actions')
    BY <2>2, ClearActionsType
  <2> QED BY <2>1, <2>2, <2>3 DEF PerformSetStatus, MultisigTypeOK, boardVars, ethVars
<1>4. CASE \E id \in DOMAIN actions : PerformBatchTransfer(r, id)
  <2>1. PICK id \in DOMAIN actions : PerformBatchTransfer(r, id)
    BY <1>4
  <2>2. PICK mapped :
          /\ ClearActions(ClearedWith(id, mapped))
          /\ transferActions' = transferActions \ mapped
    BY <2>1 DEF PerformBatchTransfer
  <2>3. /\ actions' \in Seq(ActionType)
        /\ signers' \in Seq(SUBSET Relayers)
        /\ Len(signers') = Len(actions')
    BY <2>2, ClearActionsType
  <2> DEFINE transfers == actions[id].transfers
  <2>4. transfers \in Seq(EthTransfers) /\ transfers # <<>>
    <3>1. actions[id] \in ActionType /\ actions[id].type = "BatchTransfer"
      BY <2>1 DEF MultisigTypeOK, PerformBatchTransfer
    <3> QED BY <2>1, <3>1
            DEF PerformBatchTransfer, ActionType, TransferAction, StatusAction, Nothing
  <2>5. transfers[Len(transfers)] \in EthTransfers
    BY <2>4
  <2>6. transfers[Len(transfers)].nonce \in Nat
    BY <2>5, MultisigAssumption, TxBatchAssumption DEF EthTransfers
  <2>7. executedEthTxs \o transfers \in Seq(EthTransfers)
    BY <2>4 DEF MultisigTypeOK
  <2> QED BY <2>1, <2>2, <2>3, <2>6, <2>7 DEF PerformBatchTransfer, MultisigTypeOK, boardVars
<1>5. CASE \E amount \in StakeAmounts : Stake(r, amount)
  <2>1. PICK amount \in StakeAmounts : Stake(r, amount)
    BY <1>5
  <2>2. amount \in Nat
    BY MultisigAssumption
  <2>3. amountStaked' \in [Relayers -> Nat]
    BY <2>1, <2>2 DEF Stake, MultisigTypeOK
  <2> QED BY <2>1, <2>3 DEF Stake, MultisigTypeOK, actionVars, ethVars
<1>6. CASE \E amount \in StakeAmounts : Unstake(r, amount)
  <2>1. PICK amount \in StakeAmounts : Unstake(r, amount)
    BY <1>6
  <2>2. amount \in Nat
    BY MultisigAssumption
  <2>3. amountStaked' \in [Relayers -> Nat]
    BY <2>1, <2>2 DEF Unstake, MultisigTypeOK
  <2> QED BY <2>1, <2>3 DEF Unstake, MultisigTypeOK, actionVars, ethVars
<1> QED BY <1>1, <1>2, <1>3, <1>4, <1>5, <1>6 DEF RelayerNext

\* removeUser and slashBoardMember keep the board a set of relayers.
LEMMA RemoveRoleType ==
    ASSUME MultisigTypeOK, NEW r \in Relayers, RemoveRole(r)
    PROVE  board' \in SUBSET Relayers /\ numBoardMembers' \in Nat
BY DEF RemoveRole, MultisigTypeOK

\* Every operation of the owner keeps the types.
LEMMA OwnerType ==
    ASSUME MultisigTypeOK, OwnerNext
    PROVE  MultisigTypeOK'
<1>1. CASE \E r \in Relayers : AddBoardMember(r)
  BY <1>1 DEF AddBoardMember, MultisigTypeOK, actionVars, ethVars
<1>2. CASE \E r \in Relayers : RemoveUser(r)
  BY <1>2, RemoveRoleType DEF RemoveUser, MultisigTypeOK, actionVars, ethVars
<1>3. CASE \E r \in Relayers : SlashBoardMember(r)
  <2>1. PICK r \in Relayers : SlashBoardMember(r)
    BY <1>3
  <2>2. amountStaked' \in [Relayers -> Nat] /\ slashedTokens' \in Nat
    BY <2>1, MultisigAssumption DEF SlashBoardMember, MultisigTypeOK
  <2>3. board' \in SUBSET Relayers /\ numBoardMembers' \in Nat
    BY <2>1, RemoveRoleType DEF SlashBoardMember
  <2> QED BY <2>1, <2>2, <2>3 DEF SlashBoardMember, MultisigTypeOK, actionVars, ethVars
<1>4. CASE \E newQuorum \in Quorums : ChangeQuorum(newQuorum)
  BY <1>4, MultisigAssumption DEF ChangeQuorum, MultisigTypeOK, actionVars, ethVars
<1>5. CASE MultisigSetPaused
  BY <1>5 DEF MultisigSetPaused, MultisigTypeOK, boardVars, actionVars, ethVars
<1>6. CASE \E fee \in RequiredFees : MoveRefundBatchToSafe(fee)
  BY <1>6 DEF MoveRefundBatchToSafe, MultisigTypeOK, multisigVars, boardVars,
              actionVars, ethVars
<1> QED BY <1>1, <1>2, <1>3, <1>4, <1>5, <1>6 DEF OwnerNext

(***************************************************************************)
(* The multisig's storage always has its type: the list of actions and the *)
(* list of their signers stay in step, stakes and counters never become    *)
(* negative, and the mappings only hold proposals that were really made.   *)
(***************************************************************************)
THEOREM MultisigTypeCorrect == Spec => []MultisigTypeOK
<1>1. MultisigTypeOK /\ [Next]_vars => MultisigTypeOK'
  <2> SUFFICES ASSUME MultisigTypeOK, [Next]_vars PROVE MultisigTypeOK'
    OBVIOUS
  <2>1. CASE ContractsNext
    BY <2>1 DEF ContractsNext, MultisigTypeOK, multisigVars, boardVars, actionVars, ethVars
  <2>2. CASE UNCHANGED vars
    BY <2>2 DEF vars, MultisigTypeOK, multisigVars, boardVars, actionVars, ethVars
  <2> QED BY <2>1, <2>2, RelayerType, OwnerType DEF Next
<1>2. Init => MultisigTypeOK
  BY InitDeployed, InitType
<1> QED BY <1>1, <1>2, PTL DEF Spec

------------------------------------------------------------------------------
(***************************************************************************)
(* The actions.  The inductive argument: all pending transfers are for the *)
(* next Ethereum batch (PendingActionsAreCurrent), so all of them are in   *)
(* the mapping under the batch that is performed (MappingsMatchActions);   *)
(* when there is more than one the mapping has more than one entry and all *)
(* are cleared.  Neither invariant is inductive without the other.         *)
(***************************************************************************)

\* What an EXCEPT on the safe's storage needs to keep first_batch_id.
SafeShape == "firstBatchId" \in DOMAIN safe

\* The mappings are storage: they have finitely many entries.
MappingsAreFinite == IsFiniteSet(transferActions) /\ IsFiniteSet(statusActions)

ActionsInv ==
    /\ SafeShape
    /\ MappingsAreFinite
    /\ PendingActionsAreCurrent
    /\ MappingsMatchActions
    /\ EthTxsExecutedOnceInOrder

\* A finite set with two different members has more than one.
LEMMA TwoMembers ==
    ASSUME NEW S, IsFiniteSet(S), NEW x \in S, NEW y \in S, x # y
    PROVE  Cardinality(S) > 1
<1>1. IsFiniteSet({x}) /\ Cardinality({x}) = 1
  BY FS_Singleton
<1>2. Cardinality({x} \cup {y}) = 2 /\ IsFiniteSet({x} \cup {y})
  BY <1>1, FS_AddElement
<1>3. {x} \cup {y} \subseteq S
  OBVIOUS
<1>4. Cardinality({x} \cup {y}) <= Cardinality(S)
  BY <1>3, FS_Subset
<1>5. Cardinality(S) \in Nat
  BY FS_CardinalityType
<1> QED BY <1>2, <1>4, <1>5

\* Performing one transfer clears every pending transfer, and nothing else.
LEMMA TransfersClearedTogether ==
    ASSUME MultisigTypeOK, ActionsInv, NEW id \in DOMAIN actions,
           actions[id].type = "BatchTransfer",
           NEW mapped, mapped = {m \in transferActions : m.batchId = actions[id].batchId}
    PROVE  /\ mapped = transferActions
           /\ \A j \in DOMAIN actions :
                 j \in ClearedWith(id, mapped) <=> actions[j].type = "BatchTransfer"
<1>1. \A m \in transferActions :
         /\ m.actionId \in DOMAIN actions
         /\ actions[m.actionId].type = "BatchTransfer"
         /\ m.batchId = actions[m.actionId].batchId
  <2> TAKE m \in transferActions
  <2>1. /\ m.actionId \in DOMAIN actions
        /\ actions[m.actionId] = BatchTransfer(m.batchId, m.transfers)
    BY DEF ActionsInv, MappingsMatchActions
  <2>2. /\ BatchTransfer(m.batchId, m.transfers).type = "BatchTransfer"
        /\ BatchTransfer(m.batchId, m.transfers).batchId = m.batchId
    BY DEF BatchTransfer
  <2> QED BY <2>1, <2>2
<1>2. mapped = transferActions
  BY <1>1 DEF ActionsInv, PendingActionsAreCurrent
<1>3. ASSUME NEW j \in DOMAIN actions, actions[j].type = "BatchTransfer", j # id
      PROVE  j \in ClearedWith(id, mapped)
  <2> DEFINE entry(k) == [batchId |-> actions[k].batchId,
                          transfers |-> actions[k].transfers, actionId |-> k]
  <2>1. entry(j) \in mapped /\ entry(id) \in mapped
    BY <1>2, <1>3 DEF ActionsInv, MappingsMatchActions
  <2>2. entry(j) # entry(id)
    BY <1>3
  <2>3. Cardinality(mapped) > 1
    BY <1>2, <2>1, <2>2, TwoMembers DEF ActionsInv, MappingsAreFinite
  <2>4. entry(j).actionId = j
    OBVIOUS
  <2> QED BY <2>1, <2>3, <2>4 DEF ClearedWith
<1>4. \A j \in ClearedWith(id, mapped) :
         j \in DOMAIN actions => actions[j].type = "BatchTransfer"
  BY <1>1, <1>2 DEF ClearedWith
<1>5. id \in ClearedWith(id, mapped)
  BY DEF ClearedWith
<1> QED BY <1>2, <1>3, <1>4, <1>5

\* Performing one list of statuses clears every pending one, and nothing else.
LEMMA StatusesClearedTogether ==
    ASSUME MultisigTypeOK, ActionsInv, NEW id \in DOMAIN actions,
           actions[id].type = "SetStatus",
           NEW mapped, mapped = {m \in statusActions : m.batchId = actions[id].batchId}
    PROVE  /\ mapped = statusActions
           /\ \A j \in DOMAIN actions :
                 j \in ClearedWith(id, mapped) <=> actions[j].type = "SetStatus"
<1>1. \A m \in statusActions :
         /\ m.actionId \in DOMAIN actions
         /\ actions[m.actionId].type = "SetStatus"
         /\ m.batchId = actions[m.actionId].batchId
  <2> TAKE m \in statusActions
  <2>1. /\ m.actionId \in DOMAIN actions
        /\ actions[m.actionId] = SetStatus(m.batchId, m.statuses)
    BY DEF ActionsInv, MappingsMatchActions
  <2>2. /\ SetStatus(m.batchId, m.statuses).type = "SetStatus"
        /\ SetStatus(m.batchId, m.statuses).batchId = m.batchId
    BY DEF SetStatus
  <2> QED BY <2>1, <2>2
<1>2. mapped = statusActions
  BY <1>1 DEF ActionsInv, PendingActionsAreCurrent
<1>3. ASSUME NEW j \in DOMAIN actions, actions[j].type = "SetStatus", j # id
      PROVE  j \in ClearedWith(id, mapped)
  <2> DEFINE entry(k) == [batchId |-> actions[k].batchId,
                          statuses |-> actions[k].statuses, actionId |-> k]
  <2>1. entry(j) \in mapped /\ entry(id) \in mapped
    BY <1>2, <1>3 DEF ActionsInv, MappingsMatchActions
  <2>2. entry(j) # entry(id)
    BY <1>3
  <2>3. Cardinality(mapped) > 1
    BY <1>2, <2>1, <2>2, TwoMembers DEF ActionsInv, MappingsAreFinite
  <2>4. entry(j).actionId = j
    OBVIOUS
  <2> QED BY <2>1, <2>3, <2>4 DEF ClearedWith
<1>4. \A j \in ClearedWith(id, mapped) :
         j \in DOMAIN actions => actions[j].type = "SetStatus"
  BY <1>1, <1>2 DEF ClearedWith
<1>5. id \in ClearedWith(id, mapped)
  BY DEF ClearedWith
<1> QED BY <1>2, <1>3, <1>4, <1>5

------------------------------------------------------------------------------
(* The safe's first batch *)

\* Users and the owner's settings never move first_batch_id.
LEMMA SafeKeepsFirstBatch ==
    ASSUME SafeShape,
           \/ SafeUserNext
           \/ SafeConfigNext
           \/ \E fee \in RequiredFees : AddRefundBatch(FirstBatch(refunds), fee)
    PROVE  SafeShape' /\ safe'.firstBatchId = safe.firstBatchId
<1>1. CASE UNCHANGED safe
  BY <1>1 DEF SafeShape
<1>2. ASSUME NEW from, NEW payment, NEW fee, CreateTransaction(from, payment, fee)
      PROVE  SafeShape' /\ safe'.firstBatchId = safe.firstBatchId
  <2>1. PICK b, tx, nonce : b = [safe EXCEPT !.lastTxNonce = nonce] /\ safe' = AddToBatch(b, tx)
    BY <1>2 DEF CreateTransaction
  <2>2. PICK id : safe' = [b EXCEPT !.lastBatchId = id,
                                    !.pendingBatches[id] = Append(@, tx)]
    BY <2>1 DEF AddToBatch
  <2> QED BY <2>1, <2>2 DEF SafeShape
<1>3. ASSUME NEW fee, AddRefundBatch(FirstBatch(refunds), fee)
      PROVE  SafeShape' /\ safe'.firstBatchId = safe.firstBatchId
  <2>1. PICK b, n, txs : b = [safe EXCEPT !.lastTxNonce = @ + n]
                         /\ safe' = AddMultipleTxToBatch(b, txs)
    BY <1>3 DEF AddRefundBatch
  <2>2. PICK last, pending : safe' = [b EXCEPT !.lastBatchId = last,
                                               !.pendingBatches = pending]
    BY <2>1 DEF AddMultipleTxToBatch
  <2> QED BY <2>1, <2>2 DEF SafeShape
<1>4. ASSUME NEW size, SafeSetMaxTxBatchSize(size)
      PROVE  SafeShape' /\ safe'.firstBatchId = safe.firstBatchId
  BY <1>4 DEF SafeSetMaxTxBatchSize, SetMaxTxBatchSize, SafeShape
<1>5. ASSUME NEW duration, SafeSetMaxTxBatchBlockDuration(duration)
      PROVE  SafeShape' /\ safe'.firstBatchId = safe.firstBatchId
  BY <1>5 DEF SafeSetMaxTxBatchBlockDuration, SetMaxTxBatchBlockDuration, SafeShape
<1>6. CASE SafeUserNext
  BY <1>1, <1>2, <1>6 DEF SafeUserNext, ClaimRefund
<1>7. CASE SafeConfigNext
  <2>1. ASSUME NEW split, DistributeFees(split) PROVE UNCHANGED safe
    BY <2>1 DEF DistributeFees
  <2> QED BY <1>1, <1>4, <1>5, <1>7, <2>1
          DEF SafeConfigNext, SafeSetPaused, SafeSetWhitelisted, SafeSetBurnRole,
              SafeSetServiceFee, SafeSetMaxBridgedAmount
<1> QED BY <1>3, <1>6, <1>7

\* Steps that leave the multisig's actions and the first batch alone.
LEMMA OtherStepsKeepInv ==
    ASSUME ActionsInv, UNCHANGED <<actions, transferActions, statusActions, ethVars>>,
           SafeShape', safe'.firstBatchId = safe.firstBatchId
    PROVE  ActionsInv'
<1>1. MappingsAreFinite'
  BY DEF ActionsInv, MappingsAreFinite
<1>2. PendingActionsAreCurrent'
  BY DEF ActionsInv, PendingActionsAreCurrent, ValidEthTxIds, ethVars
<1>3. MappingsMatchActions'
  BY DEF ActionsInv, MappingsMatchActions
<1>4. EthTxsExecutedOnceInOrder'
  BY DEF ActionsInv, EthTxsExecutedOnceInOrder, Nonces, ethVars
<1> QED BY <1>1, <1>2, <1>3, <1>4 DEF ActionsInv

------------------------------------------------------------------------------
(* Proposals *)

\* propose_action leaves the earlier actions where they are.
LEMMA ProposalIsLast ==
    ASSUME MultisigTypeOK, NEW r, NEW action, ProposeAction(r, action)
    PROVE  /\ DOMAIN actions' = DOMAIN actions \cup {Len(actions')}
           /\ Len(actions') \notin DOMAIN actions
           /\ \A j \in DOMAIN actions : actions'[j] = actions[j]
           /\ actions'[Len(actions')] = action
<1>1. Len(actions) \in Nat /\ DOMAIN actions = 1 .. Len(actions)
  BY DEF MultisigTypeOK
<1>2. /\ Len(actions') = Len(actions) + 1
      /\ DOMAIN actions' = 1 .. Len(actions) + 1
      /\ \A j \in 1 .. Len(actions) : actions'[j] = actions[j]
      /\ actions'[Len(actions) + 1] = action
  BY <1>1 DEF ProposeAction, MultisigTypeOK
<1> QED BY <1>1, <1>2

\* A proposed transfer is for the next Ethereum batch and is recorded.
LEMMA ProposeTransferKeepsInv ==
    ASSUME MultisigTypeOK, ActionsInv, NEW r, NEW batchId, NEW transfers,
           ProposeMultiTransferEsdtBatch(r, batchId, transfers)
    PROVE  ActionsInv'
<1> DEFINE new == Len(actions')
           entry == [batchId |-> batchId, transfers |-> transfers, actionId |-> new]
<1>1. ProposeAction(r, BatchTransfer(batchId, transfers))
  BY DEF ProposeMultiTransferEsdtBatch
<1>2. /\ DOMAIN actions' = DOMAIN actions \cup {new}
      /\ new \notin DOMAIN actions
      /\ \A j \in DOMAIN actions : actions'[j] = actions[j]
      /\ actions'[new] = BatchTransfer(batchId, transfers)
  BY <1>1, ProposalIsLast
<1>3. /\ transferActions' = transferActions \cup {entry}
      /\ batchId = lastExecutedEthBatchId + 1
      /\ ValidEthTxIds(transfers)
      /\ UNCHANGED <<safe, statusActions, lastExecutedEthBatchId, lastExecutedEthTxId,
                     executedEthTxs>>
  BY DEF ProposeMultiTransferEsdtBatch, safeVars, ethVars
<1>4. /\ BatchTransfer(batchId, transfers).type = "BatchTransfer"
      /\ BatchTransfer(batchId, transfers).batchId = batchId
      /\ BatchTransfer(batchId, transfers).transfers = transfers
  BY DEF BatchTransfer
<1>5. MappingsAreFinite'
  BY <1>3, FS_AddElement DEF ActionsInv, MappingsAreFinite
<1>6. PendingActionsAreCurrent'
  <2> SUFFICES ASSUME NEW j \in DOMAIN actions'
               PROVE  /\ actions'[j].type = "BatchTransfer" =>
                            /\ actions'[j].batchId = lastExecutedEthBatchId' + 1
                            /\ \A i \in DOMAIN actions'[j].transfers :
                                  actions'[j].transfers[i].nonce = lastExecutedEthTxId' + i
                      /\ actions'[j].type = "SetStatus" =>
                            actions'[j].batchId = safe'.firstBatchId
    BY SMTT(20) DEF PendingActionsAreCurrent, ValidEthTxIds
  <2>1. CASE j = new
    BY <1>2, <1>3, <1>4, <2>1, ZenonT(30) DEF ValidEthTxIds
  <2>2. CASE j \in DOMAIN actions
    BY <1>2, <1>3, <2>2, ZenonT(30) DEF ActionsInv, PendingActionsAreCurrent, ValidEthTxIds
  <2> QED BY <1>2, <2>1, <2>2, ZenonT(30)
<1>7. MappingsMatchActions'
  <2>1. ASSUME NEW m \in transferActions'
        PROVE  /\ m.actionId \in DOMAIN actions'
               /\ actions'[m.actionId] = BatchTransfer(m.batchId, m.transfers)
    <3>1. CASE m = entry
      BY <1>2, <3>1
    <3>2. CASE m \in transferActions
      BY <1>2, <3>2, ZenonT(30) DEF ActionsInv, MappingsMatchActions
    <3> QED BY <1>3, <3>1, <3>2
  <2>2. ASSUME NEW m \in statusActions'
        PROVE  /\ m.actionId \in DOMAIN actions'
               /\ actions'[m.actionId] = SetStatus(m.batchId, m.statuses)
    BY <1>2, <1>3, <2>2, ZenonT(30) DEF ActionsInv, MappingsMatchActions
  <2>3. ASSUME NEW j \in DOMAIN actions'
        PROVE  /\ actions'[j].type = "BatchTransfer" =>
                     [batchId |-> actions'[j].batchId, transfers |-> actions'[j].transfers,
                      actionId |-> j] \in transferActions'
               /\ actions'[j].type = "SetStatus" =>
                     [batchId |-> actions'[j].batchId, statuses |-> actions'[j].statuses,
                      actionId |-> j] \in statusActions'
    <3>1. CASE j = new
      BY <1>2, <1>3, <1>4, <3>1, ZenonT(30)
    <3>2. CASE j \in DOMAIN actions
      BY <1>2, <1>3, <3>2, ZenonT(30) DEF ActionsInv, MappingsMatchActions
    <3> QED BY <1>2, <3>1, <3>2, ZenonT(30)
  <2> QED BY <2>1, <2>2, <2>3 DEF MappingsMatchActions
<1>8. EthTxsExecutedOnceInOrder' /\ SafeShape'
  BY <1>3 DEF ActionsInv, EthTxsExecutedOnceInOrder, Nonces, SafeShape
<1> QED BY <1>5, <1>6, <1>7, <1>8 DEF ActionsInv

\* A proposed list of statuses is for the safe's first batch and is recorded.
LEMMA ProposeStatusKeepsInv ==
    ASSUME MultisigTypeOK, ActionsInv, NEW r, NEW batchId, NEW statuses,
           ProposeEsdtSafeSetCurrentTransactionBatchStatus(r, batchId, statuses)
    PROVE  ActionsInv'
<1> DEFINE new == Len(actions')
           entry == [batchId |-> batchId, statuses |-> statuses, actionId |-> new]
<1>1. ProposeAction(r, SetStatus(batchId, statuses))
  BY DEF ProposeEsdtSafeSetCurrentTransactionBatchStatus
<1>2. /\ DOMAIN actions' = DOMAIN actions \cup {new}
      /\ new \notin DOMAIN actions
      /\ \A j \in DOMAIN actions : actions'[j] = actions[j]
      /\ actions'[new] = SetStatus(batchId, statuses)
  BY <1>1, ProposalIsLast
<1>3. /\ statusActions' = statusActions \cup {entry}
      /\ batchId = safe.firstBatchId
      /\ UNCHANGED <<safe, transferActions, lastExecutedEthBatchId, lastExecutedEthTxId,
                     executedEthTxs>>
  BY DEF ProposeEsdtSafeSetCurrentTransactionBatchStatus, safeVars, ethVars
<1>4. /\ SetStatus(batchId, statuses).type = "SetStatus"
      /\ SetStatus(batchId, statuses).batchId = batchId
      /\ SetStatus(batchId, statuses).statuses = statuses
  BY DEF SetStatus
<1>5. MappingsAreFinite'
  BY <1>3, FS_AddElement, ZenonT(30) DEF ActionsInv, MappingsAreFinite
<1>6. PendingActionsAreCurrent'
  <2> SUFFICES ASSUME NEW j \in DOMAIN actions'
               PROVE  /\ actions'[j].type = "BatchTransfer" =>
                            /\ actions'[j].batchId = lastExecutedEthBatchId' + 1
                            /\ \A i \in DOMAIN actions'[j].transfers :
                                  actions'[j].transfers[i].nonce = lastExecutedEthTxId' + i
                      /\ actions'[j].type = "SetStatus" =>
                            actions'[j].batchId = safe'.firstBatchId
    BY DEF PendingActionsAreCurrent, ValidEthTxIds
  <2>1. CASE j = new
    BY <1>2, <1>3, <1>4, <2>1, ZenonT(30)
  <2>2. CASE j \in DOMAIN actions
    BY <1>2, <1>3, <2>2, ZenonT(30) DEF ActionsInv, PendingActionsAreCurrent, ValidEthTxIds
  <2> QED BY <1>2, <2>1, <2>2
<1>7. MappingsMatchActions'
  <2>1. ASSUME NEW m \in transferActions'
        PROVE  /\ m.actionId \in DOMAIN actions'
               /\ actions'[m.actionId] = BatchTransfer(m.batchId, m.transfers)
    BY <1>2, <1>3, <2>1, ZenonT(30) DEF ActionsInv, MappingsMatchActions
  <2>2. ASSUME NEW m \in statusActions'
        PROVE  /\ m.actionId \in DOMAIN actions'
               /\ actions'[m.actionId] = SetStatus(m.batchId, m.statuses)
    <3>1. CASE m = entry
      BY <1>2, <3>1, SMTT(20)
    <3>2. CASE m \in statusActions
      BY <1>2, <3>2, ZenonT(30) DEF ActionsInv, MappingsMatchActions
    <3> QED BY <1>3, <3>1, <3>2
  <2>3. ASSUME NEW j \in DOMAIN actions'
        PROVE  /\ actions'[j].type = "BatchTransfer" =>
                     [batchId |-> actions'[j].batchId, transfers |-> actions'[j].transfers,
                      actionId |-> j] \in transferActions'
               /\ actions'[j].type = "SetStatus" =>
                     [batchId |-> actions'[j].batchId, statuses |-> actions'[j].statuses,
                      actionId |-> j] \in statusActions'
    <3>1. CASE j = new
      BY <1>2, <1>3, <1>4, <3>1, ZenonT(30)
    <3>2. CASE j \in DOMAIN actions
      BY <1>2, <1>3, <3>2, ZenonT(30) DEF ActionsInv, MappingsMatchActions
    <3> QED BY <1>2, <3>1, <3>2
  <2> QED BY <2>1, <2>2, <2>3 DEF MappingsMatchActions
<1>8. EthTxsExecutedOnceInOrder' /\ SafeShape'
  BY <1>3 DEF ActionsInv, EthTxsExecutedOnceInOrder, Nonces, SafeShape
<1> QED BY <1>5, <1>6, <1>7, <1>8 DEF ActionsInv

------------------------------------------------------------------------------
(* Performing *)

\* The transfers of a pending proposal continue the executed ones.
LEMMA ExecutionContinues ==
    ASSUME MultisigTypeOK, EthTxsExecutedOnceInOrder,
           NEW transfers \in Seq(EthTransfers), transfers # <<>>, ValidEthTxIds(transfers),
           lastExecutedEthTxId' = transfers[Len(transfers)].nonce,
           executedEthTxs' = executedEthTxs \o transfers
    PROVE  EthTxsExecutedOnceInOrder'
<1> DEFINE last == lastExecutedEthTxId
           k == Len(transfers)
<1>1. last \in Nat /\ k \in Nat \ {0} /\ DOMAIN transfers = 1 .. k
  BY DEF MultisigTypeOK
<1>2. executedEthTxs \in Seq(EthTransfers) /\ DOMAIN executedEthTxs = 1 .. last
  BY DEF MultisigTypeOK, EthTxsExecutedOnceInOrder, Nonces
<1>3. Len(executedEthTxs) = last
  BY <1>1, <1>2
<1>4. \A i \in 1 .. last : executedEthTxs[i].nonce = i
  BY <1>2 DEF EthTxsExecutedOnceInOrder, Nonces
<1>5. \A i \in 1 .. k : transfers[i].nonce = last + i
  BY <1>1 DEF ValidEthTxIds
<1>6. lastExecutedEthTxId' = last + k
  BY <1>1, <1>5
<1>7. /\ executedEthTxs' \in Seq(EthTransfers)
      /\ Len(executedEthTxs') = last + k
      /\ \A i \in 1 .. last + k :
            executedEthTxs'[i] = IF i <= last THEN executedEthTxs[i] ELSE transfers[i - last]
  BY <1>2, <1>3, ConcatProperties
<1>8. ASSUME NEW i \in 1 .. last + k PROVE executedEthTxs'[i].nonce = i
  <2>1. CASE i <= last
    BY <1>1, <1>4, <1>7, <2>1
  <2>2. CASE i > last
    <3>1. i - last \in 1 .. k
      BY <1>1, <2>2
    <3>2. executedEthTxs'[i] = transfers[i - last]
      BY <1>1, <1>7, <2>2
    <3>3. transfers[i - last].nonce = last + (i - last)
      BY <1>5, <3>1
    <3> QED BY <1>1, <3>2, <3>3
  <2>3. i <= last \/ i > last
    <3> HIDE DEF last, k
    <3> QED BY <1>1
  <2> QED BY <2>1, <2>2, <2>3
<1>9. DOMAIN executedEthTxs' = 1 .. last + k
  BY <1>7
<1> QED BY <1>6, <1>8, <1>9 DEF EthTxsExecutedOnceInOrder, Nonces

\* No transfer is pending after one was performed; the statuses are untouched.
LEMMA PerformTransferKeepsInv ==
    ASSUME MultisigTypeOK, ActionsInv, NEW r, NEW id \in DOMAIN actions,
           PerformBatchTransfer(r, id)
    PROVE  ActionsInv'
<1> DEFINE mapped == {m \in transferActions : m.batchId = actions[id].batchId}
           transfers == actions[id].transfers
<1>1. /\ actions[id].type = "BatchTransfer"
      /\ ClearActions(ClearedWith(id, mapped))
      /\ transferActions' = transferActions \ mapped
      /\ transfers # <<>>
      /\ lastExecutedEthTxId' = transfers[Len(transfers)].nonce
      /\ executedEthTxs' = executedEthTxs \o transfers
      /\ UNCHANGED <<safe, statusActions>>
  BY DEF PerformBatchTransfer, safeVars
<1>2. /\ transferActions' = {}
      /\ \A j \in DOMAIN actions :
            j \in ClearedWith(id, mapped) <=> actions[j].type = "BatchTransfer"
  <2> HIDE DEF mapped
  <2>1. mapped = {m \in transferActions : m.batchId = actions[id].batchId}
    BY DEF mapped
  <2> QED BY <1>1, <2>1, TransfersClearedTogether
<1>3. DOMAIN actions' = DOMAIN actions
  BY <1>1, ClearActionsType
<1>4. \A j \in DOMAIN actions :
         actions'[j] = IF actions[j].type = "BatchTransfer" THEN Nothing ELSE actions[j]
  BY <1>1, <1>2 DEF ClearActions
<1>5. Nothing.type # "BatchTransfer" /\ Nothing.type # "SetStatus"
  BY DEF Nothing
<1>6. \A j \in DOMAIN actions' :
         /\ actions'[j].type # "BatchTransfer"
         /\ actions'[j].type = "SetStatus" => actions'[j] = actions[j]
  BY <1>3, <1>4, <1>5
<1>7. PendingActionsAreCurrent'
  BY <1>1, <1>3, <1>6 DEF ActionsInv, PendingActionsAreCurrent
<1>8. MappingsMatchActions'
  <2>1. ASSUME NEW m \in statusActions'
        PROVE  /\ m.actionId \in DOMAIN actions'
               /\ actions'[m.actionId] = SetStatus(m.batchId, m.statuses)
    <3>1. /\ m.actionId \in DOMAIN actions
          /\ actions[m.actionId] = SetStatus(m.batchId, m.statuses)
      BY <1>1 DEF ActionsInv, MappingsMatchActions
    <3>2. SetStatus(m.batchId, m.statuses).type = "SetStatus"
      BY DEF SetStatus
    <3> QED BY <1>3, <1>4, <3>1, <3>2
  <2>2. ASSUME NEW j \in DOMAIN actions', actions'[j].type = "SetStatus"
        PROVE  [batchId |-> actions'[j].batchId, statuses |-> actions'[j].statuses,
                actionId |-> j] \in statusActions'
    BY <1>1, <1>3, <1>6, <2>2 DEF ActionsInv, MappingsMatchActions
  <2> QED BY <1>2, <1>6, <2>1, <2>2 DEF MappingsMatchActions
<1>9. EthTxsExecutedOnceInOrder'
  <2>1. transfers \in Seq(EthTransfers)
    <3>1. actions[id] \in ActionType
      BY DEF MultisigTypeOK
    <3> QED BY <1>1, <3>1 DEF ActionType, TransferAction, StatusAction, Nothing
  <2>2. ValidEthTxIds(transfers)
    BY <1>1 DEF ActionsInv, PendingActionsAreCurrent
  <2> QED BY <1>1, <2>1, <2>2, ExecutionContinues DEF ActionsInv
<1>10. MappingsAreFinite' /\ SafeShape'
  BY <1>1, <1>2, FS_EmptySet DEF ActionsInv, MappingsAreFinite, SafeShape
<1> QED BY <1>7, <1>8, <1>9, <1>10 DEF ActionsInv

\* No status list is pending after one was performed and the first batch moved.
LEMMA PerformStatusKeepsInv ==
    ASSUME MultisigTypeOK, ActionsInv, NEW r, NEW id \in DOMAIN actions,
           PerformSetStatus(r, id)
    PROVE  ActionsInv'
<1> DEFINE mapped == {m \in statusActions : m.batchId = actions[id].batchId}
<1>1. /\ actions[id].type = "SetStatus"
      /\ ClearActions(ClearedWith(id, mapped))
      /\ statusActions' = statusActions \ mapped
      /\ UNCHANGED <<transferActions, lastExecutedEthBatchId, lastExecutedEthTxId,
                     executedEthTxs>>
  BY DEF PerformSetStatus, ethVars
<1>2. /\ statusActions' = {}
      /\ \A j \in DOMAIN actions :
            j \in ClearedWith(id, mapped) <=> actions[j].type = "SetStatus"
  <2> HIDE DEF mapped
  <2>1. mapped = {m \in statusActions : m.batchId = actions[id].batchId}
    BY DEF mapped
  <2> QED BY <1>1, <2>1, StatusesClearedTogether
<1>3. DOMAIN actions' = DOMAIN actions
  BY <1>1, ClearActionsType
<1>4. \A j \in DOMAIN actions :
         actions'[j] = IF actions[j].type = "SetStatus" THEN Nothing ELSE actions[j]
  BY <1>1, <1>2 DEF ClearActions
<1>5. Nothing.type # "BatchTransfer" /\ Nothing.type # "SetStatus"
  BY DEF Nothing
<1>6. \A j \in DOMAIN actions' :
         /\ actions'[j].type # "SetStatus"
         /\ actions'[j].type = "BatchTransfer" => actions'[j] = actions[j]
  BY <1>3, <1>4, <1>5
<1>7. PendingActionsAreCurrent'
  BY <1>1, <1>3, <1>6 DEF ActionsInv, PendingActionsAreCurrent, ValidEthTxIds
<1>8. MappingsMatchActions'
  <2>1. ASSUME NEW m \in transferActions'
        PROVE  /\ m.actionId \in DOMAIN actions'
               /\ actions'[m.actionId] = BatchTransfer(m.batchId, m.transfers)
    <3>1. /\ m.actionId \in DOMAIN actions
          /\ actions[m.actionId] = BatchTransfer(m.batchId, m.transfers)
      BY <1>1 DEF ActionsInv, MappingsMatchActions
    <3>2. BatchTransfer(m.batchId, m.transfers).type = "BatchTransfer"
      BY DEF BatchTransfer
    <3> QED BY <1>3, <1>4, <3>1, <3>2
  <2>2. ASSUME NEW j \in DOMAIN actions', actions'[j].type = "BatchTransfer"
        PROVE  [batchId |-> actions'[j].batchId, transfers |-> actions'[j].transfers,
                actionId |-> j] \in transferActions'
    BY <1>1, <1>3, <1>6, <2>2 DEF ActionsInv, MappingsMatchActions
  <2> QED BY <1>2, <1>6, <2>1, <2>2 DEF MappingsMatchActions
<1>9. EthTxsExecutedOnceInOrder' /\ MappingsAreFinite'
  BY <1>1, <1>2, FS_EmptySet
  DEF ActionsInv, EthTxsExecutedOnceInOrder, Nonces, MappingsAreFinite
<1>10. SafeShape'
  <2>1. safe' = ClearFirstBatch(safe)
    BY DEF PerformSetStatus, SetTransactionBatchStatus
  <2>2. PICK last : safe' = [safe EXCEPT !.firstBatchId = safe.firstBatchId + 1,
                                         !.lastBatchId = last,
                                         !.pendingBatches[safe.firstBatchId] = <<>>]
    BY <2>1 DEF ClearFirstBatch
  <2> QED BY <2>2 DEF SafeShape, ActionsInv
<1> QED BY <1>7, <1>8, <1>9, <1>10 DEF ActionsInv

------------------------------------------------------------------------------
(* The invariant *)

\* Every step of the contracts keeps the invariant.
LEMMA ActionsInvInductive == MultisigTypeOK /\ ActionsInv /\ [Next]_vars => ActionsInv'
<1> SUFFICES ASSUME MultisigTypeOK, ActionsInv, [Next]_vars PROVE ActionsInv'
  OBVIOUS
<1>1. ASSUME NEW r \in Relayers, RelayerNext(r) PROVE ActionsInv'
  <2>1. CASE ProposeNext(r)
    BY <2>1, ProposeTransferKeepsInv, ProposeStatusKeepsInv DEF ProposeNext
  <2>2. CASE \E id \in DOMAIN actions : PerformSetStatus(r, id)
    BY <2>2, PerformStatusKeepsInv
  <2>3. CASE \E id \in DOMAIN actions : PerformBatchTransfer(r, id)
    BY <2>3, PerformTransferKeepsInv
  <2>4. CASE \/ \E id \in DOMAIN actions : Sign(r, id)
             \/ \E amount \in StakeAmounts : Stake(r, amount)
             \/ \E amount \in StakeAmounts : Unstake(r, amount)
    <3>1. UNCHANGED <<safe, actions, transferActions, statusActions, ethVars>>
      BY <2>4 DEF Sign, Stake, Unstake, safeVars, actionVars
    <3>2. SafeShape'
      BY <3>1 DEF ActionsInv, SafeShape
    <3> QED BY <3>1, <3>2, OtherStepsKeepInv
  <2> QED BY <1>1, <2>1, <2>2, <2>3, <2>4 DEF RelayerNext
<1>2. CASE OwnerNext
  <2>1. CASE \E fee \in RequiredFees : MoveRefundBatchToSafe(fee)
    <3>1. \E fee \in RequiredFees : AddRefundBatch(FirstBatch(refunds), fee)
      BY <2>1 DEF MoveRefundBatchToSafe
    <3>2. UNCHANGED <<actions, transferActions, statusActions, ethVars>>
      BY <2>1 DEF MoveRefundBatchToSafe, multisigVars, actionVars
    <3> QED BY <3>1, <3>2, SafeKeepsFirstBatch, OtherStepsKeepInv DEF ActionsInv
  <2>2. CASE ~ \E fee \in RequiredFees : MoveRefundBatchToSafe(fee)
    <3>1. UNCHANGED <<safe, actions, transferActions, statusActions, ethVars>>
      BY <1>2, <2>2 DEF OwnerNext, AddBoardMember, RemoveUser, SlashBoardMember,
         ChangeQuorum, MultisigSetPaused, safeVars, actionVars
    <3>2. SafeShape'
      BY <3>1 DEF ActionsInv, SafeShape
    <3> QED BY <3>1, <3>2, OtherStepsKeepInv
  <2> QED BY <2>1, <2>2
<1>3. CASE ContractsNext
  <2>1. UNCHANGED <<actions, transferActions, statusActions, ethVars>>
    BY <1>3 DEF ContractsNext, multisigVars, actionVars
  <2>2. SafeUserNext \/ SafeConfigNext \/ UNCHANGED safe
    BY <1>3 DEF ContractsNext, safeVars
  <2>3. SafeShape' /\ safe'.firstBatchId = safe.firstBatchId
    BY <2>2, SafeKeepsFirstBatch DEF ActionsInv, SafeShape
  <2> QED BY <2>1, <2>3, OtherStepsKeepInv
<1>4. CASE UNCHANGED vars
  <2>1. UNCHANGED <<safe, actions, transferActions, statusActions, ethVars>>
    BY <1>4 DEF vars, safeVars, multisigVars, actionVars
  <2>2. SafeShape'
    BY <2>1 DEF ActionsInv, SafeShape
  <2> QED BY <2>1, <2>2, OtherStepsKeepInv
<1> QED BY <1>1, <1>2, <1>3, <1>4 DEF Next

\* A freshly deployed multisig has no actions.
LEMMA InitActionsInv ==
    ASSUME NEW ready, ContractsDeployed(ready)
    PROVE  ActionsInv
<1>1. SafeShape
  <2>1. PICK size, duration : safe = EmptyBatches(size, duration)
    BY DEF ContractsDeployed, SafeDeployed
  <2> QED BY <2>1 DEF EmptyBatches, SafeShape
<1>2. /\ actions = <<>>
      /\ transferActions = {}
      /\ statusActions = {}
      /\ lastExecutedEthTxId = 0
      /\ executedEthTxs = <<>>
  BY DEF ContractsDeployed, MultisigDeployed
<1>3. MappingsAreFinite
  BY <1>2, FS_EmptySet DEF MappingsAreFinite
<1>4. DOMAIN actions = {} /\ DOMAIN executedEthTxs = {} /\ 1 .. 0 = {}
  BY <1>2
<1>5. PendingActionsAreCurrent /\ MappingsMatchActions
  BY <1>2, <1>4 DEF PendingActionsAreCurrent, MappingsMatchActions
<1>6. EthTxsExecutedOnceInOrder
  BY <1>2, <1>4 DEF EthTxsExecutedOnceInOrder, Nonces
<1> QED BY <1>1, <1>3, <1>5, <1>6 DEF ActionsInv

\* The inductive invariant holds throughout.
LEMMA ActionsInvAlways == Spec => []ActionsInv
<1>1. Init => ActionsInv
  BY InitDeployed, InitActionsInv
<1> QED BY <1>1, ActionsInvInductive, MultisigTypeCorrect, PTL DEF Spec

(***************************************************************************)
(* The Ethereum deposits handed to the multi-transfer contract are exactly *)
(* 1 .. last_executed_eth_tx_id, each once and in order, however many      *)
(* different proposals for the same batch board members have made and      *)
(* signed (perform_action, propose_multi_transfer_esdt_batch).             *)
(***************************************************************************)
THEOREM DepositsExecutedOnceInOrder == Spec => []EthTxsExecutedOnceInOrder
<1>1. ActionsInv => EthTxsExecutedOnceInOrder
  BY DEF ActionsInv
<1> QED BY <1>1, ActionsInvAlways, PTL

(***************************************************************************)
(* No proposal for a batch that has been processed stays pending           *)
(* (perform_action clears every action that the mapping holds for it).     *)
(***************************************************************************)
THEOREM NoStaleProposals == Spec => []PendingActionsAreCurrent
<1>1. ActionsInv => PendingActionsAreCurrent
  BY DEF ActionsInv
<1> QED BY <1>1, ActionsInvAlways, PTL

(***************************************************************************)
(* What wasTransferActionProposed, getActionIdForTransferBatch and their   *)
(* set-status counterparts answer from the mappings always agrees with     *)
(* the list of actions.                                                    *)
(***************************************************************************)
THEOREM MappingsAlwaysMatch == Spec => []MappingsMatchActions
<1>1. ActionsInv => MappingsMatchActions
  BY DEF ActionsInv
<1> QED BY <1>1, ActionsInvAlways, PTL

------------------------------------------------------------------------------
(* The funds: the inductive invariant *)

\* A refund in a batch of the multi-transfer contract.
WaitingRefund == [block : Nat, nonce : Nat, to : Recipients, amount : Nat,
                  serviceFee : Nat, isRefundTx : BOOLEAN]

\* The window of refund batches moves by at most one batch per refund.
RefundBatchesOK ==
    /\ refunds \in BatchesOf(WaitingRefund)
    /\ Window(refunds, Len(refunded))

\* Every executed deposit is in one of the two histories.
DeliveriesOK ==
    /\ delivered \in Seq(Nat) /\ refunded \in Seq(Nat)
    /\ Len(delivered) + Len(refunded) = lastExecutedEthTxId
    /\ Range(delivered) \cup Range(refunded) = 1 .. lastExecutedEthTxId

\* The refunds that still wait are the last ones.
LastRefundsWait == \E taken \in Seq(Nat) : refunded = taken \o Nonces(Queue(refunds))

\* A proposal made for the current batch has statuses, as that batch is not empty.
StatusesNotEmpty ==
    \A id \in DOMAIN actions : actions[id].type = "SetStatus" => actions[id].statuses # <<>>

RefundsInv == block \in Nat /\ RefundBatchesOK /\ DeliveriesOK /\ LastRefundsWait

------------------------------------------------------------------------------
(* Nonces of lists *)

LEMMA NoncesAre ==
    ASSUME NEW T, \A t \in T : t.nonce \in Nat, NEW q \in Seq(T)
    PROVE  /\ Nonces(q) \in Seq(Nat) /\ Len(Nonces(q)) = Len(q) /\ DOMAIN Nonces(q) = DOMAIN q
           /\ \A i \in 1 .. Len(q) : Nonces(q)[i] = q[i].nonce
           /\ Range(Nonces(q)) = {t.nonce : t \in Range(q)}
<1>1. DOMAIN q = 1 .. Len(q) /\ Len(q) \in Nat
  OBVIOUS
<1>2. \A i \in 1 .. Len(q) : q[i] \in T
  OBVIOUS
<1>3. \A i \in 1 .. Len(q) : q[i].nonce \in Nat
  BY <1>2
<1>4. Nonces(q) = [i \in 1 .. Len(q) |-> q[i].nonce]
  BY <1>1 DEF Nonces
<1>5. /\ Nonces(q) \in Seq(Nat) /\ Len(Nonces(q)) = Len(q)
      /\ \A i \in 1 .. Len(q) : Nonces(q)[i] = q[i].nonce
      /\ DOMAIN Nonces(q) = 1 .. Len(q)
  BY <1>1, <1>3, <1>4
<1>6. Range(Nonces(q)) = {t.nonce : t \in Range(q)}
  BY <1>1, <1>5 DEF Range
<1> QED BY <1>1, <1>5, <1>6

LEMMA NoncesConcat ==
    ASSUME NEW T, \A t \in T : t.nonce \in Nat, NEW q \in Seq(T), NEW r \in Seq(T)
    PROVE  Nonces(q \o r) = Nonces(q) \o Nonces(r)
<1>1. /\ q \o r \in Seq(T) /\ Len(q \o r) = Len(q) + Len(r)
      /\ Len(q) \in Nat /\ Len(r) \in Nat
  BY ConcatProperties, LenProperties
<1> DEFINE a == Nonces(q)
           b == Nonces(r)
           c == Nonces(q \o r)
<1>2. /\ a \in Seq(Nat) /\ Len(a) = Len(q) /\ \A i \in 1 .. Len(q) : a[i] = q[i].nonce
      /\ b \in Seq(Nat) /\ Len(b) = Len(r) /\ \A i \in 1 .. Len(r) : b[i] = r[i].nonce
      /\ c \in Seq(Nat) /\ Len(c) = Len(q \o r)
      /\ \A i \in 1 .. Len(q \o r) : c[i] = (q \o r)[i].nonce
  BY <1>1, NoncesAre
<1> HIDE DEF a, b, c
<1>3. a \o b \in Seq(Nat) /\ Len(a \o b) = Len(q) + Len(r)
  <2>1. ASSUME NEW x \in Seq(Nat), NEW y \in Seq(Nat)
        PROVE  x \o y \in Seq(Nat) /\ Len(x \o y) = Len(x) + Len(y)
    BY ConcatProperties
  <2>2. a \o b \in Seq(Nat) /\ Len(a \o b) = Len(a) + Len(b)
    BY <1>2, <2>1, Zenon
  <2> QED BY <1>2, <2>2
<1>4. ASSUME NEW i \in 1 .. Len(q) + Len(r) PROVE c[i] = (a \o b)[i]
  <2>0. c[i] = (q \o r)[i].nonce
    BY <1>1, <1>2
  <2>1. CASE i <= Len(q)
    <3>1. i \in 1 .. Len(q)
      BY <1>1, <2>1
    <3>2. (q \o r)[i] = q[i] /\ (a \o b)[i] = a[i]
      BY <1>1, <1>2, <2>1, ConcatProperties
    <3> QED BY <1>2, <2>0, <3>1, <3>2
  <2>2. CASE ~(i <= Len(q))
    <3>1. i - Len(q) \in 1 .. Len(r)
      BY <1>1, <2>2
    <3>2. (q \o r)[i] = r[i - Len(q)]
      BY <1>1, <2>2, ConcatProperties
    <3>3. i \in 1 .. Len(a) + Len(b) /\ ~(i <= Len(a)) /\ Len(a) = Len(q)
      BY <1>2, <2>2
    <3>4. (a \o b)[i] = b[i - Len(q)]
      <4>1. ASSUME NEW x \in Seq(Nat), NEW y \in Seq(Nat), NEW k \in 1 .. Len(x) + Len(y),
                   ~(k <= Len(x))
            PROVE  (x \o y)[k] = y[k - Len(x)]
        BY <4>1, ConcatProperties
      <4>2. (a \o b)[i] = b[i - Len(a)]
        BY <1>2, <3>3, <4>1, Zenon
      <4> QED BY <3>3, <4>2
    <3> QED BY <1>2, <2>0, <3>1, <3>2, <3>4
  <2> QED BY <2>1, <2>2
<1>5. c = a \o b
  BY <1>1, <1>2, <1>3, <1>4, SeqEqual
<1> QED BY <1>5 DEF a, b, c

\* The members of two lists in one.
LEMMA RangeConcat ==
    ASSUME NEW T, NEW s \in Seq(T), NEW t \in Seq(T)
    PROVE  Range(s \o t) = Range(s) \cup Range(t)
<1>1. /\ Len(s) \in Nat /\ Len(t) \in Nat /\ DOMAIN s = 1 .. Len(s) /\ DOMAIN t = 1 .. Len(t)
      /\ s \o t \in Seq(T) /\ DOMAIN (s \o t) = 1 .. Len(s) + Len(t)
  BY ConcatProperties
<1>2. \A i \in 1 .. Len(s) : i \in 1 .. Len(s) + Len(t) /\ (s \o t)[i] = s[i]
  BY <1>1, ConcatProperties
<1>3. ASSUME NEW i \in 1 .. Len(t)
      PROVE  Len(s) + i \in 1 .. Len(s) + Len(t) /\ (s \o t)[Len(s) + i] = t[i]
  <2>1. /\ Len(s) + i \in 1 .. Len(s) + Len(t) /\ ~(Len(s) + i <= Len(s))
        /\ (Len(s) + i) - Len(s) = i
    BY <1>1
  <2>2. (s \o t)[Len(s) + i] = t[(Len(s) + i) - Len(s)]
    BY <1>1, <2>1, ConcatProperties
  <2> QED BY <2>1, <2>2
<1>4. ASSUME NEW i \in 1 .. Len(s) + Len(t)
      PROVE  (s \o t)[i] \in Range(s) \cup Range(t)
  <2>1. CASE i <= Len(s)
    <3>1. i \in 1 .. Len(s)
      BY <1>1, <2>1
    <3> QED BY <1>1, <1>2, <3>1 DEF Range
  <2>2. CASE ~(i <= Len(s))
    <3>1. i - Len(s) \in 1 .. Len(t) /\ (s \o t)[i] = t[i - Len(s)]
      BY <1>1, <2>2, ConcatProperties
    <3> QED BY <1>1, <3>1 DEF Range
  <2> QED BY <2>1, <2>2
<1>5. Range(s \o t) \subseteq Range(s) \cup Range(t)
  <2>1. Range(s \o t) = {(s \o t)[i] : i \in 1 .. Len(s) + Len(t)}
    BY <1>1 DEF Range
  <2> QED BY <1>4, <2>1
<1>6. Range(s) \cup Range(t) \subseteq Range(s \o t)
  BY <1>1, <1>2, <1>3 DEF Range
<1> QED BY <1>5, <1>6


------------------------------------------------------------------------------
(* Deposits paid out or refunded *)

\* The deposits executed so far are those that exist.
LEMMA ExecutedExist ==
    ASSUME NEW last \in Nat, NEW done \in Seq(EthTransfers),
           Nonces(done) = [n \in 1 .. last |-> n]
    PROVE  last <= MaxTx
<1>1. MaxEthTx \in 0 .. MaxTx /\ MaxTx \in Nat
  BY MultisigAssumption, TxBatchAssumption
<1>2. DOMAIN done = 1 .. last /\ \A i \in 1 .. last : done[i].nonce = i
  BY DEF Nonces
<1>3. CASE last # 0
  <2>1. last \in 1 .. last
    BY <1>3
  <2>2. done[last] \in EthTransfers
    BY <1>2, <2>1
  <2>3. last \in 1 .. MaxEthTx
    BY <1>2, <2>1, <2>2 DEF EthTransfers
  <2> QED BY <1>1, <2>3
<1> QED BY <1>1, <1>3

\* A refund as convert_to_refund_tx makes it.
LEMMA ConvertedIsWaiting ==
    ASSUME block \in Nat, NEW tx \in EthTransfers
    PROVE  ConvertToRefundTx(tx) \in WaitingRefund /\ ConvertToRefundTx(tx).nonce = tx.nonce
<1>1. tx.nonce \in Nat /\ tx.to \in Recipients /\ tx.amount \in Nat
  <2>1. MaxEthTx \in Nat /\ TransferAmounts \subseteq Nat
    BY MultisigAssumption, MultiTransferAssumption, TxBatchAssumption
  <2>2. tx.nonce \in 1 .. MaxEthTx /\ tx.to \in Recipients /\ tx.amount \in TransferAmounts
    BY DEF EthTransfers
  <2>3. \A n \in 1 .. MaxEthTx : n \in Nat
    BY <2>1
  <2> QED BY <2>1, <2>2, <2>3, Zenon
<1> QED BY <1>1 DEF ConvertToRefundTx, WaitingRefund

\* batch_transfer_esdt_token: each transfer goes to one of the two histories, the refunds
\* behind those that wait.
LEMMA BatchTransferKeepsRefunds ==
    ASSUME RefundsInv, MultisigTypeOK, MultisigTypeOK', EthTxsExecutedOnceInOrder',
           NEW transfers \in Seq(EthTransfers), transfers # <<>>, ValidEthTxIds(transfers),
           lastExecutedEthTxId' = transfers[Len(transfers)].nonce,
           BatchTransferEsdtToken(transfers), UNCHANGED block
    PROVE  RefundsInv'
<1> DEFINE back == ToRefund(transfers)
           refundTxs == Picked(transfers, back)
           payments == Picked(transfers, DOMAIN transfers \ back)
           new == [i \in 1 .. Len(refundTxs) |-> ConvertToRefundTx(refundTxs[i])]
           last == lastExecutedEthTxId
           size == Len(transfers)
<1>1. /\ last \in Nat /\ size \in Nat \ {0} /\ DOMAIN transfers = 1 .. size
      /\ \A i \in 1 .. size : transfers[i].nonce = last + i
  BY SMTT(20) DEF MultisigTypeOK, ValidEthTxIds
<1>2. lastExecutedEthTxId' = last + size
  BY <1>1
<1>3. \A tx \in EthTransfers : tx.nonce \in Nat
  BY MultisigAssumption DEF EthTransfers
<1>4. /\ refundTxs \in Seq(EthTransfers) /\ payments \in Seq(EthTransfers)
      /\ Len(refundTxs) + Len(payments) = size
      /\ Range(refundTxs) \cup Range(payments) = Range(transfers)
  <2> HIDE DEF back
  <2> QED BY PickedOrNot
<1>5. /\ Nonces(refundTxs) \in Seq(Nat) /\ Len(Nonces(refundTxs)) = Len(refundTxs)
      /\ \A i \in 1 .. Len(refundTxs) : Nonces(refundTxs)[i] = refundTxs[i].nonce
      /\ Range(Nonces(refundTxs)) = {t.nonce : t \in Range(refundTxs)}
      /\ Nonces(payments) \in Seq(Nat) /\ Len(Nonces(payments)) = Len(payments)
      /\ Range(Nonces(payments)) = {t.nonce : t \in Range(payments)}
  <2> HIDE DEF refundTxs, payments
  <2> QED BY <1>3, <1>4, NoncesAre
<1>6. DOMAIN refundTxs = 1 .. Len(refundTxs) /\ Len(refundTxs) \in Nat /\ Len(payments) \in Nat
  <2> HIDE DEF refundTxs, payments
  <2> QED BY <1>4
<1>7. /\ delivered' = delivered \o Nonces(payments)
      /\ refunded' = refunded \o Nonces(refundTxs)
      /\ refunds' = AddMultipleTxToBatch(refunds, new)
  BY <1>6 DEF BatchTransferEsdtToken
<1> HIDE DEF refundTxs, payments, back
<1>8. /\ block \in Nat /\ refunds \in BatchesOf(WaitingRefund) /\ Window(refunds, Len(refunded))
      /\ delivered \in Seq(Nat) /\ refunded \in Seq(Nat)
      /\ Len(delivered) + Len(refunded) = last
      /\ Range(delivered) \cup Range(refunded) = 1 .. last
  BY DEF RefundsInv, RefundBatchesOK, DeliveriesOK
<1>9. /\ new \in Seq(WaitingRefund) /\ Len(new) = Len(refundTxs)
      /\ \A i \in 1 .. Len(refundTxs) : new[i].nonce = refundTxs[i].nonce
  <2>1. \A i \in 1 .. Len(refundTxs) : refundTxs[i] \in EthTransfers
    BY <1>4
  <2>2. \A i \in 1 .. Len(refundTxs) : /\ ConvertToRefundTx(refundTxs[i]) \in WaitingRefund
                                       /\ ConvertToRefundTx(refundTxs[i]).nonce = refundTxs[i].nonce
    BY <1>8, <2>1, ConvertedIsWaiting
  <2> QED BY <1>6, <2>2
<1> HIDE DEF new
<1>10. \A t \in WaitingRefund : t.nonce \in Nat
  BY DEF WaitingRefund
<1>11. Nonces(new) = Nonces(refundTxs)
  <2>1. /\ Nonces(new) \in Seq(Nat) /\ Len(Nonces(new)) = Len(new)
        /\ \A i \in 1 .. Len(new) : Nonces(new)[i] = new[i].nonce
    BY <1>9, <1>10, NoncesAre
  <2>2. \A i \in 1 .. Len(refundTxs) : Nonces(new)[i] = Nonces(refundTxs)[i]
    BY <1>5, <1>9, <2>1
  <2> QED BY <1>5, <1>9, <2>1, <2>2, SeqEqual
<1>12. /\ delivered' \in Seq(Nat) /\ Len(delivered') = Len(delivered) + Len(payments)
       /\ Range(delivered') = Range(delivered) \cup Range(Nonces(payments))
       /\ refunded' \in Seq(Nat) /\ Len(refunded') = Len(refunded) + Len(refundTxs)
       /\ Range(refunded') = Range(refunded) \cup Range(Nonces(refundTxs))
  <2>1. ASSUME NEW x \in Seq(Nat), NEW y \in Seq(Nat)
        PROVE  /\ x \o y \in Seq(Nat) /\ Len(x \o y) = Len(x) + Len(y)
               /\ Range(x \o y) = Range(x) \cup Range(y)
    BY ConcatProperties, RangeConcat
  <2>2. /\ delivered' \in Seq(Nat) /\ Len(delivered') = Len(delivered) + Len(Nonces(payments))
        /\ Range(delivered') = Range(delivered) \cup Range(Nonces(payments))
    BY <1>5, <1>7, <1>8, <2>1, Zenon
  <2>3. /\ refunded' \in Seq(Nat) /\ Len(refunded') = Len(refunded) + Len(Nonces(refundTxs))
        /\ Range(refunded') = Range(refunded) \cup Range(Nonces(refundTxs))
    BY <1>5, <1>7, <1>8, <2>1, Zenon
  <2> QED BY <1>5, <2>2, <2>3
<1>13. Len(delivered) \in Nat /\ Len(refunded) \in Nat
  BY <1>8
<1>14. DeliveriesOK'
  <2>1. Len(delivered') + Len(refunded') = last + size
    <3> DEFINE a == Len(delivered)
               b == Len(refunded)
               c == Len(refundTxs)
               d == Len(payments)
    <3>1. a \in Nat /\ b \in Nat /\ c \in Nat /\ d \in Nat /\ a + b = last /\ c + d = size
      BY <1>4, <1>6, <1>8, <1>13
    <3>2. Len(delivered') = a + d /\ Len(refunded') = b + c
      BY <1>12
    <3> HIDE DEF a, b, c, d, last, size
    <3>3. (a + d) + (b + c) = last + size
      BY <3>1
    <3> QED BY <3>2, <3>3
  <2>2. {t.nonce : t \in Range(transfers)} = last + 1 .. last + size
    <3>1. {t.nonce : t \in Range(transfers)} = {last + i : i \in 1 .. size}
      <4>1. Range(transfers) = {transfers[i] : i \in 1 .. size}
        BY <1>1 DEF Range
      <4> HIDE DEF size, last
      <4> QED BY <1>1, <4>1
    <3>2. \A j \in last + 1 .. last + size : j = last + (j - last) /\ j - last \in 1 .. size
      BY <1>1
    <3>3. \A i \in 1 .. size : last + i \in last + 1 .. last + size
      BY <1>1
    <3> HIDE DEF size, last
    <3> QED BY <3>1, <3>2, <3>3
  <2>3. Range(Nonces(payments)) \cup Range(Nonces(refundTxs)) = last + 1 .. last + size
    BY <1>4, <1>5, <2>2
  <2>4. (1 .. last) \cup (last + 1 .. last + size) = 1 .. last + size
    BY <1>1
  <2>5. Range(delivered') \cup Range(refunded') = 1 .. last + size
    BY <1>8, <1>12, <2>3, <2>4
  <2> QED BY <1>2, <1>12, <2>1, <2>5 DEF DeliveriesOK
<1>15. Len(refunded) + Len(new) <= MaxTx
  <2>1. /\ last + size \in Nat /\ executedEthTxs' \in Seq(EthTransfers)
        /\ Nonces(executedEthTxs') = [n \in 1 .. last + size |-> n]
    BY <1>1, <1>2 DEF MultisigTypeOK, EthTxsExecutedOnceInOrder, Nonces
  <2>2. last + size <= MaxTx
    BY <2>1, ExecutedExist
  <2>3. ASSUME NEW a \in Nat, NEW b \in Nat, NEW c \in Nat, NEW d \in Nat, NEW m \in Nat,
               a + b = last, c + d = size, last + size <= m
        PROVE  b + c <= m
    BY <2>3
  <2>4. MaxTx \in Nat /\ Len(delivered) + Len(refunded) = last /\ Len(refundTxs) + Len(payments) = size
    BY <1>4, <1>8, TxBatchAssumption
  <2>5. Len(refunded) + Len(refundTxs) <= MaxTx
    BY <1>6, <1>13, <2>2, <2>3, <2>4, Zenon
  <2> QED BY <1>9, <2>5
<1>16. /\ refunds' \in BatchesOf(WaitingRefund)
       /\ Window(refunds', Len(refunded) + Len(new))
       /\ Queue(refunds') = Queue(refunds) \o new
  <2> DEFINE c == AddMultipleTxToBatch(refunds, new)
  <2>1. /\ c \in BatchesOf(WaitingRefund)
        /\ Window(c, Len(refunded) + Len(new))
        /\ Queue(c) = Queue(refunds) \o new
    BY <1>8, <1>9, <1>13, <1>15, AddingMany
  <2> HIDE DEF c
  <2>2. refunds' = c
    BY <1>7 DEF c
  <2> QED BY <2>1, <2>2
<1>17. RefundBatchesOK'
  <2>1. Len(refunded') = Len(refunded) + Len(new)
    BY <1>9, <1>12
  <2> QED BY <1>16, <2>1 DEF RefundBatchesOK
<1>18. LastRefundsWait'
  <2>1. PICK taken \in Seq(Nat) : refunded = taken \o Nonces(Queue(refunds))
    BY DEF RefundsInv, LastRefundsWait
  <2>2. Queue(refunds) \in Seq(WaitingRefund)
    <3>1. Len(refunded) <= MaxTx
      <4>1. Len(new) \in Nat
        BY <1>6, <1>9
      <4>2. MaxTx \in Nat
        BY TxBatchAssumption
      <4> QED BY <1>13, <1>15, <4>1, <4>2
    <3> QED BY <1>8, <1>13, <3>1, WindowIsSeq
  <2>3. Nonces(Queue(refunds')) = Nonces(Queue(refunds)) \o Nonces(new)
    BY <1>9, <1>10, <1>16, <2>2, NoncesConcat
  <2>4. Nonces(Queue(refunds)) \in Seq(Nat) /\ Nonces(new) \in Seq(Nat)
    BY <1>9, <1>10, <2>2, NoncesAre
  <2>5. (taken \o Nonces(Queue(refunds))) \o Nonces(new) = taken \o (Nonces(Queue(refunds)) \o Nonces(new))
    BY <2>4, ConcatAssociative
  <2>6. refunded' = taken \o Nonces(Queue(refunds'))
    BY <1>7, <1>11, <2>1, <2>3, <2>5
  <2> QED BY <2>6 DEF LastRefundsWait
<1> QED BY <1>8, <1>14, <1>17, <1>18 DEF RefundsInv


\* get_and_clear_first_refund_batch: the refunds taken are the oldest ones.
LEMMA ClearRefundBatchKeeps ==
    ASSUME RefundsInv, Len(refunded) <= MaxTx, GetAndClearFirstRefundBatch,
           UNCHANGED <<block, lastExecutedEthTxId>>
    PROVE  RefundsInv' /\ FirstBatch(refunds) \in Seq(WaitingRefund)
<1>1. /\ FirstBatch(refunds) # <<>>
      /\ refunds' = ClearFirstBatch(refunds)
      /\ UNCHANGED <<delivered, refunded>>
  BY DEF GetAndClearFirstRefundBatch
<1>2. /\ block \in Nat /\ refunds \in BatchesOf(WaitingRefund) /\ Window(refunds, Len(refunded))
      /\ refunded \in Seq(Nat) /\ Len(refunded) \in Nat
  BY LenProperties DEF RefundsInv, RefundBatchesOK, DeliveriesOK
<1>3. /\ refunds' \in BatchesOf(WaitingRefund) /\ Window(refunds', Len(refunded))
      /\ FirstBatch(refunds) \in Seq(WaitingRefund)
      /\ Queue(refunds) = FirstBatch(refunds) \o Queue(refunds')
  <2> DEFINE c == ClearFirstBatch(refunds)
  <2>1. /\ c \in BatchesOf(WaitingRefund) /\ Window(c, Len(refunded))
        /\ FirstBatch(refunds) \in Seq(WaitingRefund)
        /\ Queue(refunds) = FirstBatch(refunds) \o Queue(c)
    BY <1>1, <1>2, ClearingFirst
  <2> HIDE DEF c
  <2>2. refunds' = c
    BY <1>1 DEF c
  <2> QED BY <2>1, <2>2
<1>4. RefundBatchesOK' /\ DeliveriesOK'
  BY <1>1, <1>3 DEF RefundsInv, RefundBatchesOK, DeliveriesOK
<1>5. LastRefundsWait'
  <2> DEFINE first == Nonces(FirstBatch(refunds))
             rest == Nonces(Queue(refunds'))
  <2>1. PICK taken \in Seq(Nat) : refunded = taken \o Nonces(Queue(refunds))
    BY DEF RefundsInv, LastRefundsWait
  <2>2. Queue(refunds') \in Seq(WaitingRefund)
    BY <1>2, <1>3, WindowIsSeq
  <2>3. \A t \in WaitingRefund : t.nonce \in Nat
    BY DEF WaitingRefund
  <2>4. Nonces(Queue(refunds)) = first \o rest
    BY <1>3, <2>2, <2>3, NoncesConcat
  <2>5. first \in Seq(Nat) /\ rest \in Seq(Nat)
    BY <1>3, <2>2, <2>3, NoncesAre
  <2> HIDE DEF first, rest
  <2>6. /\ taken \o first \in Seq(Nat)
        /\ taken \o (first \o rest) = (taken \o first) \o rest
    <3>1. ASSUME NEW x \in Seq(Nat), NEW y \in Seq(Nat) PROVE x \o y \in Seq(Nat)
      BY ConcatProperties
    <3>2. taken \o (first \o rest) = (taken \o first) \o rest
      BY <2>5, ConcatAssociative, SMTT(20)
    <3> QED BY <2>5, <3>1, <3>2
  <2>7. refunded' = (taken \o first) \o rest
    BY <1>1, <2>1, <2>4, <2>6
  <2> QED BY <2>6, <2>7 DEF LastRefundsWait, rest
<1> QED BY <1>2, <1>3, <1>4, <1>5 DEF RefundsInv

\* Settings of the multi-transfer contract.
LEMMA MultiTransferConfigKeeps ==
    ASSUME RefundsInv, MultiTransferConfigNext, UNCHANGED <<block, lastExecutedEthTxId>>
    PROVE  RefundsInv'
<1>1. UNCHANGED <<delivered, refunded>>
  BY DEF MultiTransferConfigNext, SetMintRole, SetFrozen, SetMaxTransferAmount,
         SetMaxRefundTxBatchSize, SetMaxRefundTxBatchBlockDuration, SetPayout
<1>2. \/ UNCHANGED refunds
      \/ \E size \in RefundBatchSizes : refunds' = [refunds EXCEPT !.maxTxBatchSize = size]
      \/ \E duration \in RefundBatchDurations :
            refunds' = [refunds EXCEPT !.maxTxBatchBlockDuration = duration]
  BY DEF MultiTransferConfigNext, SetMintRole, SetFrozen, SetMaxTransferAmount,
         SetMaxRefundTxBatchSize, SetMaxRefundTxBatchBlockDuration, SetPayout,
         SetMaxTxBatchSize, SetMaxTxBatchBlockDuration
<1>3. refunds \in BatchesOf(WaitingRefund)
  BY DEF RefundsInv, RefundBatchesOK
<1>4. /\ refunds' \in BatchesOf(WaitingRefund)
      /\ refunds'.firstBatchId = refunds.firstBatchId /\ refunds'.lastBatchId = refunds.lastBatchId
      /\ refunds'.pendingBatches = refunds.pendingBatches
  BY <1>2, <1>3, MultiTransferAssumption DEF BatchesOf
<1>5. Queue(refunds') = Queue(refunds) /\ (Window(refunds, Len(refunded)) => Window(refunds', Len(refunded)))
  BY <1>4, QueueSame
<1>6. RefundBatchesOK' /\ DeliveriesOK'
  BY <1>1, <1>4, <1>5 DEF RefundsInv, RefundBatchesOK, DeliveriesOK
<1>7. LastRefundsWait'
  BY <1>1, <1>5 DEF RefundsInv, LastRefundsWait, Nonces
<1> QED BY <1>6, <1>7 DEF RefundsInv

\* Nothing else touches the refunds or the deposits.
LEMMA OtherStepsKeepRefunds ==
    ASSUME RefundsInv, UNCHANGED multiTransferVars, UNCHANGED lastExecutedEthTxId,
           UNCHANGED block \/ NextBlock
    PROVE  RefundsInv'
<1>1. UNCHANGED <<refunds, delivered, refunded>>
  BY DEF multiTransferVars
<1>2. block' \in Nat
  BY DEF NextBlock, RefundsInv
<1>3. RefundBatchesOK' /\ DeliveriesOK'
  BY <1>1 DEF RefundsInv, RefundBatchesOK, DeliveriesOK
<1>4. LastRefundsWait'
  BY <1>1 DEF RefundsInv, LastRefundsWait, Nonces
<1> QED BY <1>2, <1>3, <1>4 DEF RefundsInv

\* The multi-transfer contract as deployed.
LEMMA InitRefunds ==
    ASSUME NEW ready, ContractsDeployed(ready)
    PROVE  RefundsInv
<1>1. /\ block = 0 /\ delivered = <<>> /\ refunded = <<>> /\ lastExecutedEthTxId = 0
      /\ \E size \in RefundBatchSizes, duration \in RefundBatchDurations :
            refunds = EmptyBatches(size, duration)
  BY DEF ContractsDeployed, MultiTransferInit, MultisigDeployed
<1>2. PICK size \in RefundBatchSizes, duration \in RefundBatchDurations :
            refunds = EmptyBatches(size, duration)
  BY <1>1
<1>3. size \in Nat /\ duration \in Nat
  BY MultiTransferAssumption
<1>4. refunds \in BatchesOf(WaitingRefund) /\ Window(refunds, 0) /\ Queue(refunds) = <<>>
  BY <1>2, <1>3, NoBatches
<1>5. <<>> \in Seq(Nat) /\ Len(<<>>) = 0 /\ Range(<<>>) = {} /\ Nonces(<<>>) = <<>> /\ 1 .. 0 = {}
      /\ <<>> \o <<>> = <<>>
  BY EmptySeq, ConcatEmptySeq DEF Range, Nonces
<1>6. RefundBatchesOK /\ DeliveriesOK
  BY <1>1, <1>4, <1>5 DEF RefundBatchesOK, DeliveriesOK
<1>7. LastRefundsWait
  BY <1>1, <1>4, <1>5 DEF LastRefundsWait
<1> QED BY <1>1, <1>6, <1>7 DEF RefundsInv


\* No more is refunded than was executed.
LEMMA RefundsFit ==
    ASSUME RefundsInv, MultisigTypeOK, EthTxsExecutedOnceInOrder
    PROVE  Len(refunded) \in Nat /\ Len(refunded) <= MaxTx
<1>1. /\ lastExecutedEthTxId \in Nat /\ executedEthTxs \in Seq(EthTransfers)
      /\ Nonces(executedEthTxs) = [n \in 1 .. lastExecutedEthTxId |-> n]
  BY DEF MultisigTypeOK, EthTxsExecutedOnceInOrder
<1>2. lastExecutedEthTxId <= MaxTx
  BY <1>1, ExecutedExist
<1>3. /\ Len(delivered) \in Nat /\ Len(refunded) \in Nat
      /\ Len(delivered) + Len(refunded) = lastExecutedEthTxId
  BY LenProperties DEF RefundsInv, DeliveriesOK
<1>4. ASSUME NEW a \in Nat, NEW b \in Nat, NEW c \in Nat, NEW m \in Nat, a + b = c, c <= m
      PROVE  b <= m
  BY <1>4
<1>5. MaxTx \in Nat
  BY TxBatchAssumption
<1> QED BY <1>1, <1>2, <1>3, <1>4, <1>5, Zenon

\* What the invariant says of the deposits.
LEMMA RefundsMean ==
    ASSUME RefundsInv, MultisigTypeOK, EthTxsExecutedOnceInOrder
    PROVE  EthTxsDeliveredOrRefunded
<1> DEFINE waiting == Nonces(Queue(refunds))
<1>1. Len(refunded) \in Nat /\ Len(refunded) <= MaxTx
  BY RefundsFit
<1>2. Queue(refunds) \in Seq(WaitingRefund)
  BY <1>1, WindowIsSeq DEF RefundsInv, RefundBatchesOK
<1>3. waiting \in Seq(Nat)
  <2>1. \A t \in WaitingRefund : t.nonce \in Nat
    BY DEF WaitingRefund
  <2> QED BY <1>2, <2>1, NoncesAre
<1> HIDE DEF waiting
<1>4. PICK taken \in Seq(Nat) : refunded = taken \o waiting
  BY DEF RefundsInv, LastRefundsWait, waiting
<1>5. ASSUME NEW i \in DOMAIN waiting
      PROVE  waiting[i] = refunded[Len(refunded) - Len(waiting) + i]
  <2>1. Len(waiting) \in Nat /\ Len(taken) \in Nat /\ i \in 1 .. Len(waiting)
    BY <1>3, LenProperties
  <2>2. Len(refunded) = Len(taken) + Len(waiting)
    <3>1. ASSUME NEW x \in Seq(Nat), NEW y \in Seq(Nat) PROVE Len(x \o y) = Len(x) + Len(y)
      BY ConcatProperties
    <3> QED BY <1>3, <1>4, <3>1
  <2>3. /\ Len(refunded) - Len(waiting) + i = Len(taken) + i
        /\ Len(taken) + i \in 1 .. Len(taken) + Len(waiting)
        /\ ~(Len(taken) + i <= Len(taken)) /\ (Len(taken) + i) - Len(taken) = i
    BY <2>1, <2>2
  <2>4. (taken \o waiting)[Len(taken) + i] = waiting[(Len(taken) + i) - Len(taken)]
    BY <1>3, <2>3, ConcatProperties
  <2> QED BY <1>4, <2>3, <2>4
<1>6. /\ Len(delivered) + Len(refunded) = lastExecutedEthTxId
      /\ {delivered[i] : i \in DOMAIN delivered} \cup {refunded[i] : i \in DOMAIN refunded}
            = 1 .. lastExecutedEthTxId
  BY DEF RefundsInv, DeliveriesOK, Range
<1> QED BY <1>5, <1>6 DEF EthTxsDeliveredOrRefunded, waiting

------------------------------------------------------------------------------
(* The safe under the multisig *)

\* The current batch has a transaction, so the number computed for it is not 0.
LEMMA CurrentBatchNotEmpty ==
    ASSUME SafeInv, HasCurrentTxBatch(safe)
    PROVE  CurrentBatchLen \in Nat /\ CurrentBatchLen # 0
<1>1. safe.firstBatchId \in BatchIds /\ safe.pendingBatches \in [BatchIds -> Seq(SafeTx)]
  BY SafeInvMeans DEF SafeTypeOK
<1>2. FirstBatch(safe) \in Seq(SafeTx) /\ FirstBatch(safe) # <<>>
  BY <1>1 DEF FirstBatch, HasCurrentTxBatch, IsBatchFinal
<1>3. Len(FirstBatch(safe)) \in Nat /\ Len(FirstBatch(safe)) # 0
  BY <1>2
<1>4. ASSUME NEW n \in Nat, n # 0 PROVE (n * 7) \div 6 \in Nat /\ (n * 7) \div 6 # 0
  BY <1>4
<1> QED BY <1>3, <1>4 DEF CurrentBatchLen, TxFields, TxMultiresultNrFields

\* No list of statuses becomes empty.
LEMMA StatusesStayNotEmpty ==
    ASSUME MultisigTypeOK, SafeInv, StatusesNotEmpty, [Next]_vars
    PROVE  StatusesNotEmpty'
<1>1. ASSUME UNCHANGED actions PROVE StatusesNotEmpty'
  BY <1>1 DEF StatusesNotEmpty
<1>2. ASSUME NEW ids, ClearActions(ids) PROVE StatusesNotEmpty'
  <2>1. DOMAIN actions' = DOMAIN actions
        /\ \A j \in DOMAIN actions : actions'[j] = Nothing \/ actions'[j] = actions[j]
    BY <1>2 DEF ClearActions
  <2>2. Nothing.type # "SetStatus"
    BY DEF Nothing
  <2> QED BY <2>1, <2>2 DEF StatusesNotEmpty
<1>3. ASSUME NEW r, NEW action, ProposeAction(r, action),
             action.type = "SetStatus" => action.statuses # <<>>
      PROVE  StatusesNotEmpty'
  <2>1. /\ DOMAIN actions' = DOMAIN actions \cup {Len(actions')}
        /\ \A j \in DOMAIN actions : actions'[j] = actions[j]
        /\ actions'[Len(actions')] = action
    BY <1>3, ProposalIsLast, Zenon
  <2> QED BY <1>3, <2>1, Zenon DEF StatusesNotEmpty
<1>4. ASSUME NEW r \in Relayers, ProposeNext(r) PROVE StatusesNotEmpty'
  <2>1. ASSUME NEW batchId, NEW transfers, ProposeMultiTransferEsdtBatch(r, batchId, transfers)
        PROVE  StatusesNotEmpty'
    <3>1. BatchTransfer(batchId, transfers).type # "SetStatus"
      BY DEF BatchTransfer
    <3>2. ProposeAction(r, BatchTransfer(batchId, transfers))
      BY <2>1 DEF ProposeMultiTransferEsdtBatch
    <3> QED BY <1>3, <3>1, <3>2
  <2>2. ASSUME NEW batchId, NEW statuses,
               ProposeEsdtSafeSetCurrentTransactionBatchStatus(r, batchId, statuses)
        PROVE  StatusesNotEmpty'
    <3>1. SetStatus(batchId, statuses).statuses = statuses
      BY DEF SetStatus
    <3>2. /\ ProposeAction(r, SetStatus(batchId, statuses))
          /\ HasCurrentTxBatch(safe) /\ Len(statuses) = CurrentBatchLen
      BY <2>2 DEF ProposeEsdtSafeSetCurrentTransactionBatchStatus
    <3>3. Len(statuses) # 0
      BY <3>2, CurrentBatchNotEmpty
    <3>4. statuses # <<>>
      BY <3>3
    <3> QED BY <1>3, <3>1, <3>2, <3>4
  <2> QED BY <1>4, <2>1, <2>2 DEF ProposeNext
<1>5. CASE \E r \in Relayers : RelayerNext(r)
  <2>1. PICK r \in Relayers : RelayerNext(r)
    BY <1>5
  <2>2. CASE \/ \E id \in DOMAIN actions : PerformSetStatus(r, id)
             \/ \E id \in DOMAIN actions : PerformBatchTransfer(r, id)
    BY <1>2, <2>2 DEF PerformSetStatus, PerformBatchTransfer
  <2>3. CASE \/ \E id \in DOMAIN actions : Sign(r, id)
             \/ \E amount \in StakeAmounts : Stake(r, amount)
             \/ \E amount \in StakeAmounts : Unstake(r, amount)
    BY <1>1, <2>3 DEF Sign, Stake, Unstake, actionVars
  <2> QED BY <1>4, <2>1, <2>2, <2>3 DEF RelayerNext
<1>6. CASE OwnerNext
  BY <1>1, <1>6 DEF OwnerNext, AddBoardMember, RemoveUser, SlashBoardMember, ChangeQuorum,
     MultisigSetPaused, MoveRefundBatchToSafe, multisigVars, actionVars
<1>7. CASE ContractsNext
  BY <1>1, <1>7 DEF ContractsNext, multisigVars, actionVars
<1>8. CASE UNCHANGED vars
  BY <1>1, <1>8 DEF vars, multisigVars, actionVars
<1> QED BY <1>5, <1>6, <1>7, <1>8 DEF Next


\* perform_action on a list of statuses: it was made for the first batch, which it fits.
LEMMA PerformSetStatusKeepsSafe ==
    ASSUME MultisigTypeOK, ActionsInv, SafeInv, StatusesNotEmpty, NEW r,
           NEW id \in DOMAIN actions, PerformSetStatus(r, id)
    PROVE  SafeInv'
<1> DEFINE statuses == actions[id].statuses
<1>1. /\ actions[id].type = "SetStatus" /\ UNCHANGED block
      /\ SetTransactionBatchStatus(actions[id].batchId, statuses)
  BY DEF PerformSetStatus
<1>2. actions[id].batchId = safe.firstBatchId
  BY <1>1 DEF ActionsInv, PendingActionsAreCurrent
<1>3. statuses \in Seq(ProposedStatuses) /\ statuses # <<>>
  <2>1. actions[id] \in ActionType
    BY DEF MultisigTypeOK
  <2> QED BY <1>1, <2>1 DEF ActionType, TransferAction, StatusAction, Nothing, StatusesNotEmpty
<1>4. Len(statuses) = Len(FirstBatch(safe))
  BY <1>1 DEF SetTransactionBatchStatus
<1>5. FirstBatch(safe) # <<>>
  <2>1. Len(statuses) # 0 /\ Len(<<>>) = 0
    BY <1>3
  <2> QED BY <1>4, <2>1
<1> QED BY <1>1, <1>2, <1>5, SetTransactionBatchStatusKeeps

\* move_refund_batch_to_safe: the refunds waiting are ones add_refund_batch accepts.
LEMMA MoveRefundBatchKeeps ==
    ASSUME MultisigTypeOK, ActionsInv, SafeInv, RefundsInv, NEW fee \in RequiredFees,
           MoveRefundBatchToSafe(fee)
    PROVE  SafeInv' /\ RefundsInv'
<1>1. /\ GetAndClearFirstRefundBatch /\ AddRefundBatch(FirstBatch(refunds), fee)
      /\ UNCHANGED <<block, lastExecutedEthTxId>>
  BY DEF MoveRefundBatchToSafe, multisigVars, ethVars
<1>2. Len(refunded) <= MaxTx
  BY RefundsFit DEF ActionsInv
<1>3. RefundsInv' /\ FirstBatch(refunds) \in Seq(WaitingRefund)
  BY <1>1, <1>2, ClearRefundBatchKeeps
<1>4. \A t \in WaitingRefund : t.to \in Users /\ t.amount \in Nat /\ t.serviceFee \in Nat
  BY MultisigAssumption DEF WaitingRefund
<1>5. fee \in Nat
  BY EsdtSafeAssumption
<1>6. UNCHANGED block
  BY <1>1
<1>7. SafeInv'
  BY <1>1, <1>3, <1>4, <1>5, <1>6, AddRefundBatchKeeps
<1> QED BY <1>3, <1>7

\* perform_action on a list of transfers.
LEMMA PerformBatchTransferKeepsRefunds ==
    ASSUME MultisigTypeOK, ActionsInv, MultisigTypeOK', ActionsInv', RefundsInv, NEW r,
           NEW id \in DOMAIN actions, PerformBatchTransfer(r, id)
    PROVE  RefundsInv'
<1> DEFINE transfers == actions[id].transfers
<1>1. /\ actions[id].type = "BatchTransfer" /\ UNCHANGED block /\ transfers # <<>>
      /\ lastExecutedEthTxId' = transfers[Len(transfers)].nonce
      /\ BatchTransferEsdtToken(transfers)
  BY DEF PerformBatchTransfer
<1>2. transfers \in Seq(EthTransfers)
  <2>1. actions[id] \in ActionType
    BY DEF MultisigTypeOK
  <2> QED BY <1>1, <2>1 DEF ActionType, TransferAction, StatusAction, Nothing
<1>3. ValidEthTxIds(transfers) /\ EthTxsExecutedOnceInOrder'
  BY <1>1 DEF ActionsInv, PendingActionsAreCurrent
<1> HIDE DEF transfers
<1> QED BY <1>1, <1>2, <1>3, BatchTransferKeepsRefunds

FundsInv == SafeInv /\ StatusesNotEmpty /\ RefundsInv

\* Every step of the contracts keeps the funds accounted for.
LEMMA FundsInvStep ==
    MultisigTypeOK /\ MultisigTypeOK' /\ ActionsInv /\ ActionsInv' /\ FundsInv /\ [Next]_vars
        => FundsInv'
<1> SUFFICES ASSUME MultisigTypeOK, MultisigTypeOK', ActionsInv, ActionsInv',
                    SafeInv, StatusesNotEmpty, RefundsInv, [Next]_vars
             PROVE  SafeInv' /\ RefundsInv'
  BY StatusesStayNotEmpty DEF FundsInv
<1>1. ASSUME UNCHANGED <<block, safeVars>> PROVE SafeInv'
  BY <1>1, SettingsKeep
<1>2. ASSUME UNCHANGED <<block, multiTransferVars, lastExecutedEthTxId>> PROVE RefundsInv'
  BY <1>2, OtherStepsKeepRefunds
<1>3. CASE \E r \in Relayers : RelayerNext(r)
  <2>1. PICK r \in Relayers : RelayerNext(r)
    BY <1>3
  <2>2. CASE \E id \in DOMAIN actions : PerformSetStatus(r, id)
    <3>1. PICK id \in DOMAIN actions : PerformSetStatus(r, id)
      BY <2>2
    <3>2. UNCHANGED <<block, multiTransferVars, lastExecutedEthTxId>>
      BY <3>1 DEF PerformSetStatus, ethVars
    <3> QED BY <1>2, <3>1, <3>2, PerformSetStatusKeepsSafe
  <2>3. CASE \E id \in DOMAIN actions : PerformBatchTransfer(r, id)
    <3>1. PICK id \in DOMAIN actions : PerformBatchTransfer(r, id)
      BY <2>3
    <3>2. UNCHANGED <<block, safeVars>>
      BY <3>1 DEF PerformBatchTransfer
    <3> QED BY <1>1, <3>1, <3>2, PerformBatchTransferKeepsRefunds
  <2>4. CASE \/ ProposeNext(r)
             \/ \E id \in DOMAIN actions : Sign(r, id)
             \/ \E amount \in StakeAmounts : Stake(r, amount)
             \/ \E amount \in StakeAmounts : Unstake(r, amount)
    <3>1. UNCHANGED <<block, safeVars>> /\ UNCHANGED multiTransferVars /\ UNCHANGED lastExecutedEthTxId
      BY <2>4 DEF ProposeNext, ProposeMultiTransferEsdtBatch,
         ProposeEsdtSafeSetCurrentTransactionBatchStatus, Sign, Stake, Unstake, ethVars
    <3> QED BY <1>1, <1>2, <3>1
  <2> QED BY <2>1, <2>2, <2>3, <2>4 DEF RelayerNext
<1>4. CASE OwnerNext
  <2>1. CASE \E fee \in RequiredFees : MoveRefundBatchToSafe(fee)
    BY <2>1, MoveRefundBatchKeeps
  <2>2. CASE ~ \E fee \in RequiredFees : MoveRefundBatchToSafe(fee)
    <3>1. UNCHANGED <<block, safeVars>> /\ UNCHANGED multiTransferVars /\ UNCHANGED lastExecutedEthTxId
      BY <1>4, <2>2 DEF OwnerNext, AddBoardMember, RemoveUser, SlashBoardMember,
         ChangeQuorum, MultisigSetPaused, ethVars
    <3> QED BY <1>1, <1>2, <3>1
  <2> QED BY <2>1, <2>2
<1>5. CASE ContractsNext
  <2>0. UNCHANGED lastExecutedEthTxId
    BY <1>5 DEF ContractsNext, multisigVars, ethVars
  <2>1. CASE (SafeUserNext \/ SafeConfigNext) /\ UNCHANGED <<block, multiTransferVars, multisigVars>>
    <3>1. UNCHANGED block /\ UNCHANGED multiTransferVars
      BY <2>1
    <3> QED BY <1>2, <2>0, <2>1, <3>1, SafeContractKeeps
  <2>2. CASE MultiTransferConfigNext /\ UNCHANGED <<block, safeVars, multisigVars>>
    BY <1>1, <2>0, <2>2, MultiTransferConfigKeeps
  <2>3. CASE NextBlock /\ UNCHANGED <<safeVars, multiTransferVars, multisigVars>>
    <3>1. NextBlock /\ UNCHANGED safeVars /\ UNCHANGED multiTransferVars
      BY <2>3
    <3> QED BY <2>0, <3>1, SettingsKeep, OtherStepsKeepRefunds
  <2> QED BY <1>5, <2>1, <2>2, <2>3 DEF ContractsNext
<1>6. CASE UNCHANGED vars
  BY <1>1, <1>2, <1>6 DEF vars, multisigVars, ethVars
<1> QED BY <1>3, <1>4, <1>5, <1>6 DEF Next

LEMMA FundsInvInit ==
    ASSUME NEW ready, ContractsDeployed(ready)
    PROVE  FundsInv
<1>1. SafeInv
  BY SafeInvInit DEF ContractsDeployed
<1>2. actions = <<>>
  BY DEF ContractsDeployed, MultisigDeployed
<1>3. StatusesNotEmpty
  BY <1>2 DEF StatusesNotEmpty
<1> QED BY <1>1, <1>3, InitRefunds DEF FundsInv

LEMMA FundsInvAlways == Spec => []FundsInv
<1>1. Init => FundsInv
  BY InitDeployed, FundsInvInit
<1> QED BY <1>1, FundsInvStep, MultisigTypeCorrect, ActionsInvAlways, PTL DEF Spec

------------------------------------------------------------------------------
(* Theorems *)

(***************************************************************************)
(* Every deposit handed over by perform_action is paid out or refunded by  *)
(* batch_transfer_esdt_token, none twice and none in both ways, and the    *)
(* refunds that wait are the most recent ones in their order, for batches  *)
(* of any length and any order of executions, refund batches taken by the  *)
(* owner and changes of limits.                                            *)
(***************************************************************************)
THEOREM DepositsDeliveredOrRefunded == Spec => []EthTxsDeliveredOrRefunded
<1>1. FundsInv /\ MultisigTypeOK /\ ActionsInv => EthTxsDeliveredOrRefunded
  BY RefundsMean DEF FundsInv, ActionsInv
<1> QED BY <1>1, FundsInvAlways, MultisigTypeCorrect, ActionsInvAlways, PTL

(***************************************************************************)
(* Under the multisig the safe stays covered: a performed list of statuses *)
(* settles a batch that has transactions, a moved refund batch brings no   *)
(* claim on the tokens of others (set_transaction_batch_status,            *)
(* add_refund_batch as perform_action and move_refund_batch_to_safe call   *)
(* them).                                                                  *)
(***************************************************************************)
THEOREM OwnedSafeIsCovered == Spec => [](SafeTypeOK /\ SafeConservation)
<1>1. FundsInv => SafeTypeOK /\ SafeConservation
  BY SafeInvMeans DEF FundsInv
<1> QED BY <1>1, FundsInvAlways, PTL

(***************************************************************************)
(* Under the multisig the safe's transactions are settled once each and in *)
(* order, however many lists of statuses were proposed for a batch and     *)
(* whatever refund batches are moved in between (perform_action,           *)
(* clear_first_batch, add_multiple_tx_to_batch).                           *)
(***************************************************************************)
THEOREM OwnedSafeSettlesInOrder == Spec => []SafeQueueInOrder
<1>1. FundsInv => SafeQueueInOrder
  BY SafeInvMeans DEF FundsInv
<1> QED BY <1>1, FundsInvAlways, PTL


------------------------------------------------------------------------------
(* Statuses that fit the batch they were proposed for *)

\* No batch is longer than the configured size.
ShortBatches(b, size) ==
    b.maxTxBatchSize = size /\ \A id \in BatchIds : Len(b.pendingBatches[id]) <= size

\* c has the first batch and the settings of b.
SameFirst(b, c) ==
    /\ c.firstBatchId = b.firstBatchId /\ FirstBatch(c) = FirstBatch(b)
    /\ c.maxTxBatchSize = b.maxTxBatchSize
    /\ c.maxTxBatchBlockDuration = b.maxTxBatchBlockDuration

FirstIsFull(b) == IsBatchFull(b, b.firstBatchId)

LEMMA FullIsSame ==
    ASSUME NEW b, NEW c, SameFirst(b, c)
    PROVE  FirstIsFull(b) => FirstIsFull(c)
<1> SUFFICES ASSUME FirstIsFull(b) PROVE FirstIsFull(c)
  OBVIOUS
<1> DEFINE batch == b.pendingBatches[b.firstBatchId]
<1>1. c.pendingBatches[c.firstBatchId] = batch
  BY DEF SameFirst, FirstBatch
<1>2. /\ batch # <<>>
      /\ \/ Len(batch) = b.maxTxBatchSize
         \/ /\ b.firstBatchId <= b.firstBatchId
            /\ block - batch[1].block >= b.maxTxBatchBlockDuration
  BY DEF FirstIsFull, IsBatchFull
<1> HIDE DEF batch
<1> QED BY <1>1, <1>2 DEF FirstIsFull, IsBatchFull, SameFirst

\* add_to_batch fills no batch beyond the size and leaves a closed one alone.
LEMMA AddingOneFits ==
    ASSUME NEW S, NEW b \in BatchesOf(S), NEW n \in Nat, n < MaxTx, Window(b, n), NEW tx \in S,
           NEW size \in Nat, size # 0, ShortBatches(b, size)
    PROVE  /\ ShortBatches(AddToBatch(b, tx), size)
           /\ FirstIsFull(b) => SameFirst(b, AddToBatch(b, tx))
<1> DEFINE c == AddToBatch(b, tx)
           id == NextId(b)
           last == b.lastBatchId
           first == b.firstBatchId
           pending == b.pendingBatches
<1>1. /\ c.firstBatchId = first /\ c.pendingBatches = Extended(b, tx)
      /\ c.maxTxBatchSize = b.maxTxBatchSize
      /\ c.maxTxBatchBlockDuration = b.maxTxBatchBlockDuration
  BY AddToBatchFields
<1>2. /\ pending \in [BatchIds -> Seq(S)] /\ last \in Nat /\ first \in Nat
      /\ MaxTx \in Nat /\ BatchIds = 1 .. MaxTx + 1
  BY TxBatchAssumption DEF BatchesOf, BatchIds
<1>3. /\ 1 <= first /\ first <= last /\ last <= n + 1
      /\ pending[last] # <<>> => last <= n
      /\ \A j \in BatchIds : j > last => pending[j] = <<>>
  BY Zenon DEF Window
<1>4. first \in BatchIds /\ last \in BatchIds
  BY <1>2, <1>3
<1>5. b.maxTxBatchSize = size /\ \A j \in BatchIds : Len(pending[j]) <= size
  BY DEF ShortBatches
<1>6. id \in BatchIds /\ Len(pending[id]) + 1 <= size /\ (FirstIsFull(b) => id # first)
  <2>1. CASE IsBatchFull(b, last)
    <3>1. id = last + 1
      BY <2>1 DEF NextId
    <3>2. pending[last] # <<>>
      BY <2>1 DEF IsBatchFull
    <3>3. id \in BatchIds /\ id > last /\ id # first
      BY <1>2, <1>3, <3>1, <3>2
    <3>4. pending[id] = <<>>
      BY <1>3, <3>3
    <3>5. Len(<<>>) + 1 <= size
      OBVIOUS
    <3> QED BY <3>3, <3>4, <3>5
  <2>2. CASE ~IsBatchFull(b, last)
    <3>1. id = last
      BY <2>2 DEF NextId
    <3>2. FirstIsFull(b) => id # first
      BY <2>2, <3>1 DEF FirstIsFull
    <3>3. pending[last] = <<>> \/ Len(pending[last]) # size
      BY <1>5, <2>2 DEF IsBatchFull
    <3>4. pending[last] \in Seq(S) /\ Len(pending[last]) <= size
      BY <1>2, <1>4, <1>5
    <3>5. Len(pending[last]) + 1 <= size
      <4>1. CASE pending[last] = <<>>
        <5>1. Len(<<>>) + 1 <= size
          OBVIOUS
        <5> QED BY <4>1, <5>1
      <4>2. CASE Len(pending[last]) # size
        <5>1. Len(pending[last]) \in Nat
          BY <3>4, LenProperties
        <5> QED BY <3>4, <4>2, <5>1
      <4> QED BY <3>3, <4>1, <4>2
    <3> HIDE DEF id
    <3> QED BY <1>4, <3>1, <3>2, <3>5
  <2> QED BY <2>1, <2>2
<1>7. /\ Extended(b, tx)[id] = Append(pending[id], tx)
      /\ \A j \in BatchIds : j # id => Extended(b, tx)[j] = pending[j]
  BY <1>2, <1>6 DEF Extended
<1> HIDE DEF id, c
<1>8. Len(Append(pending[id], tx)) = Len(pending[id]) + 1
  <2>1. pending[id] \in Seq(S)
    BY <1>2, <1>6
  <2> HIDE DEF pending
  <2> QED BY <2>1, AppendProperties
<1>9. ASSUME NEW j \in BatchIds PROVE Len(c.pendingBatches[j]) <= size
  <2>1. CASE j = id
    BY <1>1, <1>6, <1>7, <1>8, <2>1
  <2>2. CASE j # id
    BY <1>1, <1>5, <1>7, <2>2
  <2> QED BY <2>1, <2>2
<1>10. ASSUME FirstIsFull(b) PROVE SameFirst(b, c)
  <2>1. c.pendingBatches[first] = pending[first]
    BY <1>1, <1>4, <1>6, <1>7, <1>10
  <2> QED BY <1>1, <2>1 DEF SameFirst, FirstBatch
<1>11. ShortBatches(c, size)
  BY <1>1, <1>5, <1>9 DEF ShortBatches
<1> QED BY <1>10, <1>11 DEF c

\* The same for add_multiple_tx_to_batch.
LEMMA AddingManyFits ==
    ASSUME NEW S, NEW b \in BatchesOf(S), NEW m \in Nat, NEW txs \in Seq(S),
           m + Len(txs) <= MaxTx, Window(b, m),
           NEW size \in Nat, size # 0, ShortBatches(b, size)
    PROVE  /\ ShortBatches(AddMultipleTxToBatch(b, txs), size)
           /\ FirstIsFull(b) => SameFirst(b, AddMultipleTxToBatch(b, txs))
<1> DEFINE N == Len(txs)
<1>1. N \in Nat /\ (\A i \in 1 .. N : txs[i] \in S) /\ m + N <= MaxTx /\ MaxTx \in Nat
  BY TxBatchAssumption
<1>2. PICK g : IsAdding(g, b, txs) /\ AddedOneByOne(b, txs) = g[N]
  BY AddingSteps
<1> DEFINE Fits(k) == /\ g[k] \in BatchesOf(S)
                      /\ Window(g[k], m + k)
                      /\ ShortBatches(g[k], size)
                      /\ g[k].firstBatchId = b.firstBatchId
                      /\ FirstIsFull(b) => SameFirst(b, g[k])
           T == {k \in Nat : k <= N => Fits(k)}
<1>3. ASSUME NEW k \in 0 .. N
      PROVE  g[k] = IF k = 0 THEN b ELSE AddToBatch(g[k - 1], txs[k])
  BY <1>2, Zenon DEF IsAdding
<1> HIDE DEF N
<1>4. 0 \in T
  <2>1. g[0] = b /\ m + 0 = m
    BY <1>1, <1>3
  <2>2. Fits(0)
    BY <2>1 DEF SameFirst
  <2> HIDE DEF Fits
  <2> QED BY <2>2
<1>5. ASSUME NEW k \in Nat, k \in T PROVE k + 1 \in T
  <2> SUFFICES ASSUME k + 1 <= N PROVE Fits(k + 1)
    <3> HIDE DEF Fits
    <3> QED OBVIOUS
  <2>1. k <= N /\ k + 1 \in 0 .. N /\ (k + 1) - 1 = k /\ k + 1 # 0 /\ k + 1 \in 1 .. N
    BY <1>1
  <2>2. Fits(k)
    <3> HIDE DEF Fits
    <3> QED BY <1>5, <2>1
  <2>3. g[k + 1] = AddToBatch(g[k], txs[k + 1])
    BY <1>3, <2>1
  <2>4. txs[k + 1] \in S
    BY <1>1, <2>1
  <2>5. m + k \in Nat /\ m + k < MaxTx /\ (m + k) + 1 = m + (k + 1)
    BY <1>1, <2>1
  <2> DEFINE c == AddToBatch(g[k], txs[k + 1])
  <2>6. /\ c \in BatchesOf(S) /\ c.firstBatchId = g[k].firstBatchId
    BY <2>2, <2>4, AddToBatchFields
  <2>7. Window(c, (m + k) + 1)
    BY <2>2, <2>4, <2>5, AddingOne
  <2>8. ShortBatches(c, size) /\ (FirstIsFull(g[k]) => SameFirst(g[k], c))
    BY <2>2, <2>4, <2>5, AddingOneFits
  <2> HIDE DEF c
  <2>9. ASSUME FirstIsFull(b) PROVE SameFirst(b, c)
    <3>1. SameFirst(b, g[k])
      BY <2>2, <2>9
    <3>2. SameFirst(g[k], c)
      BY <2>8, <2>9, <3>1, FullIsSame
    <3> QED BY <3>1, <3>2 DEF SameFirst
  <2>10. g[k + 1] = c
    BY <2>3 DEF c
  <2> QED BY <2>2, <2>5, <2>6, <2>7, <2>8, <2>9, <2>10
<1>6. Nat \subseteq T
  <2> HIDE DEF T
  <2> QED BY <1>4, <1>5, NatSetInduction
<1>7. Fits(N)
  <2> HIDE DEF Fits
  <2> QED BY <1>1, <1>6
<1> DEFINE c == AddMultipleTxToBatch(b, txs)
           d == g[N]
<1>8. c = [b EXCEPT !.lastBatchId = d.lastBatchId, !.pendingBatches = d.pendingBatches]
  BY <1>2 DEF AddMultipleTxToBatch
<1>9. /\ ShortBatches(d, size) /\ d.firstBatchId = b.firstBatchId
      /\ FirstIsFull(b) => SameFirst(b, d)
  BY <1>7
<1> HIDE DEF c, d
<1>10. /\ c.firstBatchId = b.firstBatchId /\ c.pendingBatches = d.pendingBatches
       /\ c.maxTxBatchSize = b.maxTxBatchSize
       /\ c.maxTxBatchBlockDuration = b.maxTxBatchBlockDuration
  BY <1>8 DEF BatchesOf
<1>11. ShortBatches(c, size)
  BY <1>9, <1>10 DEF ShortBatches
<1>12. ASSUME FirstIsFull(b) PROVE SameFirst(b, c)
  <2>1. FirstBatch(c) = FirstBatch(d) /\ FirstBatch(d) = FirstBatch(b)
    BY <1>9, <1>10, <1>12 DEF SameFirst, FirstBatch
  <2> QED BY <1>10, <2>1 DEF SameFirst
<1> QED BY <1>11, <1>12 DEF c


\* Batches may hold other transactions as well.
LEMMA BatchesOfMore ==
    ASSUME NEW S, NEW X, NEW b \in BatchesOf(S)
    PROVE  b \in BatchesOf(S \cup X)
<1>1. \A s \in Seq(S) : s \in Seq(S \cup X)
  OBVIOUS
<1>2. b.pendingBatches \in [BatchIds -> Seq(S \cup X)]
  BY <1>1 DEF BatchesOf
<1> QED BY <1>2 DEF BatchesOf

\* What the safe's users and the multisig's refunds add leaves a closed batch alone.
LEMMA SafeStepFits ==
    ASSUME SafeInv, NEW size \in Nat, size # 0, NEW duration,
           BatchSizes = {size}, BatchDurations = {duration}, ShortBatches(safe, size),
           \/ SafeUserNext
           \/ SafeConfigNext
           \/ /\ FirstBatch(refunds) \in Seq(WaitingRefund)
              /\ \E fee \in RequiredFees : AddRefundBatch(FirstBatch(refunds), fee)
    PROVE  /\ ShortBatches(safe', size)
           /\ FirstIsFull(safe) => SameFirst(safe, safe')
<1> DEFINE last == safe.lastTxNonce
           Fits(b) == ShortBatches(b, size) /\ (FirstIsFull(safe) => SameFirst(safe, b))
<1>1. /\ safe \in BatchesOf(SafeTx) /\ Window(safe, last) /\ last \in Nat /\ last <= MaxTx
      /\ safe.maxTxBatchSize = size /\ safe.maxTxBatchBlockDuration = duration /\ MaxTx \in Nat
  <2>1. /\ safe \in BatchesOf(SafeTx) /\ Window(safe, last) /\ last <= MaxTx
        /\ safe.maxTxBatchSize \in BatchSizes /\ safe.maxTxBatchBlockDuration \in BatchDurations
    BY DEF SafeInv, SafeBatchesOK
  <2>2. last \in Nat
    BY <2>1 DEF BatchesOf
  <2> QED BY <2>1, <2>2, TxBatchAssumption
<1>2. ASSUME UNCHANGED safe PROVE Fits(safe')
  BY <1>2 DEF SameFirst
<1>3. ASSUME NEW b, NEW c, b.firstBatchId = safe.firstBatchId, b.pendingBatches = safe.pendingBatches,
             b.maxTxBatchSize = size, b.maxTxBatchBlockDuration = duration,
             FirstIsFull(b) => SameFirst(b, c)
      PROVE  FirstIsFull(safe) => SameFirst(safe, c)
  <2>1. SameFirst(safe, b)
    BY <1>1, <1>3 DEF SameFirst, FirstBatch
  <2>2. FirstIsFull(safe) => FirstIsFull(b)
    BY <2>1, FullIsSame
  <2>3. SameFirst(b, c) => SameFirst(safe, c)
    BY <2>1 DEF SameFirst
  <2> QED BY <1>3, <2>2, <2>3
<1>4. ASSUME NEW nonce \in Nat
      PROVE  LET b == [safe EXCEPT !.lastTxNonce = nonce] IN
             /\ b.firstBatchId = safe.firstBatchId /\ b.pendingBatches = safe.pendingBatches
             /\ b.maxTxBatchSize = size /\ b.maxTxBatchBlockDuration = duration
             /\ b \in BatchesOf(SafeTx) /\ Window(b, last) /\ ShortBatches(b, size)
  <2> DEFINE b == [safe EXCEPT !.lastTxNonce = nonce]
  <2>1. /\ b.firstBatchId = safe.firstBatchId /\ b.pendingBatches = safe.pendingBatches
        /\ b.maxTxBatchSize = size /\ b.maxTxBatchBlockDuration = duration
    BY <1>1 DEF BatchesOf
  <2>2. b \in BatchesOf(SafeTx) /\ Window(b, last)
    BY <1>1, NextNonce
  <2> HIDE DEF b
  <2>3. ShortBatches(b, size)
    BY <2>1 DEF ShortBatches
  <2> QED BY <2>1, <2>2, <2>3 DEF b
<1>5. ASSUME NEW from, NEW payment, NEW fee, CreateTransaction(from, payment, fee)
      PROVE  Fits(safe')
  <2>1. PICK tx : /\ last + 1 <= MaxTx
                  /\ safe' = AddToBatch([safe EXCEPT !.lastTxNonce = last + 1], tx)
    BY <1>5 DEF CreateTransaction
  <2> DEFINE b == [safe EXCEPT !.lastTxNonce = last + 1]
             all == SafeTx \cup {tx}
  <2>2. /\ b.firstBatchId = safe.firstBatchId /\ b.pendingBatches = safe.pendingBatches
        /\ b.maxTxBatchSize = size /\ b.maxTxBatchBlockDuration = duration
        /\ b \in BatchesOf(SafeTx) /\ Window(b, last) /\ ShortBatches(b, size)
    <3>1. last + 1 \in Nat
      BY <1>1
    <3> HIDE DEF last
    <3> QED BY <1>4, <3>1
  <2>3. safe' = AddToBatch(b, tx)
    BY <2>1
  <2> HIDE DEF b
  <2>4. b \in BatchesOf(all) /\ tx \in all
    BY <2>2, BatchesOfMore
  <2>5. last < MaxTx
    BY <1>1, <2>1
  <2> HIDE DEF all, last
  <2>6. ShortBatches(safe', size) /\ (FirstIsFull(b) => SameFirst(b, safe'))
    BY <1>1, <2>2, <2>3, <2>4, <2>5, AddingOneFits
  <2> QED BY <1>3, <2>2, <2>6
<1>6. ASSUME NEW fee \in RequiredFees, FirstBatch(refunds) \in Seq(WaitingRefund),
             AddRefundBatch(FirstBatch(refunds), fee)
      PROVE  Fits(safe')
  <2> DEFINE paying == PayingRefunds(FirstBatch(refunds), fee)
             k == Len(paying)
             new(i) == [block |-> block, nonce |-> last + i,
                        from |-> paying[i].to, amount |-> paying[i].amount - fee,
                        serviceFee |-> paying[i].serviceFee, isRefundTx |-> TRUE]
             newTxs == [i \in 1 .. k |-> new(i)]
             b == [safe EXCEPT !.lastTxNonce = last + k]
             all == SafeTx \cup {new(i) : i \in 1 .. k}
  <2>1. paying \in Seq({r \in WaitingRefund : r.amount > fee})
    BY <1>6, PayingOnes
  <2>2. k \in Nat /\ DOMAIN paying = 1 .. k
    BY <2>1
  <2>3. last + k <= MaxTx /\ safe' = AddMultipleTxToBatch(b, newTxs)
    BY <1>6, <2>2 DEF AddRefundBatch
  <2>4. /\ b.firstBatchId = safe.firstBatchId /\ b.pendingBatches = safe.pendingBatches
        /\ b.maxTxBatchSize = size /\ b.maxTxBatchBlockDuration = duration
        /\ b \in BatchesOf(SafeTx) /\ Window(b, last) /\ ShortBatches(b, size)
    <3>1. last + k \in Nat
      BY <1>1, <2>2
    <3> HIDE DEF last, k
    <3> QED BY <1>4, <3>1
  <2> HIDE DEF b, new, k, paying, last
  <2>5. newTxs \in Seq(all) /\ Len(newTxs) = k
    <3>1. \A i \in 1 .. k : new(i) \in all
      OBVIOUS
    <3> HIDE DEF all
    <3> QED BY <2>2, <3>1
  <2>6. b \in BatchesOf(all)
    BY <2>4, BatchesOfMore
  <2> HIDE DEF all, newTxs
  <2>7. last + Len(newTxs) <= MaxTx
    BY <2>3, <2>5
  <2>8. ShortBatches(safe', size) /\ (FirstIsFull(b) => SameFirst(b, safe'))
    BY <1>1, <2>3, <2>4, <2>5, <2>6, <2>7, AddingManyFits
  <2> QED BY <1>3, <2>4, <2>8
<1>7. ASSUME NEW s \in BatchSizes, SafeSetMaxTxBatchSize(s) PROVE UNCHANGED safe
  <2>1. safe' = [safe EXCEPT !.maxTxBatchSize = size]
    BY <1>7 DEF SafeSetMaxTxBatchSize, SetMaxTxBatchSize
  <2> QED BY <1>1, <2>1 DEF BatchesOf
<1>8. ASSUME NEW d \in BatchDurations, SafeSetMaxTxBatchBlockDuration(d) PROVE UNCHANGED safe
  <2>1. safe' = [safe EXCEPT !.maxTxBatchBlockDuration = duration]
    BY <1>8 DEF SafeSetMaxTxBatchBlockDuration, SetMaxTxBatchBlockDuration
  <2> QED BY <1>1, <2>1 DEF BatchesOf
<1> HIDE DEF Fits
<1>9. CASE SafeUserNext
  BY <1>2, <1>5, <1>9 DEF SafeUserNext, ClaimRefund, Fits
<1>10. CASE SafeConfigNext
  <2>1. ASSUME NEW split, DistributeFees(split) PROVE UNCHANGED safe
    BY <2>1 DEF DistributeFees
  <2>2. UNCHANGED safe
    BY <1>7, <1>8, <1>10, <2>1 DEF SafeConfigNext, SafeSetPaused, SafeSetWhitelisted,
       SafeSetBurnRole, SafeSetServiceFee, SafeSetMaxBridgedAmount
  <2> QED BY <1>2, <2>2 DEF Fits
<1> QED BY <1>6, <1>9, <1>10 DEF Fits


\* The statuses of a pending proposal fit the first batch, which is closed.
FitInv(size) ==
    /\ ShortBatches(safe, size)
    /\ \A id \in DOMAIN actions :
          actions[id].type = "SetStatus" =>
              FirstIsFull(safe) /\ Len(actions[id].statuses) = Len(FirstBatch(safe))

\* A batch that is closed stays closed while blocks pass.
LEMMA ClosedStaysClosed ==
    ASSUME SafeInv, FirstIsFull(safe), UNCHANGED safe, block' = block + 1
    PROVE  FirstIsFull(safe)'
<1> DEFINE batch == safe.pendingBatches[safe.firstBatchId]
<1>1. /\ block \in Nat /\ safe.firstBatchId \in BatchIds
      /\ safe.pendingBatches \in [BatchIds -> Seq(SafeTx)]
      /\ safe.maxTxBatchBlockDuration \in Nat
  BY SafeInvMeans, EsdtSafeAssumption DEF SafeTypeOK
<1>2. /\ batch # <<>>
      /\ \/ Len(batch) = safe.maxTxBatchSize
         \/ block - batch[1].block >= safe.maxTxBatchBlockDuration
  BY DEF FirstIsFull, IsBatchFull
<1>3. batch[1].block \in Nat
  <2>1. batch \in Seq(SafeTx)
    BY <1>1
  <2>2. batch[1] \in SafeTx
    BY <1>2, <2>1
  <2> QED BY <2>2 DEF SafeTx
<1>4. safe.firstBatchId <= safe.firstBatchId
  BY <1>1 DEF BatchIds
<1> DEFINE age == batch[1].block
           duration == safe.maxTxBatchBlockDuration
<1> HIDE DEF age, duration
<1>5. block - age >= duration => (block + 1) - age >= duration
  BY <1>1, <1>3 DEF age, duration
<1>6. \/ Len(batch) = safe.maxTxBatchSize
      \/ (block + 1) - age >= duration
  BY <1>2, <1>5 DEF age, duration
<1> QED BY <1>2, <1>4, <1>6 DEF FirstIsFull, IsBatchFull, age, duration

\* A step that leaves the actions and a closed first batch alone.
LEMMA SameFirstKeepsFit ==
    ASSUME NEW size, FitInv(size), ShortBatches(safe', size), UNCHANGED <<actions, block>>,
           FirstIsFull(safe) => SameFirst(safe, safe')
    PROVE  FitInv(size)'
<1>1. ASSUME FirstIsFull(safe) PROVE FirstIsFull(safe)' /\ FirstBatch(safe') = FirstBatch(safe)
  <2> DEFINE b == safe
             c == safe'
  <2>1. SameFirst(b, c) /\ FirstIsFull(b)
    BY <1>1
  <2>2. FirstIsFull(c)
    BY <2>1, FullIsSame
  <2>3. FirstIsFull(safe)'
    BY <2>2 DEF FirstIsFull, IsBatchFull
  <2> QED BY <2>1, <2>3 DEF SameFirst
<1>2. ShortBatches(safe, size)'
  BY DEF ShortBatches
<1>3. FirstBatch(safe)' = FirstBatch(safe')
  BY DEF FirstBatch
<1> QED BY <1>1, <1>2, <1>3 DEF FitInv

\* A step that leaves the safe alone and only adds lists that fit, or removes proposals.
LEMMA SameSafeKeepsFit ==
    ASSUME NEW size, FitInv(size), UNCHANGED <<safe, block>>,
           \A id \in DOMAIN actions' :
              actions'[id].type = "SetStatus" =>
                 \/ id \in DOMAIN actions /\ actions'[id] = actions[id]
                 \/ FirstIsFull(safe) /\ Len(actions'[id].statuses) = Len(FirstBatch(safe))
    PROVE  FitInv(size)'
<1>1. ShortBatches(safe, size)' /\ (FirstIsFull(safe) => FirstIsFull(safe)')
      /\ FirstBatch(safe)' = FirstBatch(safe)
  BY DEF FitInv, ShortBatches, FirstIsFull, IsBatchFull, FirstBatch
<1> QED BY <1>1 DEF FitInv

\* propose_esdt_safe_set_current_transaction_batch_status: up to five transactions the
\* number of fields divided by six is the number of transactions.
LEMMA CurrentBatchLenExact ==
    ASSUME SafeInv, NEW size \in 1 .. 5, ShortBatches(safe, size), HasCurrentTxBatch(safe)
    PROVE  CurrentBatchLen = Len(FirstBatch(safe))
<1>1. safe.firstBatchId \in BatchIds /\ safe.pendingBatches \in [BatchIds -> Seq(SafeTx)]
  BY SafeInvMeans DEF SafeTypeOK
<1>2. FirstBatch(safe) \in Seq(SafeTx) /\ Len(FirstBatch(safe)) <= size
  BY <1>1 DEF FirstBatch, ShortBatches
<1>3. Len(FirstBatch(safe)) \in 0 .. 5
  <2>1. Len(FirstBatch(safe)) \in Nat
    BY <1>2, LenProperties
  <2>2. ASSUME NEW n \in Nat, n <= size PROVE n \in 0 .. 5
    BY <2>2
  <2> QED BY <1>2, <2>1, <2>2, Zenon
<1>4. \A n \in 0 .. 5 : (n * 7) \div 6 = n
  <2>1. ASSUME NEW n \in 0 .. 5 PROVE (n * 7) \div 6 = n
    <3>1. n = 0 \/ n = 1 \/ n = 2 \/ n = 3 \/ n = 4 \/ n = 5
      OBVIOUS
    <3> QED BY <3>1
  <2> QED BY <2>1
<1> QED BY <1>3, <1>4 DEF CurrentBatchLen, TxFields, TxMultiresultNrFields

LEMMA ProposalsFit ==
    ASSUME MultisigTypeOK, SafeInv, NEW size \in 1 .. 5, FitInv(size), NEW r, ProposeNext(r)
    PROVE  FitInv(size)'
<1>0. UNCHANGED <<safe, block>>
  BY DEF ProposeNext, ProposeMultiTransferEsdtBatch,
     ProposeEsdtSafeSetCurrentTransactionBatchStatus, safeVars
<1>1. ASSUME NEW action, ProposeAction(r, action),
             action.type = "SetStatus" =>
                FirstIsFull(safe) /\ Len(action.statuses) = Len(FirstBatch(safe))
      PROVE  FitInv(size)'
  <2>1. /\ DOMAIN actions' = DOMAIN actions \cup {Len(actions')}
        /\ \A j \in DOMAIN actions : actions'[j] = actions[j]
        /\ actions'[Len(actions')] = action
    BY <1>1, ProposalIsLast, Zenon
  <2>2. \A j \in DOMAIN actions' :
           actions'[j].type = "SetStatus" =>
              \/ j \in DOMAIN actions /\ actions'[j] = actions[j]
              \/ FirstIsFull(safe) /\ Len(actions'[j].statuses) = Len(FirstBatch(safe))
    BY <1>1, <2>1, Zenon
  <2> QED BY <1>0, <2>2, SameSafeKeepsFit, Zenon
<1>2. ASSUME NEW batchId, NEW transfers, ProposeMultiTransferEsdtBatch(r, batchId, transfers)
      PROVE  FitInv(size)'
  <2>1. BatchTransfer(batchId, transfers).type # "SetStatus"
    BY DEF BatchTransfer
  <2>2. ProposeAction(r, BatchTransfer(batchId, transfers))
    BY <1>2 DEF ProposeMultiTransferEsdtBatch
  <2> QED BY <1>1, <2>1, <2>2
<1>3. ASSUME NEW batchId, NEW statuses,
             ProposeEsdtSafeSetCurrentTransactionBatchStatus(r, batchId, statuses)
      PROVE  FitInv(size)'
  <2>1. /\ ProposeAction(r, SetStatus(batchId, statuses))
        /\ HasCurrentTxBatch(safe) /\ Len(statuses) = CurrentBatchLen
    BY <1>3 DEF ProposeEsdtSafeSetCurrentTransactionBatchStatus
  <2>2. FirstIsFull(safe)
    BY <2>1 DEF FirstIsFull, HasCurrentTxBatch
  <2>3. CurrentBatchLen = Len(FirstBatch(safe))
    BY <2>1, CurrentBatchLenExact DEF FitInv
  <2>4. SetStatus(batchId, statuses).statuses = statuses
    BY DEF SetStatus
  <2> QED BY <1>1, <2>1, <2>2, <2>3, <2>4
<1> QED BY <1>2, <1>3 DEF ProposeNext

\* perform_action leaves no list of statuses pending for the batch it settles.
LEMMA SettlingFits ==
    ASSUME MultisigTypeOK, ActionsInv, SafeInv, NEW size \in Nat, FitInv(size), NEW r,
           NEW id \in DOMAIN actions, PerformSetStatus(r, id)
    PROVE  FitInv(size)'
<1> DEFINE mapped == {m \in statusActions : m.batchId = actions[id].batchId}
           first == safe.firstBatchId
<1>1. /\ actions[id].type = "SetStatus" /\ ClearActions(ClearedWith(id, mapped))
      /\ safe' = ClearFirstBatch(safe)
  BY DEF PerformSetStatus, SetTransactionBatchStatus
<1>2. \A j \in DOMAIN actions : j \in ClearedWith(id, mapped) <=> actions[j].type = "SetStatus"
  BY <1>1, StatusesClearedTogether
<1>3. \A j \in DOMAIN actions' : actions'[j].type # "SetStatus"
  <2> HIDE DEF mapped
  <2>1. DOMAIN actions' = DOMAIN actions
        /\ \A j \in DOMAIN actions :
              actions'[j] = IF j \in ClearedWith(id, mapped) THEN Nothing ELSE actions[j]
    BY <1>1 DEF ClearActions
  <2>2. Nothing.type # "SetStatus"
    BY DEF Nothing
  <2> QED BY <1>2, <2>1, <2>2
<1>4. safe.pendingBatches \in [BatchIds -> Seq(SafeTx)] /\ safe \in BatchesOf(SafeTx)
  BY DEF SafeInv, SafeBatchesOK, BatchesOf
<1>5. /\ safe'.maxTxBatchSize = safe.maxTxBatchSize
      /\ \A j \in BatchIds : safe'.pendingBatches[j] = <<>>
                             \/ safe'.pendingBatches[j] = safe.pendingBatches[j]
  BY <1>1, <1>4 DEF ClearFirstBatch, BatchesOf
<1>6. ShortBatches(safe, size)'
  <2>1. Len(<<>>) <= size
    OBVIOUS
  <2> QED BY <1>5, <2>1 DEF FitInv, ShortBatches
<1> QED BY <1>3, <1>6 DEF FitInv

\* Every step of the contracts keeps the lists fitting.
LEMMA FitInvStep ==
    ASSUME NEW size \in 1 .. 5, NEW duration, BatchSizes = {size}, BatchDurations = {duration}
    PROVE  MultisigTypeOK /\ ActionsInv /\ FundsInv /\ FitInv(size) /\ [Next]_vars => FitInv(size)'
<1> SUFFICES ASSUME MultisigTypeOK, ActionsInv, FundsInv, FitInv(size), [Next]_vars
             PROVE  FitInv(size)'
  OBVIOUS
<1>0. SafeInv /\ RefundsInv /\ ShortBatches(safe, size) /\ size \in Nat /\ size # 0
  BY DEF FundsInv, FitInv
<1>1. ASSUME UNCHANGED <<safe, block, actions>> PROVE FitInv(size)'
  BY <1>1, SameSafeKeepsFit
<1>2. ASSUME UNCHANGED <<actions, block>>,
             \/ SafeUserNext
             \/ SafeConfigNext
             \/ \E fee \in RequiredFees : MoveRefundBatchToSafe(fee)
      PROVE  FitInv(size)'
  <2>1. ASSUME NEW fee \in RequiredFees, MoveRefundBatchToSafe(fee)
        PROVE  /\ FirstBatch(refunds) \in Seq(WaitingRefund)
               /\ AddRefundBatch(FirstBatch(refunds), fee)
    <3>1. /\ GetAndClearFirstRefundBatch /\ AddRefundBatch(FirstBatch(refunds), fee)
          /\ UNCHANGED <<block, lastExecutedEthTxId>>
      BY <2>1 DEF MoveRefundBatchToSafe, multisigVars, ethVars
    <3>2. Len(refunded) <= MaxTx
      BY <1>0, RefundsFit DEF ActionsInv
    <3> QED BY <1>0, <3>1, <3>2, ClearRefundBatchKeeps
  <2>2. \/ SafeUserNext
        \/ SafeConfigNext
        \/ /\ FirstBatch(refunds) \in Seq(WaitingRefund)
           /\ \E fee \in RequiredFees : AddRefundBatch(FirstBatch(refunds), fee)
    BY <1>2, <2>1
  <2>3. ShortBatches(safe', size) /\ (FirstIsFull(safe) => SameFirst(safe, safe'))
    BY <1>0, <2>2, SafeStepFits
  <2> QED BY <1>2, <2>3, SameFirstKeepsFit
<1>3. CASE \E r \in Relayers : RelayerNext(r)
  <2>1. PICK r \in Relayers : RelayerNext(r)
    BY <1>3
  <2>2. CASE ProposeNext(r)
    BY <1>0, <2>2, ProposalsFit
  <2>3. CASE \E id \in DOMAIN actions : PerformSetStatus(r, id)
    BY <1>0, <2>3, SettlingFits
  <2>4. CASE \E id \in DOMAIN actions : PerformBatchTransfer(r, id)
    <3>1. PICK ids : ClearActions(ids) /\ UNCHANGED <<safe, block>>
      BY <2>4 DEF PerformBatchTransfer, safeVars
    <3>2. DOMAIN actions' = DOMAIN actions
          /\ \A j \in DOMAIN actions : actions'[j] = Nothing \/ actions'[j] = actions[j]
      BY <3>1 DEF ClearActions
    <3>3. Nothing.type # "SetStatus"
      BY DEF Nothing
    <3> QED BY <3>1, <3>2, <3>3, SameSafeKeepsFit
  <2>5. CASE \/ \E id \in DOMAIN actions : Sign(r, id)
             \/ \E amount \in StakeAmounts : Stake(r, amount)
             \/ \E amount \in StakeAmounts : Unstake(r, amount)
    <3>1. UNCHANGED <<safe, block, actions>>
      BY <2>5 DEF Sign, Stake, Unstake, actionVars, safeVars
    <3> QED BY <1>1, <3>1
  <2> QED BY <2>1, <2>2, <2>3, <2>4, <2>5 DEF RelayerNext
<1>4. CASE OwnerNext
  <2>1. CASE \E fee \in RequiredFees : MoveRefundBatchToSafe(fee)
    <3>1. UNCHANGED <<actions, block>>
      BY <2>1 DEF MoveRefundBatchToSafe, multisigVars, actionVars
    <3> QED BY <1>2, <2>1, <3>1
  <2>2. CASE ~ \E fee \in RequiredFees : MoveRefundBatchToSafe(fee)
    <3>1. UNCHANGED <<safe, block, actions>>
      BY <1>4, <2>2 DEF OwnerNext, AddBoardMember, RemoveUser, SlashBoardMember,
         ChangeQuorum, MultisigSetPaused, actionVars, safeVars
    <3> QED BY <1>1, <3>1
  <2> QED BY <2>1, <2>2
<1>5. CASE ContractsNext
  <2>1. CASE (SafeUserNext \/ SafeConfigNext) /\ UNCHANGED <<block, multiTransferVars, multisigVars>>
    <3>1. UNCHANGED <<actions, block>> /\ (SafeUserNext \/ SafeConfigNext)
      BY <2>1 DEF multisigVars, actionVars
    <3> QED BY <1>2, <3>1
  <2>2. CASE MultiTransferConfigNext /\ UNCHANGED <<block, safeVars, multisigVars>>
    <3>1. UNCHANGED <<safe, block, actions>>
      BY <2>2 DEF multisigVars, actionVars, safeVars
    <3> QED BY <1>1, <3>1
  <2>3. CASE NextBlock /\ UNCHANGED <<safeVars, multiTransferVars, multisigVars>>
    <3>1. UNCHANGED safe /\ UNCHANGED actions /\ block' = block + 1
      BY <2>3 DEF NextBlock, multisigVars, actionVars, safeVars
    <3>2. FirstIsFull(safe) => FirstIsFull(safe)'
      BY <1>0, <3>1, ClosedStaysClosed
    <3>3. ShortBatches(safe, size)' /\ FirstBatch(safe)' = FirstBatch(safe)
      BY <1>0, <3>1 DEF ShortBatches, FirstBatch
    <3> QED BY <3>1, <3>2, <3>3 DEF FitInv
  <2> QED BY <1>5, <2>1, <2>2, <2>3 DEF ContractsNext
<1>6. CASE UNCHANGED vars
  <2>1. UNCHANGED <<safe, block, actions>>
    BY <1>6 DEF vars, multisigVars, actionVars, safeVars
  <2> QED BY <1>1, <2>1
<1> QED BY <1>3, <1>4, <1>5, <1>6 DEF Next

LEMMA FitInvInit ==
    ASSUME NEW size \in 1 .. 5, BatchSizes = {size}, NEW ready, ContractsDeployed(ready)
    PROVE  FitInv(size)
<1>1. actions = <<>> /\ safe.maxTxBatchSize = size
      /\ \A id \in BatchIds : safe.pendingBatches[id] = <<>>
  BY DEF ContractsDeployed, MultisigDeployed, SafeDeployed, EmptyBatches
<1>2. Len(<<>>) <= size
  OBVIOUS
<1> QED BY <1>1, <1>2 DEF FitInv, ShortBatches

(***************************************************************************)
(* A list of statuses that board members have proposed and may still       *)
(* perform has one status for each transaction of the batch it settles, so *)
(* set_transaction_batch_status cannot refuse it: the batch shown by       *)
(* get_current_tx_batch is closed and neither users nor moved refunds add  *)
(* to it.  The assumptions are what the code needs for it: the owner       *)
(* changes neither the batch size nor the batch duration, so that a closed *)
(* batch stays closed, and a batch has at most five transactions, as seven *)
(* fields per transaction divided by TX_MULTIRESULT_NR_FIELDS count six as *)
(* seven.                                                                  *)
(***************************************************************************)
THEOREM StatusesFitTheirBatch ==
    ASSUME NEW size \in 1 .. 5, NEW duration, BatchSizes = {size}, BatchDurations = {duration}
    PROVE  Spec => []PendingStatusesFitBatch
<1>1. Init => FitInv(size)
  BY InitDeployed, FitInvInit
<1>2. MultisigTypeOK /\ ActionsInv /\ FundsInv /\ FitInv(size) /\ [Next]_vars => FitInv(size)'
  BY FitInvStep
<1>3. FitInv(size) => PendingStatusesFitBatch
  BY DEF FitInv, PendingStatusesFitBatch
<1> QED BY <1>1, <1>2, <1>3, FundsInvAlways, MultisigTypeCorrect, ActionsInvAlways, PTL DEF Spec
==============================================================================
