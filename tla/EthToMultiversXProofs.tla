------------------------ MODULE EthToMultiversXProofs ------------------------
(***************************************************************************)
(* Theorems about the Ethereum -> MultiversX half bridge, for any number   *)
(* of relayers of which fewer than the quorum are faulty, and any number   *)
(* of deposits, batches, lost transactions, failures and restarts.         *)
(*                                                                         *)
(* The argument: a relayer proposes and signs only what it has read from a *)
(* final Ethereum batch, and a final batch never changes.  An action with  *)
(* a quorum of signatures has an honest signature, so what is performed is *)
(* exactly a final batch, and it is the next one, since no stale proposal  *)
(* survives in the multisig.                                               *)
(***************************************************************************)
EXTENDS EthToMultiversX, MultisigProofs, EthBridgeProofs

------------------------------------------------------------------------------
(* The inductive invariant *)

\* The transfer a deposit asks for.
AskedBy(d) == [nonce |-> d.nonce, to |-> d.recipient, amount |-> d.amount]

\* Every deposit can be executed on MultiversX.
DepositsBridgeable ==
    \A n \in 1 .. Len(batches) :
        \A i \in 1 .. Len(batches[n].deposits) : AskedBy(batches[n].deposits[i]) \in EthTransfers

EthereumInv == ERC20SafeTypeOK /\ LimitsOrdered /\ BatchesInTime /\ DepositsBridgeable

\* The action executes a final batch as it is.
Good(action) ==
    /\ action.type = "BatchTransfer"
    /\ FinalEthBatch(action.batchId)
    /\ action.transfers = DepositsOf(action.batchId)

\* Relayers that run the program have signed nothing else.
VotesOK ==
    /\ quorum = InitialQuorum
    /\ \A id \in DOMAIN actions :
          /\ actions[id].type # "SetStatus"
          /\ \A r \in Honest : r \in signers[id] => actions[id] = Nothing \/ Good(actions[id])

\* The transfers of all batches; AllDeposits is their concatenation.
AskedLists == [n \in DOMAIN batches |-> DepositsOf(n)]

\* What is executed are the first batches, all of them final.
ExecutedOK ==
    /\ lastExecutedEthBatchId <= Len(batches)
    /\ \A n \in 1 .. lastExecutedEthBatchId : FinalEthBatch(n)
    /\ executedEthTxs = FlattenSeq(FrontOf(AskedLists, lastExecutedEthBatchId))

ExecutorFields ==
    {"step", "batch", "actionID", "msgHash", "quorumRetriesOnEthereum",
     "quorumRetriesOnMultiversX", "retriesOnWasProposed", "newNumDeposits"}

\* A batch as a relayer has read it from Ethereum.
ReadBatch(b) == FinalEthBatch(b.id) /\ BatchInfo(b) = DepositsOf(b.id)

ExecutorOK(e) ==
    /\ DOMAIN e = ExecutorFields
    /\ e.step \in Steps
    /\ e.actionID \in Nat
    /\ e.quorumRetriesOnMultiversX \in 0 .. MaxQuorumRetriesOnMultiversX
    /\ ReadBatch(e.batch) \/ (e.batch = NoBatch /\ e.step = FirstStep)

ExecutorsOK == DOMAIN executor = Honest /\ \A r \in Honest : ExecutorOK(executor[r])

Transactions == [type : {"propose", "sign", "perform"}, id : Nat, args : Seq(EthTransfers)]

\* What a relayer has sent proposes or signs a final batch as it is.
TxOK(tx) ==
    /\ tx.type = "propose" => FinalEthBatch(tx.id) /\ tx.args = DepositsOf(tx.id)
    /\ tx.type = "sign" =>
          /\ tx.id \in DOMAIN actions
          /\ actions[tx.id] = Nothing \/ Good(actions[tx.id])

MempoolOK ==
    /\ DOMAIN mempool = Honest
    /\ \A r \in Honest :
          /\ mempool[r] \in Seq(Transactions)
          /\ \A i \in 1 .. Len(mempool[r]) : TxOK(mempool[r][i])

ContractsInv == MultisigTypeOK /\ ActionsInv /\ VotesOK

RelayersInv == ExecutorsOK /\ MempoolOK /\ failures \in 0 .. MaxFailures

HalfBridgeInv == EthereumInv /\ ContractsInv /\ ExecutedOK /\ RelayersInv

------------------------------------------------------------------------------
(* What stays *)

\* Final batches stay as they are.
FinalStay ==
    \A n : FinalEthBatch(n) => FinalEthBatch(n)' /\ DepositsOf(n)' = DepositsOf(n)

\* Actions are only added and cleared.
ActionsStay ==
    \A id \in DOMAIN actions :
        id \in DOMAIN actions' /\ (actions'[id] = actions[id] \/ actions'[id] = Nothing)

\* Nothing happens on Ethereum.
LEMMA SameEthereum ==
    ASSUME UNCHANGED ethereumVars
    PROVE  FinalStay /\ (EthereumInv => EthereumInv') /\ AskedLists' = AskedLists
<1>1. UNCHANGED <<ethBlock, erc20Vars, batches, depositsCount, batchSettleLimit, batchBlockLimit>>
  BY DEF ethereumVars, erc20Vars, depositVars, erc20ConfigVars
<1>2. FinalStay /\ AskedLists' = AskedLists
  BY <1>1 DEF FinalStay, FinalEthBatch, IsBatchFinalEth, DepositsOf, AskedLists
<1>3. EthereumInv => ERC20SafeTypeOK'
  BY <1>1, SafeTypeStutter DEF EthereumInv
<1>4. EthereumInv => LimitsOrdered' /\ BatchesInTime' /\ DepositsBridgeable'
  BY <1>1 DEF EthereumInv, LimitsOrdered, BatchesInTime, DepositsBridgeable
<1> QED BY <1>2, <1>3, <1>4 DEF EthereumInv

LEMMA GoodStays ==
    ASSUME FinalStay, NEW action, Good(action)
    PROVE  Good(action)'
BY DEF FinalStay, Good

LEMMA TxStays ==
    ASSUME FinalStay, ActionsStay, NEW tx, TxOK(tx)
    PROVE  TxOK(tx)'
<1>1. tx.type = "propose" => FinalEthBatch(tx.id)' /\ tx.args = DepositsOf(tx.id)'
  BY DEF FinalStay, TxOK
<1>2. ASSUME tx.type = "sign"
      PROVE  (tx.id \in DOMAIN actions /\ (actions[tx.id] = Nothing \/ Good(actions[tx.id])))'
  <2>1. PICK a : a = actions[tx.id]
    OBVIOUS
  <2>2. tx.id \in DOMAIN actions /\ (a = Nothing \/ Good(a))
    BY <1>2, <2>1 DEF TxOK
  <2>3. tx.id \in DOMAIN actions' /\ (actions'[tx.id] = a \/ actions'[tx.id] = Nothing)
    BY <2>1, <2>2 DEF ActionsStay
  <2>4. CASE Good(a) /\ actions'[tx.id] = a
    <3>1. Good(a)'
      BY <2>4, GoodStays
    <3> QED BY <2>3, <2>4, <3>1 DEF Good
  <2> QED BY <2>2, <2>3, <2>4
<1> QED BY <1>1, <1>2 DEF TxOK


------------------------------------------------------------------------------
(* Steps of Ethereum *)

\* The transfers that the deposits of batches bs ask for.
AskedOf(bs) ==
    [n \in DOMAIN bs |-> [i \in DOMAIN bs[n].deposits |-> AskedBy(bs[n].deposits[i])]]

\* They are sequences of transfers.
LEMMA AskedOfType ==
    ASSUME NEW bs \in Seq(Batch),
           \A n \in 1 .. Len(bs) :
              \A i \in 1 .. Len(bs[n].deposits) : AskedBy(bs[n].deposits[i]) \in EthTransfers
    PROVE  /\ AskedOf(bs) \in Seq(Seq(EthTransfers))
           /\ Len(AskedOf(bs)) = Len(bs)
           /\ \A n \in 1 .. Len(bs) :
                 /\ AskedOf(bs)[n] \in Seq(EthTransfers)
                 /\ Len(AskedOf(bs)[n]) = Len(bs[n].deposits)
                 /\ \A i \in 1 .. Len(bs[n].deposits) :
                       AskedOf(bs)[n][i] = AskedBy(bs[n].deposits[i])
<1>1. Len(bs) \in Nat /\ DOMAIN bs = 1 .. Len(bs)
  OBVIOUS
<1>2. \A n \in 1 .. Len(bs) : bs[n].deposits \in Seq(Deposit)
  <2>1. \A n \in 1 .. Len(bs) : bs[n] \in Batch
    BY ElementOfSeq
  <2> QED BY <2>1 DEF Batch
<1>3. ASSUME NEW n \in 1 .. Len(bs)
      PROVE  /\ AskedOf(bs)[n] \in Seq(EthTransfers)
             /\ Len(AskedOf(bs)[n]) = Len(bs[n].deposits)
             /\ \A i \in 1 .. Len(bs[n].deposits) :
                   AskedOf(bs)[n][i] = AskedBy(bs[n].deposits[i])
  <2> DEFINE d == bs[n].deposits
             list == AskedOf(bs)[n]
  <2>1. d \in Seq(Deposit) /\ \A i \in 1 .. Len(d) : AskedBy(d[i]) \in EthTransfers
    BY <1>2
  <2>2. list = [i \in DOMAIN d |-> AskedBy(d[i])]
    BY <1>1 DEF AskedOf
  <2> HIDE DEF d, list
  <2>3. DOMAIN d = 1 .. Len(d) /\ Len(d) \in Nat
    BY <2>1
  <2>4. list \in [1 .. Len(d) -> EthTransfers] /\ \A i \in 1 .. Len(d) : list[i] = AskedBy(d[i])
    BY <2>1, <2>2, <2>3
  <2>5. list \in Seq(EthTransfers) /\ Len(list) = Len(d)
    BY <2>3, <2>4
  <2> QED BY <2>4, <2>5 DEF d, list
<1>4. AskedOf(bs) \in [1 .. Len(bs) -> Seq(EthTransfers)]
  <2>1. DOMAIN AskedOf(bs) = 1 .. Len(bs)
        /\ AskedOf(bs) = [n \in 1 .. Len(bs) |-> AskedOf(bs)[n]]
    BY <1>1 DEF AskedOf
  <2> QED BY <1>3, <2>1
<1>5. AskedOf(bs) \in Seq(Seq(EthTransfers)) /\ Len(AskedOf(bs)) = Len(bs)
  BY <1>1, <1>4
<1> QED BY <1>3, <1>5

LEMMA AskedListsType ==
    ASSUME EthereumInv
    PROVE  /\ batches \in Seq(Batch) /\ Len(batches) \in Nat
           /\ AskedLists \in Seq(Seq(EthTransfers))
           /\ Len(AskedLists) = Len(batches)
           /\ \A n \in 1 .. Len(batches) :
                 /\ AskedLists[n] = DepositsOf(n)
                 /\ DepositsOf(n) \in Seq(EthTransfers)
                 /\ Len(DepositsOf(n)) = Len(batches[n].deposits)
           /\ AllDeposits = FlattenSeq(AskedLists)
           /\ AllDeposits \in Seq(EthTransfers)
<1>1. batches \in Seq(Batch)
  BY DEF EthereumInv, ERC20SafeTypeOK
<1>2. Len(batches) \in Nat /\ DOMAIN batches = 1 .. Len(batches)
  BY <1>1
<1>3. AskedLists = AskedOf(batches)
  BY DEF AskedLists, AskedOf, DepositsOf, AskedBy
<1>4. \A n \in 1 .. Len(batches) :
         \A i \in 1 .. Len(batches[n].deposits) : AskedBy(batches[n].deposits[i]) \in EthTransfers
  BY DEF EthereumInv, DepositsBridgeable
<1>5. \A n \in 1 .. Len(batches) : AskedLists[n] = DepositsOf(n)
  BY <1>2 DEF AskedLists
<1>6. AllDeposits = FlattenSeq(AskedLists)
  BY DEF AllDeposits, AskedLists
<1>7. AskedLists \in Seq(Seq(EthTransfers)) /\ Len(AskedLists) = Len(batches)
  BY <1>1, <1>3, <1>4, AskedOfType
<1>8. \A n \in 1 .. Len(batches) :
         DepositsOf(n) \in Seq(EthTransfers) /\ Len(DepositsOf(n)) = Len(batches[n].deposits)
  BY <1>1, <1>3, <1>4, <1>5, AskedOfType
<1> QED BY <1>1, <1>2, <1>5, <1>6, <1>7, <1>8, FlattenType

\* A new deposit's transfer is asked for last.
LEMMA AskedComesLast ==
    ASSUME EthereumInv, EthereumInv', NEW b, NEW new, BatchAdded(b, new) \/ BatchExtended(b, new)
    PROVE  AskedBy(new) \in EthTransfers /\ AllDeposits' = Append(AllDeposits, AskedBy(new))
<1> DEFINE lists == AskedOf(batches)
           more == AskedOf(batches')
           k == Len(batches)
<1>1. AllDeposits = FlattenSeq(lists) /\ AllDeposits' = FlattenSeq(more)
  BY DEF AllDeposits, AskedOf, DepositsOf, AskedBy
<1>2. batches \in Seq(Batch) /\ batches' \in Seq(Batch) /\ k \in Nat /\ Len(batches') \in Nat
  <2>1. batches \in Seq(Batch) /\ batches' \in Seq(Batch)
    BY DEF EthereumInv, ERC20SafeTypeOK
  <2> QED BY <2>1
<1>3. /\ lists \in Seq(Seq(EthTransfers)) /\ Len(lists) = k
      /\ \A n \in 1 .. k : lists[n] = [i \in DOMAIN batches[n].deposits |-> AskedBy(batches[n].deposits[i])]
      /\ \A n \in 1 .. k : lists[n] \in Seq(EthTransfers) /\ Len(lists[n]) = Len(batches[n].deposits)
  <2>1. \A n \in 1 .. k :
           \A i \in 1 .. Len(batches[n].deposits) : AskedBy(batches[n].deposits[i]) \in EthTransfers
    BY DEF EthereumInv, DepositsBridgeable
  <2>2. \A n \in 1 .. k : lists[n] = [i \in DOMAIN batches[n].deposits |-> AskedBy(batches[n].deposits[i])]
    BY <1>2 DEF AskedOf
  <2> QED BY <1>2, <2>1, <2>2, AskedOfType
<1>4. /\ more \in Seq(Seq(EthTransfers)) /\ Len(more) = Len(batches')
      /\ \A n \in 1 .. Len(batches') :
            more[n] = [i \in DOMAIN batches'[n].deposits |-> AskedBy(batches'[n].deposits[i])]
      /\ \A n \in 1 .. Len(batches') :
            \A i \in 1 .. Len(batches'[n].deposits) : AskedBy(batches'[n].deposits[i]) \in EthTransfers
  <2>1. \A n \in 1 .. Len(batches') :
           \A i \in 1 .. Len(batches'[n].deposits) : AskedBy(batches'[n].deposits[i]) \in EthTransfers
    BY DEF EthereumInv, DepositsBridgeable
  <2>2. \A n \in 1 .. Len(batches') :
            more[n] = [i \in DOMAIN batches'[n].deposits |-> AskedBy(batches'[n].deposits[i])]
    BY <1>2 DEF AskedOf
  <2> QED BY <1>2, <2>1, <2>2, AskedOfType
<1>5. new \in Deposit
  BY DEF BatchAdded, BatchExtended
<1> HIDE DEF lists, more, k
<1>6. CASE BatchAdded(b, new)
  <2>1. /\ Len(batches') = k + 1 /\ b.deposits = <<new>>
        /\ \A n \in 1 .. k : batches'[n] = batches[n]
        /\ batches'[k + 1] = b
    BY <1>6 DEF BatchAdded, k
  <2>2. k + 1 \in 1 .. Len(batches') /\ 1 .. k \subseteq 1 .. Len(batches')
    BY <1>2, <2>1
  <2>3. AskedBy(new) \in EthTransfers
    <3>1. 1 \in 1 .. Len(b.deposits) /\ b.deposits[1] = new
      BY <2>1
    <3> QED BY <1>4, <2>1, <2>2, <3>1
  <2>4. more[k + 1] = <<AskedBy(new)>>
    <3>1. more[k + 1] = [i \in DOMAIN b.deposits |-> AskedBy(b.deposits[i])]
      BY <1>4, <2>1, <2>2
    <3> QED BY <2>1, <3>1
  <2>5. ASSUME NEW n \in 1 .. k PROVE more[n] = lists[n]
    <3>1. n \in 1 .. Len(batches') /\ batches'[n] = batches[n]
      BY <2>1, <2>2
    <3>2. more[n] = [i \in DOMAIN batches'[n].deposits |-> AskedBy(batches'[n].deposits[i])]
      BY <1>4, <3>1
    <3> QED BY <1>3, <3>1, <3>2
  <2>6. /\ Len(more) = Len(lists) + 1 /\ more[Len(lists) + 1] = <<AskedBy(new)>>
        /\ \A n \in 1 .. Len(lists) : more[n] = lists[n]
    BY <1>3, <1>4, <2>1, <2>4, <2>5
  <2> QED BY <1>1, <1>3, <1>4, <2>3, <2>6, FlattenNew, SMTT(20)
<1>7. CASE BatchExtended(b, new)
  <2>1. /\ Len(batches') = k /\ k > 0 /\ b.deposits = Append(batches[k].deposits, new)
        /\ \A n \in 1 .. k - 1 : batches'[n] = batches[n]
        /\ batches'[k] = b
    BY <1>7, ZenonT(30) DEF BatchExtended, k
  <2>2. k \in 1 .. k /\ 1 .. k - 1 \subseteq 1 .. k /\ k # 0
    BY <1>2, <2>1
  <2>3. PICK d \in Seq(Deposit) : d = batches[k].deposits
    <3>1. batches[k] \in Batch
      BY <1>2, <2>2, ElementOfSeq DEF k
    <3> QED BY <3>1 DEF Batch
  <2>4. /\ b.deposits \in Seq(Deposit) /\ Len(b.deposits) = Len(d) + 1
        /\ b.deposits[Len(d) + 1] = new /\ \A i \in 1 .. Len(d) : b.deposits[i] = d[i]
    BY <1>5, <2>1, <2>3, AppendProperties
  <2>5. AskedBy(new) \in EthTransfers
    <3>1. Len(d) + 1 \in 1 .. Len(b.deposits)
      BY <2>4
    <3> QED BY <1>4, <2>1, <2>2, <2>4, <3>1
  <2>6. more[k] = Append(lists[k], AskedBy(new))
    <3>1. PICK old \in Seq(EthTransfers) : old = lists[k]
      BY <1>3, <2>2
    <3>2. old = [i \in 1 .. Len(d) |-> AskedBy(d[i])] /\ Len(old) = Len(d)
      BY <1>3, <2>2, <2>3, <3>1
    <3>3. more[k] = [i \in 1 .. Len(d) + 1 |-> AskedBy(b.deposits[i])]
      <4>1. k \in 1 .. Len(batches') /\ batches'[k] = b /\ DOMAIN b.deposits = 1 .. Len(d) + 1
        BY <2>1, <2>2, <2>4
      <4>2. more[k] = [i \in DOMAIN batches'[k].deposits |-> AskedBy(batches'[k].deposits[i])]
        BY <1>4, <4>1
      <4> QED BY <4>1, <4>2
    <3> QED BY <2>4, <2>5, <3>1, <3>2, <3>3
  <2>7. ASSUME NEW n \in 1 .. k - 1 PROVE more[n] = lists[n]
    <3>1. n \in 1 .. Len(batches') /\ n \in 1 .. k /\ batches'[n] = batches[n]
      BY <2>1, <2>2
    <3>2. more[n] = [i \in DOMAIN batches'[n].deposits |-> AskedBy(batches'[n].deposits[i])]
      BY <1>4, <3>1
    <3> QED BY <1>3, <3>1, <3>2
  <2>8. /\ Len(lists) # 0 /\ Len(more) = Len(lists)
        /\ more[Len(lists)] = Append(lists[Len(lists)], AskedBy(new))
        /\ \A n \in 1 .. Len(lists) - 1 : more[n] = lists[n]
    BY <1>3, <1>4, <2>1, <2>2, <2>6, <2>7
  <2>9. PICK x \in EthTransfers : x = AskedBy(new)
    BY <2>5
  <2>10. more[Len(lists)] = Append(lists[Len(lists)], x)
    BY <2>8, <2>9
  <2>11. FlattenSeq(more) = Append(FlattenSeq(lists), x)
    <3>1. lists \in Seq(Seq(EthTransfers)) /\ more \in Seq(Seq(EthTransfers))
      BY <1>3, <1>4
    <3>2. /\ Len(lists) # 0 /\ Len(more) = Len(lists)
          /\ \A n \in 1 .. Len(lists) - 1 : more[n] = lists[n]
      BY <2>8
    <3> QED BY <2>10, <3>1, <3>2, FlattenExtend
  <2> QED BY <1>1, <2>5, <2>9, <2>11
<1> QED BY <1>6, <1>7

\* A block passes or somebody deposits.
LEMMA EthereumStep ==
    ASSUME EthereumInv, EthereumNext
    PROVE  /\ BatchesStep
           /\ ERC20SafeTypeOK'
           /\ UNCHANGED erc20ConfigVars
<1>1. ERC20SafeTypeOK /\ ethBlock \in Nat
  BY DEF EthereumInv, ERC20SafeTypeOK
<1>2. CASE NextEthBlock /\ UNCHANGED erc20Vars
  <2>1. ethBlock' = ethBlock + 1
    BY <1>2 DEF NextEthBlock
  <2>2. ERC20SafeTypeOK'
    BY <1>1, <1>2, <2>1 DEF ERC20SafeTypeOK, erc20Vars, erc20ConfigVars, depositVars, erc20TokenVars
  <2> QED BY <1>1, <1>2, <2>1, <2>2 DEF BatchesStep, erc20Vars
<1>3. CASE /\ \E token \in Tokens, amount \in DepositAmounts, recipient \in DepositRecipients :
                 DepositTokens(token, amount, recipient)
           /\ UNCHANGED ethBlock
  <2>1. PICK token \in Tokens, amount \in DepositAmounts, recipient \in DepositRecipients :
                 DepositTokens(token, amount, recipient)
    BY <1>3
  <2>2. amount \in Nat
    BY ERC20SafeAssumption
  <2>3. ERC20SafeTypeOK'
    BY <1>1, <1>3, <2>1, <2>2, DepositType
  <2>4. DepositMade
    BY <2>1, <2>2 DEF DepositMade
  <2>5. UNCHANGED erc20ConfigVars
    BY <2>1 DEF DepositTokens
  <2> QED BY <1>3, <2>3, <2>4, <2>5 DEF BatchesStep
<1> QED BY <1>2, <1>3 DEF EthereumNext

\* A new deposit asks for something that can be executed.
LEMMA NewDepositBridgeable ==
    ASSUME EthereumInv, NEW token \in Tokens, NEW amount \in DepositAmounts,
           NEW recipient \in DepositRecipients, DepositTokens(token, amount, recipient)
    PROVE  AskedBy(NewDeposit(token, amount, recipient)) \in EthTransfers
<1>1. depositsCount \in Nat /\ depositsCount < MaxDeposits /\ ethServiceFee \in EthServiceFees
  BY DEF EthereumInv, ERC20SafeTypeOK, DepositTokens
<1>2. depositsCount + 1 \in 1 .. MaxEthTx
  <2>1. MaxDeposits <= MaxEthTx /\ MaxDeposits \in Nat /\ MaxEthTx \in Nat
    BY EthToMultiversXAssumption, ERC20SafeAssumption, MultisigAssumption
  <2> QED BY <1>1, <2>1
<1>3. amount - DeductedFee(amount) \in TransferAmounts /\ recipient \in Recipients
  BY <1>1, EthToMultiversXAssumption DEF DeductedFee
<1> QED BY <1>2, <1>3 DEF AskedBy, NewDeposit, EthTransfers

LEMMA EthereumKeeps ==
    ASSUME EthereumInv, EthereumNext
    PROVE  EthereumInv' /\ FinalStay
<1>1. BatchesStep /\ ERC20SafeTypeOK' /\ UNCHANGED erc20ConfigVars
  BY EthereumStep
<1>2. ERC20SafeTypeOK /\ LimitsOrdered /\ BatchesInTime /\ DepositsBridgeable
  BY DEF EthereumInv
<1>3. LimitsOrdered' /\ batchSettleLimit' = batchSettleLimit
  BY <1>1, <1>2 DEF LimitsOrdered, erc20ConfigVars
<1>4. BatchesInTime'
  BY <1>1, <1>2, BatchesInTimeStep
<1>5. batches \in Seq(Batch) /\ batches' \in Seq(Batch) /\ batchSettleLimit \in Nat
  BY <1>1, <1>2 DEF ERC20SafeTypeOK
<1>6. DepositsBridgeable'
  <2>1. CASE UNCHANGED batches
    BY <1>2, <2>1 DEF DepositsBridgeable
  <2>2. CASE \E token \in Tokens, amount \in DepositAmounts, recipient \in DepositRecipients :
                DepositTokens(token, amount, recipient)
    <3>1. PICK token \in Tokens, amount \in DepositAmounts, recipient \in DepositRecipients :
                 DepositTokens(token, amount, recipient)
      BY <2>2
    <3>2. PICK new : new = NewDeposit(token, amount, recipient)
      OBVIOUS
    <3>3. AskedBy(new) \in EthTransfers
      BY <3>1, <3>2, NewDepositBridgeable
    <3>4. amount \in Nat
      BY ERC20SafeAssumption
    <3>5. PICK b \in Batch : BatchAdded(b, new) \/ BatchExtended(b, new)
      BY <1>2, <3>1, <3>2, <3>4, DepositAddsOrExtends
    <3> DEFINE k == Len(batches)
    <3>6. k \in Nat /\ \A n \in 1 .. k : batches[n].deposits \in Seq(Deposit)
      <4>1. \A n \in 1 .. k : batches[n] \in Batch
        BY <1>5, ElementOfSeq
      <4> QED BY <1>5, <4>1 DEF Batch
    <3>7. \A n \in 1 .. k : \A i \in 1 .. Len(batches[n].deposits) :
             AskedBy(batches[n].deposits[i]) \in EthTransfers
      BY <1>2 DEF DepositsBridgeable
    <3>8. CASE BatchAdded(b, new)
      <4>1. /\ Len(batches') = k + 1 /\ \A n \in 1 .. k : batches'[n] = batches[n]
            /\ batches'[k + 1] = b /\ b.deposits = <<new>>
        BY <3>8 DEF BatchAdded
      <4> HIDE DEF k
      <4>2. \A n \in 1 .. k + 1 : n \in 1 .. k \/ n = k + 1
        BY <3>6
      <4>3. \A i \in 1 .. Len(b.deposits) : AskedBy(b.deposits[i]) \in EthTransfers
        BY <3>3, <4>1
      <4> QED BY <3>7, <4>1, <4>2, <4>3 DEF DepositsBridgeable
    <3>9. CASE BatchExtended(b, new)
      <4>1. /\ Len(batches') = k /\ \A n \in 1 .. k - 1 : batches'[n] = batches[n]
            /\ batches'[k] = b /\ b.deposits = Append(batches[k].deposits, new)
            /\ k > 0 /\ new \in Deposit
        BY <3>9 DEF BatchExtended
      <4>2. PICK d \in Seq(Deposit) : d = batches[k].deposits
        BY <3>6, <4>1
      <4>3. \A i \in 1 .. Len(d) : AskedBy(d[i]) \in EthTransfers
        BY <3>6, <3>7, <4>1, <4>2
      <4> HIDE DEF k
      <4>4. \A n \in 1 .. k : n \in 1 .. k - 1 \/ n = k
        BY <3>6
      <4>5. \A n \in 1 .. k - 1 : n \in 1 .. k
        BY <3>6
      <4>6. \A i \in 1 .. Len(b.deposits) : AskedBy(b.deposits[i]) \in EthTransfers
        <5>1. b.deposits = Append(d, new)
          BY <4>1, <4>2
        <5>2. /\ Len(b.deposits) = Len(d) + 1 /\ b.deposits[Len(d) + 1] = new
              /\ \A i \in 1 .. Len(d) : b.deposits[i] = d[i]
          BY <4>1, <5>1, AppendProperties
        <5>3. \A i \in 1 .. Len(d) + 1 : i \in 1 .. Len(d) \/ i = Len(d) + 1
          OBVIOUS
        <5> QED BY <3>3, <4>3, <5>2, <5>3
      <4> QED BY <3>7, <4>1, <4>4, <4>5, <4>6 DEF DepositsBridgeable
    <3> QED BY <3>5, <3>8, <3>9
  <2> QED BY <2>1, <2>2 DEF EthereumNext, erc20Vars, depositVars
<1>7. FinalStay
  <2> SUFFICES ASSUME NEW n, FinalEthBatch(n)
               PROVE  FinalEthBatch(n)' /\ DepositsOf(n)' = DepositsOf(n)
    BY DEF FinalStay
  <2>1. n \in DOMAIN batches /\ IsBatchFinalEth(batches[n])
    BY DEF FinalEthBatch
  <2>2. batches'[n] = batches[n] /\ IsBatchFinalEth(batches[n])'
    <3>1. batchSettleLimit' <= batchSettleLimit
      BY <1>3, <1>5
    <3> QED BY <1>1, <1>2, <2>1, <3>1, FinalBatchStaysFixed
  <2>3. n \in DOMAIN batches'
    <3>1. CASE UNCHANGED depositVars
      BY <2>1, <3>1 DEF depositVars
    <3>2. CASE DepositMade
      <4>1. PICK b \in Batch, new \in Deposit : BatchAdded(b, new) \/ BatchExtended(b, new)
        BY <1>2, <3>2, DepositStep
      <4>2. Len(batches') \in {Len(batches), Len(batches) + 1}
        BY <4>1 DEF BatchAdded, BatchExtended
      <4> QED BY <1>5, <2>1, <4>2
    <3> QED BY <1>1, <3>1, <3>2 DEF BatchesStep
  <2> QED BY <2>2, <2>3 DEF FinalEthBatch, DepositsOf
<1> QED BY <1>1, <1>3, <1>4, <1>6, <1>7 DEF EthereumInv


------------------------------------------------------------------------------
(* Calls of the multisig *)

\* A quorum of valid signatures includes one of a relayer that runs the program.
LEMMA QuorumHasHonest ==
    ASSUME MultisigTypeOK, quorum = InitialQuorum, NEW id \in DOMAIN actions, QuorumReached(id)
    PROVE  \E r \in Honest : r \in signers[id]
<1> SUFFICES ASSUME \A r \in Honest : r \notin signers[id] PROVE FALSE
  OBVIOUS
<1>1. id \in 1 .. Len(signers) /\ signers[id] \in SUBSET Relayers
  BY DEF MultisigTypeOK
<1>2. ValidSigners(id) \subseteq Faulty
  BY <1>1 DEF ValidSigners, Honest
<1>3. IsFiniteSet(Faulty)
  BY MultisigAssumption, MultiversXClientAssumption, FS_Subset
<1>4. Cardinality(ValidSigners(id)) <= Cardinality(Faulty)
  BY <1>2, <1>3, FS_Subset
<1>5. Cardinality(ValidSigners(id)) \in Nat /\ Cardinality(Faulty) \in Nat
  BY <1>2, <1>3, FS_Subset, FS_CardinalityType
<1>6. Cardinality(Faulty) < InitialQuorum /\ InitialQuorum \in Nat
  BY MultiversXClientAssumption DEF MultisigTypeOK
<1> QED BY <1>4, <1>5, <1>6 DEF QuorumReached

LEMMA ProposeKeeps ==
    ASSUME EthereumInv, ContractsInv, ExecutedOK, UNCHANGED ethereumVars,
           NEW r \in Relayers, NEW batchId \in Nat, NEW transfers \in Seq(EthTransfers),
           r \in Honest => FinalEthBatch(batchId) /\ transfers = DepositsOf(batchId),
           ProposeMultiTransferEsdtBatch(r, batchId, transfers)
    PROVE  ContractsInv' /\ ExecutedOK' /\ ActionsStay /\ UNCHANGED executedEthTxs
<1> DEFINE action == BatchTransfer(batchId, transfers)
           new == Len(actions')
<1>1. MultisigTypeOK /\ ActionsInv /\ VotesOK
  BY DEF ContractsInv
<1>2. MultisigTypeOK' /\ ActionsInv'
  BY <1>1, ProposeTransferType, ProposeTransferKeepsInv
<1>3. /\ ProposeAction(r, action)
      /\ UNCHANGED <<boardVars, ethVars>>
  BY DEF ProposeMultiTransferEsdtBatch
<1>4. UNCHANGED <<quorum, lastExecutedEthBatchId, executedEthTxs>>
  BY <1>3 DEF boardVars, ethVars
<1>5. /\ DOMAIN actions' = DOMAIN actions \cup {new}
      /\ new \notin DOMAIN actions
      /\ \A j \in DOMAIN actions : actions'[j] = actions[j]
      /\ actions'[new] = action
  BY <1>1, <1>3, ProposalIsLast, ZenonT(30)
<1>6. ActionsStay
  BY <1>5, ZenonT(30) DEF ActionsStay
<1>7. FinalStay /\ AskedLists' = AskedLists
  BY SameEthereum
<1>8. /\ \A j \in DOMAIN actions : signers'[j] = signers[j]
      /\ signers'[new] \subseteq {r}
  <2>1. signers' = Append(signers, IF HasEnoughStake(r) THEN {r} ELSE {})
    BY <1>3 DEF ProposeAction
  <2>2. /\ signers \in Seq(SUBSET Relayers) /\ Len(signers) = Len(actions)
        /\ DOMAIN actions = 1 .. Len(actions) /\ actions \in Seq(ActionType)
    BY <1>1 DEF MultisigTypeOK
  <2>3. new = Len(signers) + 1
    BY <1>3, <2>2 DEF ProposeAction
  <2> HIDE DEF new
  <2>4. (IF HasEnoughStake(r) THEN {r} ELSE {}) \in SUBSET {r}
        /\ (IF HasEnoughStake(r) THEN {r} ELSE {}) \in SUBSET Relayers
    OBVIOUS
  <2> QED BY <2>1, <2>2, <2>3, <2>4, AppendProperties
<1>9. VotesOK'
  <2>1. quorum' = InitialQuorum
    BY <1>1, <1>4, SMTT(20) DEF VotesOK
  <2>2. ASSUME NEW id \in DOMAIN actions'
        PROVE  /\ actions'[id].type # "SetStatus"
               /\ \A q \in Honest :
                     q \in signers'[id] => (actions[id] = Nothing \/ Good(actions[id]))'
    <3>1. CASE id \in DOMAIN actions
      <4>1. PICK a : a = actions[id]
        OBVIOUS
      <4>2. a.type # "SetStatus" /\ \A q \in Honest : q \in signers[id] => a = Nothing \/ Good(a)
        BY <1>1, <3>1, <4>1 DEF VotesOK
      <4>3. Good(a) => Good(a)'
        BY <1>7, GoodStays, SMTT(20)
      <4>4. actions'[id] = a /\ signers'[id] = signers[id]
        BY <1>5, <1>8, <3>1, <4>1, ZenonT(30)
      <4> QED BY <4>2, <4>3, <4>4 DEF Good
    <3>2. CASE id = new
      <4>1. actions'[id].type = "BatchTransfer" /\ actions'[id].batchId = batchId
            /\ actions'[id].transfers = transfers
        BY <1>5, <3>2 DEF BatchTransfer
      <4>2. ASSUME r \in Honest
            PROVE  FinalEthBatch(batchId)' /\ transfers = DepositsOf(batchId)'
        BY <1>7, <4>2 DEF FinalStay
      <4>3. \A q \in Honest : q \in signers'[id] => q = r
        BY <1>8, <3>2
      <4>4. r \in Honest => Good(actions[id])'
        BY <4>1, <4>2 DEF Good
      <4> QED BY <4>1, <4>3, <4>4
    <3> QED BY <1>5, <3>1, <3>2, ZenonT(30)
  <2> QED BY <2>1, <2>2 DEF VotesOK
<1>10. ExecutedOK'
  <2>1. Len(batches') = Len(batches)
    BY DEF ethereumVars, erc20Vars, depositVars
  <2> QED BY <1>4, <1>7, <2>1 DEF ExecutedOK, FinalStay
<1> QED BY <1>2, <1>4, <1>6, <1>9, <1>10 DEF ContractsInv

LEMMA SignKeeps ==
    ASSUME EthereumInv, ContractsInv, ExecutedOK, UNCHANGED ethereumVars,
           NEW r \in Relayers, NEW id \in DOMAIN actions,
           r \in Honest => actions[id] = Nothing \/ Good(actions[id]),
           Sign(r, id)
    PROVE  ContractsInv' /\ ExecutedOK' /\ ActionsStay /\ UNCHANGED executedEthTxs
<1>1. MultisigTypeOK /\ ActionsInv /\ VotesOK
  BY DEF ContractsInv
<1>2. MultisigTypeOK'
  BY <1>1, RelayerType DEF RelayerNext
<1>3. /\ signers' = [signers EXCEPT ![id] = @ \cup {r}]
      /\ UNCHANGED <<safe, boardVars, actions, transferActions, statusActions, ethVars>>
  BY DEF Sign, safeVars
<1>4. UNCHANGED <<quorum, lastExecutedEthBatchId, executedEthTxs>>
  BY <1>3 DEF boardVars, ethVars
<1>5. ActionsInv'
  <2>1. SafeShape /\ SafeShape' /\ safe'.firstBatchId = safe.firstBatchId
    BY <1>1, <1>3 DEF ActionsInv, SafeShape
  <2> QED BY <1>1, <1>3, <2>1, OtherStepsKeepInv
<1>6. ActionsStay
  BY <1>3 DEF ActionsStay
<1>7. FinalStay /\ AskedLists' = AskedLists
  BY SameEthereum
<1>8. VotesOK'
  <2>1. quorum' = InitialQuorum
    BY <1>1, <1>4 DEF VotesOK
  <2>2. DOMAIN signers = DOMAIN actions
    BY <1>1 DEF MultisigTypeOK
  <2>3. ASSUME NEW j \in DOMAIN actions'
        PROVE  /\ actions'[j].type # "SetStatus"
               /\ \A q \in Honest :
                     q \in signers'[j] => (actions[j] = Nothing \/ Good(actions[j]))'
    <3>1. PICK a : a = actions[j]
      OBVIOUS
    <3>2. a.type # "SetStatus" /\ \A q \in Honest : q \in signers[j] => a = Nothing \/ Good(a)
      BY <1>1, <1>3, <3>1 DEF VotesOK
    <3>3. Good(a) => Good(a)'
      BY <1>7, GoodStays
    <3>4. actions'[j] = a /\ j \in DOMAIN signers
      BY <1>3, <2>2, <3>1
    <3>5. \A q \in Honest : q \in signers'[j] => q \in signers[j] \/ (j = id /\ q = r)
      BY <1>3, <3>4
    <3>6. \A q \in Honest : q \in signers'[j] => a = Nothing \/ Good(a)
      BY <3>1, <3>2, <3>5
    <3> QED BY <3>2, <3>3, <3>4, <3>6 DEF Good
  <2> QED BY <2>1, <2>3 DEF VotesOK
<1>9. ExecutedOK'
  <2>1. Len(batches') = Len(batches)
    BY DEF ethereumVars, erc20Vars, depositVars
  <2> QED BY <1>4, <1>7, <2>1 DEF ExecutedOK, FinalStay
<1> QED BY <1>2, <1>4, <1>5, <1>6, <1>8, <1>9 DEF ContractsInv

\* What is performed is the next batch, whole and final.
LEMMA PerformKeeps ==
    ASSUME EthereumInv, ContractsInv, ExecutedOK, UNCHANGED ethereumVars,
           NEW r \in Relayers, NEW id \in DOMAIN actions, PerformBatchTransfer(r, id)
    PROVE  /\ ContractsInv' /\ ExecutedOK' /\ ActionsStay
           /\ \E transfers \in Seq(EthTransfers) :
                 transfers # <<>> /\ executedEthTxs' = executedEthTxs \o transfers
<1>1. MultisigTypeOK /\ ActionsInv /\ VotesOK
  BY DEF ContractsInv
<1>2. MultisigTypeOK'
  BY <1>1, RelayerType DEF RelayerNext
<1>3. ActionsInv'
  BY <1>1, PerformTransferKeepsInv
<1>4. PICK transfers : transfers = actions[id].transfers
  OBVIOUS
<1>5. /\ MayPerform(r, id) /\ actions[id].type = "BatchTransfer" /\ transfers # <<>>
      /\ \E ids : ClearActions(ids)
      /\ lastExecutedEthBatchId' = lastExecutedEthBatchId + 1
      /\ executedEthTxs' = executedEthTxs \o transfers
      /\ UNCHANGED quorum
  BY <1>4 DEF PerformBatchTransfer, boardVars
<1>6. PICK ids : ClearActions(ids)
  BY <1>5
<1>7. /\ DOMAIN actions' = DOMAIN actions /\ DOMAIN signers = DOMAIN actions
      /\ \A j \in DOMAIN actions :
            \/ actions'[j] = actions[j] /\ signers'[j] = signers[j]
            \/ actions'[j] = Nothing /\ signers'[j] = {}
  <2>1. DOMAIN signers = DOMAIN actions
    BY <1>1 DEF MultisigTypeOK
  <2> QED BY <1>6, <2>1 DEF ClearActions
<1>8. ActionsStay
  BY <1>7 DEF ActionsStay
<1>9. FinalStay /\ AskedLists' = AskedLists /\ Len(batches') = Len(batches)
  BY SameEthereum DEF ethereumVars, erc20Vars, depositVars
<1>10. VotesOK'
  <2>1. quorum' = InitialQuorum
    BY <1>1, <1>5 DEF VotesOK
  <2>2. ASSUME NEW j \in DOMAIN actions'
        PROVE  /\ actions'[j].type # "SetStatus"
               /\ \A q \in Honest :
                     q \in signers'[j] => (actions[j] = Nothing \/ Good(actions[j]))'
    <3>1. PICK a : a = actions[j]
      OBVIOUS
    <3>2. a.type # "SetStatus" /\ \A q \in Honest : q \in signers[j] => a = Nothing \/ Good(a)
      BY <1>1, <1>7, <3>1 DEF VotesOK
    <3>3. Good(a) => Good(a)'
      BY <1>9, GoodStays
    <3>4. CASE actions'[j] = a /\ signers'[j] = signers[j]
      BY <3>2, <3>3, <3>4 DEF Good
    <3>5. CASE actions'[j] = Nothing
      BY <3>5 DEF Nothing
    <3> QED BY <1>7, <3>1, <3>4, <3>5
  <2> QED BY <2>1, <2>2 DEF VotesOK
<1>11. Good(actions[id])
  <2>1. QuorumReached(id) /\ actions[id] # Nothing
    BY <1>5 DEF MayPerform, IsPending
  <2>2. quorum = InitialQuorum
    BY <1>1 DEF VotesOK
  <2>3. PICK q \in Honest : q \in signers[id]
    BY <1>1, <2>1, <2>2, QuorumHasHonest
  <2> QED BY <1>1, <2>1, <2>3 DEF VotesOK
<1> DEFINE last == lastExecutedEthBatchId
<1>12. FinalEthBatch(last + 1) /\ transfers = DepositsOf(last + 1) /\ last \in Nat
  <2>1. actions[id].batchId = last + 1
    BY <1>1, <1>5 DEF ActionsInv, PendingActionsAreCurrent
  <2>2. last \in Nat
    BY <1>1 DEF MultisigTypeOK
  <2> QED BY <1>4, <1>11, <2>1, <2>2 DEF Good
<1>13. last + 1 \in 1 .. Len(batches) /\ last < Len(AskedLists)
       /\ AskedLists \in Seq(Seq(EthTransfers))
       /\ AskedLists[last + 1] = DepositsOf(last + 1) /\ transfers \in Seq(EthTransfers)
  <2>1. last + 1 \in DOMAIN batches
    BY <1>12 DEF FinalEthBatch
  <2>2. last + 1 \in 1 .. Len(batches) /\ Len(batches) \in Nat
    BY <2>1, AskedListsType
  <2> QED BY <1>12, <2>2, AskedListsType
<1>14. FlattenSeq(FrontOf(AskedLists, last + 1)) = executedEthTxs \o transfers
  <2>1. FlattenSeq(FrontOf(AskedLists, last + 1))
           = FlattenSeq(FrontOf(AskedLists, last)) \o AskedLists[last + 1]
    BY <1>12, <1>13, FrontGrows
  <2> QED BY <1>12, <1>13, <2>1 DEF ExecutedOK
<1>15. ExecutedOK'
  <2>1. executedEthTxs' = FlattenSeq(FrontOf(AskedLists', lastExecutedEthBatchId'))
    BY <1>5, <1>9, <1>14
  <2>2. lastExecutedEthBatchId' <= Len(batches')
    BY <1>5, <1>9, <1>13
  <2>3. \A n \in 1 .. lastExecutedEthBatchId' : FinalEthBatch(n)'
    <3> SUFFICES ASSUME NEW n \in 1 .. last + 1 PROVE FinalEthBatch(n)'
      BY <1>5
    <3>1. n \in 1 .. last \/ n = last + 1
      BY <1>12
    <3>2. FinalEthBatch(n)
      BY <1>12, <3>1 DEF ExecutedOK
    <3> QED BY <1>9, <3>2 DEF FinalStay
  <2> QED BY <2>1, <2>2, <2>3 DEF ExecutedOK
<1> QED BY <1>2, <1>3, <1>5, <1>8, <1>10, <1>13, <1>15 DEF ContractsInv


------------------------------------------------------------------------------
(* Steps of the relayers *)

\* What one step does to the transactions under way.
MempoolStep(r) ==
    \/ UNCHANGED mempool
    \/ mempool[r] # <<>> /\ mempool' = [mempool EXCEPT ![r] = Tail(@)]
    \/ \E tx \in Transactions : TxOK(tx) /\ mempool' = [mempool EXCEPT ![r] = Append(@, tx)]

LEMMA MempoolKeeps ==
    ASSUME MempoolOK, FinalStay, ActionsStay, NEW r \in Honest, MempoolStep(r)
    PROVE  MempoolOK'
<1>1. \A tx : TxOK(tx) => TxOK(tx)'
  BY TxStays
<1>2. /\ DOMAIN mempool = Honest
      /\ \A q \in Honest : mempool[q] \in Seq(Transactions)
      /\ \A q \in Honest : \A i \in 1 .. Len(mempool[q]) : TxOK(mempool[q][i])
  BY DEF MempoolOK
<1>3. PICK old \in Seq(Transactions) : old = mempool[r]
  BY <1>2
<1>4. PICK new : new = mempool'[r]
  OBVIOUS
<1>5. DOMAIN mempool' = Honest /\ \A q \in Honest \ {r} : mempool'[q] = mempool[q]
  BY <1>2 DEF MempoolStep
<1>6. new \in Seq(Transactions) /\ \A i \in 1 .. Len(new) : TxOK(new[i])
  <2>1. \A i \in 1 .. Len(old) : TxOK(old[i])
    BY <1>2, <1>3
  <2>2. CASE UNCHANGED mempool
    BY <1>3, <1>4, <2>1, <2>2
  <2>3. CASE mempool[r] # <<>> /\ mempool' = [mempool EXCEPT ![r] = Tail(@)]
    <3>1. new = Tail(old) /\ old # <<>>
      BY <1>2, <1>3, <1>4, <2>3
    <3>2. /\ new \in Seq(Transactions) /\ Len(new) = Len(old) - 1
          /\ \A i \in 1 .. Len(new) : new[i] = old[i + 1]
      BY <3>1, HeadTailProperties
    <3>3. \A i \in 1 .. Len(new) : i + 1 \in 1 .. Len(old)
      BY <3>2
    <3> QED BY <2>1, <3>2, <3>3
  <2>4. CASE \E tx \in Transactions : TxOK(tx) /\ mempool' = [mempool EXCEPT ![r] = Append(@, tx)]
    <3>1. PICK tx \in Transactions : TxOK(tx) /\ mempool' = [mempool EXCEPT ![r] = Append(@, tx)]
      BY <2>4
    <3>2. new = Append(old, tx)
      BY <1>2, <1>3, <1>4, <3>1
    <3>3. /\ new \in Seq(Transactions) /\ Len(new) = Len(old) + 1 /\ new[Len(old) + 1] = tx
          /\ \A i \in 1 .. Len(old) : new[i] = old[i]
      BY <3>2, AppendProperties
    <3>4. \A i \in 1 .. Len(new) : i \in 1 .. Len(old) \/ i = Len(old) + 1
      BY <3>3
    <3> QED BY <2>1, <3>1, <3>3, <3>4
  <2> QED BY <2>2, <2>3, <2>4 DEF MempoolStep
<1>7. ASSUME NEW q \in Honest
      PROVE  mempool'[q] \in Seq(Transactions) /\ \A i \in 1 .. Len(mempool'[q]) : TxOK(mempool[q][i])'
  <2>1. PICK m : m = mempool'[q]
    OBVIOUS
  <2>2. m \in Seq(Transactions) /\ \A i \in 1 .. Len(m) : TxOK(m[i])
    BY <1>2, <1>4, <1>5, <1>6, <2>1
  <2>3. \A i \in 1 .. Len(m) : TxOK(m[i])'
    BY <1>1, <2>2
  <2> QED BY <2>1, <2>2, <2>3 DEF TxOK
<1> QED BY <1>5, <1>7 DEF MempoolOK

\* What one step does to the executors.
ExecutorStep(r) ==
    \/ UNCHANGED executor
    \/ \E e : ExecutorOK(e) /\ executor' = [executor EXCEPT ![r] = e]

LEMMA ExecutorsKeep ==
    ASSUME ExecutorsOK, FinalStay, NEW r \in Honest, ExecutorStep(r)
    PROVE  ExecutorsOK'
<1>1. ASSUME NEW e, ExecutorOK(e) PROVE ExecutorOK(e)'
  BY <1>1 DEF ExecutorOK, ReadBatch, FinalStay
<1>2. DOMAIN executor' = Honest
  BY DEF ExecutorsOK, ExecutorStep
<1>3. ASSUME NEW q \in Honest PROVE ExecutorOK(executor[q])'
  <2>1. PICK e : e = executor'[q]
    OBVIOUS
  <2>2. ExecutorOK(e)
    BY <2>1 DEF ExecutorsOK, ExecutorStep
  <2>3. ExecutorOK(e)'
    BY <1>1, <2>2
  <2> QED BY <2>1, <2>3 DEF ExecutorOK
<1> QED BY <1>2, <1>3 DEF ExecutorsOK

LEMMA BecomeKeeps ==
    ASSUME NEW r \in Honest, NEW e, NEW s \in Steps, Become(r, e, s),
           DOMAIN e = ExecutorFields, e.actionID \in Nat,
           e.quorumRetriesOnMultiversX \in 0 .. MaxQuorumRetriesOnMultiversX,
           ReadBatch(e.batch) \/ (e.batch = NoBatch /\ s = FirstStep)
    PROVE  ExecutorStep(r)
<1>1. PICK new : new = [e EXCEPT !.step = s]
  OBVIOUS
<1>2. /\ DOMAIN new = ExecutorFields /\ new.step = s /\ new.actionID = e.actionID
      /\ new.quorumRetriesOnMultiversX = e.quorumRetriesOnMultiversX /\ new.batch = e.batch
  BY <1>1 DEF ExecutorFields
<1>3. ExecutorOK(new)
  BY <1>2 DEF ExecutorOK
<1> QED BY <1>1, <1>3 DEF ExecutorStep, Become


\* What a relayer reads of a final batch are its deposits.
LEMMA ReadFromEthereum ==
    ASSUME NEW n, FinalEthBatch(n)
    PROVE  ReadBatch(GetBatch(n))
<1> DEFINE list == [i \in DOMAIN batches[n].deposits |->
            DepositTransfer(batches[n].deposits[i].nonce, batches[n].deposits[i].recipient,
                            ConvertToEsdt(batches[n].deposits[i].token),
                            batches[n].deposits[i].amount)]
<1>1. GetBatch(n).id = n /\ GetBatch(n).deposits = list
  BY DEF GetBatch, TransferBatch
<1>2. BatchInfo(GetBatch(n)) = DepositsOf(n)
  BY <1>1 DEF BatchInfo, DepositsOf, DepositTransfer
<1> QED BY <1>1, <1>2 DEF ReadBatch

\* The action that the contract knows for what a relayer has read is a good one.
LEMMA FoundIsGood ==
    ASSUME ContractsInv, NEW b, ReadBatch(b),
           NEW id, id = GetActionIDForProposeTransfer(b)
    PROVE  /\ id \in Nat
           /\ id # InvalidActionID => id \in DOMAIN actions /\ Good(actions[id])
<1>1. MultisigTypeOK /\ MappingsMatchActions
  BY DEF ContractsInv, ActionsInv
<1>2. CASE ProposedTransfers(b) = {}
  BY <1>2 DEF GetActionIDForProposeTransfer, OptionalId, ParseUint64, InvalidActionID
<1>3. CASE ProposedTransfers(b) # {}
  <2>1. PICK m : m = CHOOSE x \in ProposedTransfers(b) : TRUE
    OBVIOUS
  <2>2. m \in ProposedTransfers(b)
    BY <1>3, <2>1
  <2>3. m \in transferActions /\ m.batchId = b.id /\ m.transfers = BatchInfo(b)
    BY <2>2 DEF ProposedTransfers
  <2>4. id = m.actionId
    BY <1>3, <2>1 DEF GetActionIDForProposeTransfer, OptionalId, ParseUint64
  <2>5. id \in Nat
    BY <1>1, <2>3, <2>4 DEF MultisigTypeOK
  <2>6. id \in DOMAIN actions /\ actions[id] = BatchTransfer(b.id, BatchInfo(b))
    BY <1>1, <2>3, <2>4 DEF MappingsMatchActions
  <2> QED BY <2>5, <2>6 DEF Good, ReadBatch, BatchTransfer
<1> QED BY <1>2, <1>3

LEMMA SendKeeps ==
    ASSUME NEW r, NEW type \in {"propose", "sign", "perform"}, NEW id \in Nat,
           NEW args \in Seq(EthTransfers),
           type = "propose" => FinalEthBatch(id) /\ args = DepositsOf(id),
           type = "sign" => id \in DOMAIN actions /\ (actions[id] = Nothing \/ Good(actions[id])),
           Send(r, [type |-> type, id |-> id, args |-> args])
    PROVE  MempoolStep(r)
<1>1. PICK tx : tx = [type |-> type, id |-> id, args |-> args]
  OBVIOUS
<1>2. tx \in Transactions /\ tx.type = type /\ tx.id = id /\ tx.args = args
  BY <1>1 DEF Transactions
<1>3. TxOK(tx)
  BY <1>2 DEF TxOK
<1>4. mempool' = [mempool EXCEPT ![r] = Append(@, tx)]
  BY <1>1 DEF Send
<1> QED BY <1>2, <1>3, <1>4 DEF MempoolStep

LEMMA RelayerSteps ==
    ASSUME HalfBridgeInv, NEW r \in Honest,
           RelayerStep(r) \/ ProposeAsLeader(r) \/ PerformAsLeader(r)
    PROVE  ExecutorStep(r) /\ MempoolStep(r)
<1> DEFINE e == executor[r]
<1>1. /\ DOMAIN e = ExecutorFields /\ e.step \in Steps /\ e.actionID \in Nat
      /\ e.quorumRetriesOnMultiversX \in 0 .. MaxQuorumRetriesOnMultiversX
      /\ ReadBatch(e.batch) \/ (e.batch = NoBatch /\ e.step = FirstStep)
  BY DEF HalfBridgeInv, RelayersInv, ExecutorsOK, ExecutorOK
<1>2. MaxQuorumRetriesOnMultiversX \in Nat
  BY BridgeExecutorAssumption
<1>3. ContractsInv /\ EthereumInv
  BY DEF HalfBridgeInv
<1>4. UNCHANGED mempool => MempoolStep(r)
  BY DEF MempoolStep
<1>5. \A s \in Steps : GoTo(r, s) /\ (e.step # FirstStep \/ s = FirstStep) => ExecutorStep(r)
  BY <1>1, BecomeKeeps DEF GoTo
<1>6. FirstStep \in Steps /\ "VerifyingDepositNonces" \in Steps
      /\ "ProposingTransferOnMultiversX" \in Steps /\ "SigningProposedTransferOnMultiversX" \in Steps
      /\ "WaitingForQuorum" \in Steps /\ "PerformingActionID" \in Steps
  BY DEF Steps, FirstStep
<1>7. CASE GetPending(r)
  <2>1. PICK n : n = GetLastExecutedEthBatchID + 1
    OBVIOUS
  <2>2. PICK reset : reset = ResetRetriesCountOnMultiversX(e)
    OBVIOUS
  <2>3. /\ DOMAIN reset = ExecutorFields /\ reset.actionID = e.actionID
        /\ reset.quorumRetriesOnMultiversX = 0 /\ reset.batch = e.batch
    BY <1>1, <2>2 DEF ResetRetriesCountOnMultiversX, ExecutorFields
  <2>4. UNCHANGED mempool
    BY <1>7 DEF GetPending
  <2>5. CASE BatchFromEthereum(n) /\ Become(r, StoreBatch(reset, GetBatch(n)), "VerifyingDepositNonces")
    <3>1. PICK b : b = GetBatch(n)
      OBVIOUS
    <3>2. ReadBatch(b)
      BY <2>5, <3>1, ReadFromEthereum DEF BatchFromEthereum
    <3>3. PICK new : new = StoreBatch(reset, b)
      OBVIOUS
    <3>4. /\ DOMAIN new = ExecutorFields /\ new.actionID = e.actionID
          /\ new.quorumRetriesOnMultiversX = 0 /\ new.batch = b
      BY <2>3, <3>3 DEF StoreBatch, ExecutorFields
    <3>5. Become(r, new, "VerifyingDepositNonces")
      BY <2>5, <3>1, <3>3
    <3>6. new.actionID \in Nat /\ ReadBatch(new.batch)
          /\ new.quorumRetriesOnMultiversX \in 0 .. MaxQuorumRetriesOnMultiversX
      BY <1>1, <1>2, <3>2, <3>4
    <3> QED BY <1>4, <1>6, <2>4, <3>4, <3>5, <3>6, BecomeKeeps
  <2>6. CASE Become(r, reset, FirstStep)
    <3>1. e.step = FirstStep
      BY <1>7 DEF GetPending, At
    <3>2. reset.actionID \in Nat /\ (ReadBatch(reset.batch) \/ reset.batch = NoBatch)
          /\ reset.quorumRetriesOnMultiversX \in 0 .. MaxQuorumRetriesOnMultiversX
      BY <1>1, <1>2, <2>3
    <3> QED BY <1>4, <1>6, <2>3, <2>4, <2>6, <3>2, BecomeKeeps
  <2> QED BY <1>7, <2>1, <2>2, <2>5, <2>6 DEF GetPending
<1>8. CASE VerifyLastDepositNonce(r)
  BY <1>4, <1>5, <1>6, <1>8 DEF VerifyLastDepositNonce, At, FirstStep
<1>9. CASE FindProposal(r)
  BY <1>4, <1>5, <1>6, <1>9 DEF FindProposal, At, FirstStep
<1>10. CASE ProposeAsLeader(r)
  <2>1. e.step = "ProposingTransferOnMultiversX"
    BY <1>10 DEF ProposeAsLeader, At
  <2>2. CASE GoTo(r, FirstStep) /\ UNCHANGED mempool
    BY <1>4, <1>5, <1>6, <2>2
  <2>3. CASE /\ ProposeTransferOnMultiversX(r)
             /\ GoTo(r, "SigningProposedTransferOnMultiversX")
    <3>1. ReadBatch(e.batch)
      BY <1>1, <2>1 DEF FirstStep
    <3>2. FinalEthBatch(e.batch.id) /\ BatchInfo(e.batch) = DepositsOf(e.batch.id)
      BY <3>1 DEF ReadBatch
    <3>3. e.batch.id \in Nat /\ DepositsOf(e.batch.id) \in Seq(EthTransfers)
      <4>1. e.batch.id \in 1 .. Len(batches) /\ Len(batches) \in Nat
        BY <1>3, <3>2, AskedListsType DEF FinalEthBatch
      <4> QED BY <1>3, <4>1, AskedListsType
    <3>4. Send(r, [type |-> "propose", id |-> e.batch.id, args |-> BatchInfo(e.batch)])
      BY <2>3 DEF ProposeTransferOnMultiversX, ProposeTransfer
    <3>5. MempoolStep(r)
      BY <3>2, <3>3, <3>4, SendKeeps
    <3> QED BY <1>5, <1>6, <2>1, <2>3, <3>5 DEF FirstStep
  <2> QED BY <1>10, <2>2, <2>3 DEF ProposeAsLeader
<1>11. CASE SignProposedTransfer(r)
  <2>1. e.step = "SigningProposedTransferOnMultiversX" /\ ReadBatch(e.batch)
    BY <1>1, <1>11 DEF SignProposedTransfer, At, FirstStep
  <2>2. PICK id : id = GetActionIDForProposeTransfer(e.batch)
    OBVIOUS
  <2>3. id \in Nat /\ (id # InvalidActionID => id \in DOMAIN actions /\ Good(actions[id]))
    BY <1>3, <2>1, <2>2, FoundIsGood
  <2>4. PICK new : new = StoreActionIDForProposeTransfer(e)
    OBVIOUS
  <2>5. /\ DOMAIN new = ExecutorFields /\ new.actionID = id
        /\ new.quorumRetriesOnMultiversX = e.quorumRetriesOnMultiversX /\ new.batch = e.batch
    BY <1>1, <2>2, <2>4 DEF StoreActionIDForProposeTransfer, ExecutorFields
  <2>6. new.actionID \in Nat /\ ReadBatch(new.batch)
        /\ new.quorumRetriesOnMultiversX \in 0 .. MaxQuorumRetriesOnMultiversX
    BY <1>1, <2>1, <2>3, <2>5
  <2>7. \A s \in Steps : Become(r, new, s) => ExecutorStep(r)
    BY <2>5, <2>6, BecomeKeeps
  <2>8. /\ Become(r, new, FirstStep) \/ Become(r, new, "WaitingForQuorum")
        /\ UNCHANGED mempool
           \/ (new.actionID # InvalidActionID /\ SignActionOnMultiversX(r, new.actionID))
    BY <1>11, <2>4 DEF SignProposedTransfer
  <2>9. ASSUME new.actionID # InvalidActionID, SignActionOnMultiversX(r, new.actionID)
        PROVE  MempoolStep(r)
    <3>1. Send(r, [type |-> "sign", id |-> id, args |-> <<>>])
      BY <2>5, <2>9 DEF SignActionOnMultiversX, SignAction
    <3>2. id \in DOMAIN actions /\ Good(actions[id]) /\ <<>> \in Seq(EthTransfers)
      BY <2>3, <2>5, <2>9
    <3> QED BY <2>3, <3>1, <3>2, SendKeeps
  <2> QED BY <1>4, <1>6, <2>7, <2>8, <2>9
<1>12. CASE WaitForQuorum(r)
  <2>1. e.step = "WaitingForQuorum" /\ ReadBatch(e.batch) /\ UNCHANGED mempool
    BY <1>1, <1>12 DEF WaitForQuorum, At, FirstStep
  <2>2. CASE GoTo(r, FirstStep)
    BY <1>4, <1>5, <1>6, <2>1, <2>2
  <2>3. CASE /\ ~MaxQuorumRetriesOnMultiversXReached(e)
             /\ \E s \in Steps : Become(r, CountQuorumRetryOnMultiversX(e), s)
    <3>1. PICK new : new = CountQuorumRetryOnMultiversX(e)
      OBVIOUS
    <3>2. /\ DOMAIN new = ExecutorFields /\ new.actionID = e.actionID
          /\ new.quorumRetriesOnMultiversX = e.quorumRetriesOnMultiversX + 1 /\ new.batch = e.batch
      BY <1>1, <3>1 DEF CountQuorumRetryOnMultiversX, ExecutorFields
    <3>3. e.quorumRetriesOnMultiversX + 1 \in 0 .. MaxQuorumRetriesOnMultiversX
      <4>1. ~(e.quorumRetriesOnMultiversX >= MaxQuorumRetriesOnMultiversX)
        BY <2>3 DEF MaxQuorumRetriesOnMultiversXReached
      <4> HIDE DEF e
      <4> QED BY <1>1, <1>2, <4>1
    <3>4. PICK s \in Steps : Become(r, new, s)
      BY <2>3, <3>1
    <3>5. new.actionID \in Nat /\ ReadBatch(new.batch)
          /\ new.quorumRetriesOnMultiversX \in 0 .. MaxQuorumRetriesOnMultiversX
      BY <1>1, <2>1, <3>2, <3>3
    <3> QED BY <1>4, <2>1, <3>2, <3>4, <3>5, BecomeKeeps
  <2> QED BY <1>6, <1>12, <2>2, <2>3 DEF WaitForQuorum
<1>13. CASE FindPerformed(r)
  BY <1>4, <1>5, <1>6, <1>13 DEF FindPerformed
<1>14. CASE PerformAsLeader(r)
  <2>1. CASE GoTo(r, FirstStep) /\ UNCHANGED mempool
    BY <1>4, <1>5, <1>6, <2>1
  <2>2. CASE PerformActionOnMultiversX(r) /\ UNCHANGED executor
    <3>1. Send(r, [type |-> "perform", id |-> e.actionID, args |-> <<>>])
      BY <2>2 DEF PerformActionOnMultiversX, PerformAction
    <3>2. <<>> \in Seq(EthTransfers)
      OBVIOUS
    <3>3. MempoolStep(r)
      BY <1>1, <3>1, <3>2, SendKeeps
    <3> QED BY <2>2, <3>3 DEF ExecutorStep
  <2> QED BY <1>14, <2>1, <2>2 DEF PerformAsLeader
<1> QED BY <1>7, <1>8, <1>9, <1>10, <1>11, <1>12, <1>13, <1>14 DEF RelayerStep


------------------------------------------------------------------------------
(* The steps of the half bridge *)

\* A step of the contracts executes nothing, or some more transfers.
Pays ==
    \/ UNCHANGED executedEthTxs
    \/ \E transfers \in Seq(EthTransfers) :
          transfers # <<>> /\ executedEthTxs' = executedEthTxs \o transfers

\* The contracts do nothing, or are paused.
LEMMA ContractsRest ==
    ASSUME EthereumInv, ContractsInv, ExecutedOK, EthereumInv', FinalStay,
           Len(batches) <= Len(batches'),
           UNCHANGED vars \/ MultisigSetPaused
    PROVE  ContractsInv' /\ ExecutedOK' /\ ActionsStay /\ Pays
<1>1. MultisigTypeOK /\ ActionsInv /\ VotesOK
  BY DEF ContractsInv
<1>2. /\ UNCHANGED <<safe, quorum, actions, signers, transferActions, statusActions, ethVars,
                     lastExecutedEthBatchId, executedEthTxs, boardVars>>
      /\ multisigPaused' = multisigPaused \/ multisigPaused' = ~multisigPaused
  BY DEF MultisigSetPaused, vars, safeVars, multisigVars, boardVars, actionVars, ethVars
<1>3. MultisigTypeOK'
  BY <1>1, <1>2 DEF MultisigTypeOK, boardVars, ethVars
<1>4. ActionsInv'
  <2>1. SafeShape' /\ safe'.firstBatchId = safe.firstBatchId
    BY <1>1, <1>2 DEF ActionsInv, SafeShape
  <2> QED BY <1>1, <1>2, <2>1, OtherStepsKeepInv
<1>5. VotesOK'
  <2>1. ASSUME NEW id \in DOMAIN actions'
        PROVE  /\ actions'[id].type # "SetStatus"
               /\ \A q \in Honest :
                     q \in signers'[id] => (actions[id] = Nothing \/ Good(actions[id]))'
    <3>1. PICK a : a = actions[id]
      OBVIOUS
    <3>2. a.type # "SetStatus" /\ \A q \in Honest : q \in signers[id] => a = Nothing \/ Good(a)
      BY <1>1, <1>2, <3>1 DEF VotesOK
    <3>3. Good(a) => Good(a)'
      BY GoodStays
    <3> QED BY <1>2, <3>1, <3>2, <3>3 DEF Good
  <2> QED BY <1>1, <1>2, <2>1 DEF VotesOK
<1>6. ExecutedOK'
  <2> DEFINE k == lastExecutedEthBatchId
  <2>1. k \in Nat /\ k <= Len(batches) /\ k <= Len(batches')
        /\ Len(batches) \in Nat /\ Len(batches') \in Nat
    <3>1. batches \in Seq(Batch) /\ batches' \in Seq(Batch)
      BY DEF EthereumInv, ERC20SafeTypeOK
    <3>2. k \in Nat /\ k <= Len(batches)
      BY <1>1 DEF MultisigTypeOK, ExecutedOK
    <3> QED BY <3>1, <3>2
  <2>2. \A n \in 1 .. k : FinalEthBatch(n) /\ FinalEthBatch(n)' /\ DepositsOf(n)' = DepositsOf(n)
    BY DEF ExecutedOK, FinalStay
  <2>3. \A n \in 1 .. k : AskedLists[n] = DepositsOf(n) /\ AskedLists'[n] = DepositsOf(n)'
    BY <2>2 DEF AskedLists, FinalEthBatch
  <2>4. FrontOf(AskedLists', k) = FrontOf(AskedLists, k)
    BY <2>2, <2>3 DEF FrontOf
  <2>5. executedEthTxs' = FlattenSeq(FrontOf(AskedLists', lastExecutedEthBatchId'))
    BY <1>2, <2>4 DEF ExecutedOK
  <2> QED BY <1>2, <2>1, <2>2, <2>5 DEF ExecutedOK
<1> QED BY <1>2, <1>3, <1>4, <1>5, <1>6 DEF ContractsInv, ActionsStay, Pays

\* A relayer's transaction is executed.
LEMMA CallKeeps ==
    ASSUME EthereumInv, ContractsInv, ExecutedOK, UNCHANGED ethereumVars,
           NEW r \in Honest, NEW tx \in Transactions, TxOK(tx), Calls(r, tx)
    PROVE  ContractsInv' /\ ExecutedOK' /\ ActionsStay /\ Pays
<1>1. r \in Relayers /\ tx.type # "setStatus" /\ tx.id \in Nat /\ tx.args \in Seq(EthTransfers)
  BY DEF Honest, Transactions
<1>2. CASE tx.type = "propose" /\ ProposeMultiTransferEsdtBatch(r, tx.id, tx.args)
  <2>1. FinalEthBatch(tx.id) /\ tx.args = DepositsOf(tx.id)
    BY <1>2 DEF TxOK
  <2> QED BY <1>1, <1>2, <2>1, ProposeKeeps DEF Pays
<1>3. CASE tx.type = "sign" /\ Sign(r, tx.id)
  <2>1. tx.id \in DOMAIN actions /\ (actions[tx.id] = Nothing \/ Good(actions[tx.id]))
    BY <1>3 DEF TxOK
  <2> QED BY <1>1, <1>3, <2>1, SignKeeps DEF Pays
<1>4. CASE tx.type = "perform" /\ PerformBatchTransfer(r, tx.id)
  <2>1. tx.id \in DOMAIN actions
    BY <1>4 DEF PerformBatchTransfer, MayPerform, IsPending
  <2> QED BY <1>1, <1>4, <2>1, PerformKeeps DEF Pays
<1>5. CASE PerformSetStatus(r, tx.id)
  <2>1. tx.id \in DOMAIN actions /\ actions[tx.id].type = "SetStatus"
    BY <1>5 DEF PerformSetStatus, MayPerform, IsPending
  <2> QED BY <2>1 DEF ContractsInv, VotesOK
<1> QED BY <1>1, <1>2, <1>3, <1>4, <1>5 DEF Calls

\* A relayer that follows no program calls the multisig.
LEMMA FaultyCallKeeps ==
    ASSUME EthereumInv, ContractsInv, ExecutedOK, UNCHANGED ethereumVars,
           NEW r \in Faulty, FaultyCall(r)
    PROVE  ContractsInv' /\ ExecutedOK' /\ ActionsStay /\ Pays
<1>1. r \in Relayers /\ r \notin Honest
  BY MultiversXClientAssumption DEF Honest
<1>2. CASE \E transfers \in Lists(EthTransfers, MaxTransfers) :
              ProposeMultiTransferEsdtBatch(r, lastExecutedEthBatchId + 1, transfers)
  <2>1. PICK transfers \in Lists(EthTransfers, MaxTransfers) :
              ProposeMultiTransferEsdtBatch(r, lastExecutedEthBatchId + 1, transfers)
    BY <1>2
  <2>2. transfers \in Seq(EthTransfers)
    BY MultisigAssumption, ListsAreSequences
  <2>3. lastExecutedEthBatchId + 1 \in Nat
    BY DEF ContractsInv, MultisigTypeOK
  <2> QED BY <1>1, <2>1, <2>2, <2>3, ProposeKeeps DEF Pays
<1>3. CASE \E id \in DOMAIN actions : Sign(r, id)
  BY <1>1, <1>3, SignKeeps DEF Pays
<1>4. CASE \E id \in DOMAIN actions : PerformBatchTransfer(r, id)
  BY <1>1, <1>4, PerformKeeps DEF Pays
<1> QED BY <1>2, <1>3, <1>4 DEF FaultyCall

\* What a step does to the two chains.
ChainStep == EthereumNext \/ (UNCHANGED ethereumVars /\ Pays)

LEMMA HalfBridgeStep ==
    ASSUME HalfBridgeInv, [HalfBridgeNext]_halfVars
    PROVE  HalfBridgeInv' /\ ChainStep
<1>1. EthereumInv /\ ContractsInv /\ ExecutedOK /\ ExecutorsOK /\ MempoolOK
      /\ failures \in 0 .. MaxFailures /\ MaxFailures \in Nat
  BY BridgeExecutorAssumption DEF HalfBridgeInv, RelayersInv
<1>2. ASSUME UNCHANGED ethereumVars
      PROVE  EthereumInv' /\ FinalStay /\ Len(batches) <= Len(batches')
  <2>1. Len(batches) \in Nat /\ Len(batches') = Len(batches)
    BY <1>1, <1>2, AskedListsType DEF ethereumVars, erc20Vars, depositVars
  <2> QED BY <1>1, <1>2, <2>1, SameEthereum
<1>3. ASSUME UNCHANGED chainVars
      PROVE  /\ EthereumInv' /\ FinalStay /\ ContractsInv' /\ ExecutedOK' /\ ActionsStay
             /\ ChainStep
  <2>1. UNCHANGED ethereumVars /\ UNCHANGED vars
    BY <1>3 DEF chainVars
  <2> QED BY <1>1, <1>2, <2>1, ContractsRest DEF ChainStep
<1>4. ASSUME UNCHANGED <<mempool, executor, failures>>, FinalStay, ActionsStay
      PROVE  RelayersInv'
  <2>1. CASE Honest # {}
    <3>1. PICK r \in Honest : TRUE
      BY <2>1
    <3>2. ExecutorStep(r) /\ MempoolStep(r)
      BY <1>4 DEF ExecutorStep, MempoolStep
    <3> QED BY <1>1, <1>4, <3>2, ExecutorsKeep, MempoolKeeps DEF RelayersInv
  <2>2. CASE Honest = {}
    BY <1>1, <1>4, <2>2 DEF RelayersInv, ExecutorsOK, MempoolOK
  <2> QED BY <2>1, <2>2
<1>5. CASE UNCHANGED halfVars
  BY <1>3, <1>4, <1>5 DEF halfVars, HalfBridgeInv
<1>6. CASE EthereumNext
  <2>1. UNCHANGED <<vars, mempool, executor, failures>>
    BY <1>6 DEF EthereumNext
  <2>2. EthereumInv' /\ FinalStay
    BY <1>1, <1>6, EthereumKeeps
  <2>3. Len(batches) <= Len(batches')
    <3>1. BatchesStep /\ ERC20SafeTypeOK
      BY <1>1, <1>6, EthereumStep DEF EthereumInv
    <3>2. Len(batches) \in Nat
      BY <1>1, AskedListsType
    <3>3. CASE UNCHANGED depositVars
      BY <3>2, <3>3 DEF depositVars
    <3>4. CASE DepositMade
      <4>1. PICK b \in Batch, new \in Deposit : BatchAdded(b, new) \/ BatchExtended(b, new)
        BY <3>1, <3>4, DepositStep
      <4> QED BY <3>2, <4>1 DEF BatchAdded, BatchExtended
    <3> QED BY <3>1, <3>3, <3>4 DEF BatchesStep
  <2>4. ContractsInv' /\ ExecutedOK' /\ ActionsStay
    BY <1>1, <2>1, <2>2, <2>3, ContractsRest
  <2> QED BY <1>4, <1>6, <2>1, <2>2, <2>4 DEF HalfBridgeInv, ChainStep
<1>7. CASE RelayersNext
  <2>1. PICK r \in Honest :
        \/ /\ RelayerStep(r) \/ ProposeAsLeader(r) \/ PerformAsLeader(r)
           /\ UNCHANGED <<chainVars, clientVars, failures>>
        \/ /\ \/ StepFails(r, FirstStep)
              \/ RefusePending(r)
              \/ Restart(r, FirstStep)
              \/ LoseTransaction(r)
           /\ UNCHANGED chainVars
    BY <1>7 DEF RelayersNext
  <2>2. UNCHANGED chainVars
    BY <2>1
  <2>3. EthereumInv' /\ FinalStay /\ ContractsInv' /\ ExecutedOK' /\ ActionsStay /\ ChainStep
    BY <1>3, <2>2
  <2>4. failures' \in 0 .. MaxFailures
    BY <1>1, <2>1 DEF StepFails, RefusePending, RefuseBatch, Restart, LoseTransaction, Fails
  <2>5. ExecutorStep(r) /\ MempoolStep(r)
    <3> DEFINE e == executor[r]
    <3>1. /\ DOMAIN e = ExecutorFields /\ e.actionID \in Nat /\ MaxQuorumRetriesOnMultiversX \in Nat
          /\ e.quorumRetriesOnMultiversX \in 0 .. MaxQuorumRetriesOnMultiversX
          /\ ReadBatch(e.batch) \/ e.batch = NoBatch
      BY <1>1, BridgeExecutorAssumption DEF ExecutorsOK, ExecutorOK
    <3>2. FirstStep \in Steps
      BY DEF FirstStep, Steps
    <3>3. CASE RelayerStep(r) \/ ProposeAsLeader(r) \/ PerformAsLeader(r)
      BY <3>3, RelayerSteps
    <3>4. CASE StepFails(r, FirstStep)
      BY <3>1, <3>2, <3>4, BecomeKeeps DEF StepFails, GoTo, MempoolStep
    <3>5. CASE RefusePending(r)
      <4>1. PICK b : b = GetBatch(GetLastExecutedEthBatchID + 1)
        OBVIOUS
      <4>2. ReadBatch(b)
        BY <3>5, <4>1, ReadFromEthereum DEF RefusePending, BatchFromEthereum
      <4>3. PICK new : new = StoreBatch(ResetRetriesCountOnMultiversX(e), b)
        OBVIOUS
      <4>4. /\ DOMAIN new = ExecutorFields /\ new.actionID = e.actionID
            /\ new.quorumRetriesOnMultiversX = 0 /\ new.batch = b
        BY <3>1, <4>3 DEF StoreBatch, ResetRetriesCountOnMultiversX, ExecutorFields
      <4>5. Become(r, new, FirstStep) /\ UNCHANGED mempool
        BY <3>5, <4>1, <4>3 DEF RefusePending, RefuseBatch
      <4>6. new.actionID \in Nat /\ ReadBatch(new.batch)
            /\ new.quorumRetriesOnMultiversX \in 0 .. MaxQuorumRetriesOnMultiversX
        BY <3>1, <4>2, <4>4
      <4> QED BY <3>2, <4>4, <4>5, <4>6, BecomeKeeps DEF MempoolStep
    <3>6. CASE Restart(r, FirstStep)
      <4>1. PICK new : new = NewExecutor(FirstStep)
        OBVIOUS
      <4>2. ExecutorOK(new)
        BY <3>1, <3>2, <4>1 DEF NewExecutor, ExecutorOK, ExecutorFields, InvalidActionID
      <4> QED BY <3>6, <4>1, <4>2 DEF Restart, ExecutorStep, MempoolStep
    <3>7. CASE LoseTransaction(r)
      BY <3>7 DEF LoseTransaction, ExecutorStep, MempoolStep
    <3> QED BY <2>1, <3>3, <3>4, <3>5, <3>6, <3>7
  <2>6. RelayersInv'
    BY <1>1, <2>3, <2>4, <2>5, ExecutorsKeep, MempoolKeeps DEF RelayersInv
  <2> QED BY <2>3, <2>6 DEF HalfBridgeInv
<1>8. ASSUME NEW r \in Honest, NetworkNext(r)
      PROVE  HalfBridgeInv' /\ ChainStep
  <2>1. /\ mempool[r] # <<>> /\ mempool' = [mempool EXCEPT ![r] = Tail(@)]
        /\ UNCHANGED <<ethereumVars, executor, failures>>
        /\ Calls(r, Head(mempool[r])) \/ UNCHANGED vars
    BY <1>8 DEF NetworkNext, ExecuteTransaction
  <2>2. PICK tx : tx = Head(mempool[r])
    OBVIOUS
  <2>3. tx \in Transactions /\ TxOK(tx)
    <3>1. mempool[r] \in Seq(Transactions) /\ \A i \in 1 .. Len(mempool[r]) : TxOK(mempool[r][i])
      BY <1>1 DEF MempoolOK
    <3>2. 1 \in 1 .. Len(mempool[r]) /\ tx = mempool[r][1]
      BY <2>1, <2>2, <3>1
    <3> QED BY <3>1, <3>2, ElementOfSeq
  <2>4. EthereumInv' /\ FinalStay /\ Len(batches) <= Len(batches')
    BY <1>2, <2>1
  <2>5. ContractsInv' /\ ExecutedOK' /\ ActionsStay /\ Pays
    BY <1>1, <2>1, <2>2, <2>3, <2>4, CallKeeps, ContractsRest
  <2>6. ExecutorStep(r) /\ MempoolStep(r)
    BY <2>1 DEF ExecutorStep, MempoolStep
  <2>7. RelayersInv'
    BY <1>1, <2>1, <2>4, <2>5, <2>6, ExecutorsKeep, MempoolKeeps DEF RelayersInv
  <2> QED BY <2>1, <2>4, <2>5, <2>7 DEF HalfBridgeInv, ChainStep
<1>9. CASE /\ \/ \E r \in Faulty : FaultyCall(r)
              \/ "multisigPaused" \in Switches /\ MultisigSetPaused
           /\ UNCHANGED <<ethereumVars, mempool, clientVars, executor, failures>>
  <2>1. EthereumInv' /\ FinalStay /\ Len(batches) <= Len(batches')
    BY <1>2, <1>9
  <2>2. ContractsInv' /\ ExecutedOK' /\ ActionsStay /\ Pays
    BY <1>1, <1>9, <2>1, FaultyCallKeeps, ContractsRest
  <2>3. RelayersInv'
    BY <1>4, <1>9, <2>1, <2>2
  <2> QED BY <1>9, <2>1, <2>2, <2>3 DEF HalfBridgeInv, ChainStep
<1> QED BY <1>5, <1>6, <1>7, <1>8, <1>9 DEF HalfBridgeNext


LEMMA HalfBridgeStarts == HalfBridgeInit => HalfBridgeInv
<1> SUFFICES ASSUME HalfBridgeInit PROVE HalfBridgeInv
  OBVIOUS
<1>1. /\ ContractsDeployed(TRUE) /\ ERC20SafeDeployed(TRUE, 0)
      /\ executor = [r \in Honest |-> NewExecutor(FirstStep)]
      /\ mempool = [r \in Honest |-> <<>>]
      /\ failures = 0
  BY DEF HalfBridgeInit, BridgeInit, ContractsDeployed, MultiversXClientInit
<1>2. EthereumInv
  <2>1. ERC20SafeTypeOK
    BY <1>1, DeployedSafeType
  <2>2. LimitsOrdered /\ BatchesInTime /\ DepositsBridgeable
    BY <1>1, ERC20SafeAssumption
    DEF ERC20SafeDeployed, LimitsOrdered, BatchesInTime, DepositsBridgeable
  <2> QED BY <2>1, <2>2 DEF EthereumInv
<1>3. /\ quorum = InitialQuorum /\ actions = <<>> /\ lastExecutedEthBatchId = 0
      /\ executedEthTxs = <<>> /\ batches = <<>>
  BY <1>1 DEF ContractsDeployed, MultisigDeployed, ERC20SafeDeployed
<1>4. ContractsInv
  <2>1. MultisigTypeOK /\ ActionsInv
    BY <1>1, InitType, InitActionsInv
  <2>2. VotesOK
    BY <1>3 DEF VotesOK
  <2> QED BY <2>1, <2>2 DEF ContractsInv
<1>5. ExecutedOK
  <2>1. FrontOf(AskedLists, 0) = <<>>
    BY DEF FrontOf
  <2>2. FlattenSeq(<<>>) = <<>>
    BY FlattenNone
  <2> QED BY <1>3, <2>1, <2>2 DEF ExecutedOK
<1>6. RelayersInv
  <2>1. ExecutorOK(NewExecutor(FirstStep))
    BY BridgeExecutorAssumption
    DEF NewExecutor, ExecutorOK, ExecutorFields, InvalidActionID, Steps, FirstStep
  <2>2. ExecutorsOK
    BY <1>1, <2>1 DEF ExecutorsOK
  <2>3. MempoolOK
    BY <1>1 DEF MempoolOK
  <2> QED BY <1>1, <2>2, <2>3, BridgeExecutorAssumption DEF RelayersInv
<1> QED BY <1>2, <1>4, <1>5, <1>6 DEF HalfBridgeInv

LEMMA HalfBridgeAlways == HalfBridgeSpec => []HalfBridgeInv
<1>1. HalfBridgeInv /\ [HalfBridgeNext]_halfVars => HalfBridgeInv'
  BY HalfBridgeStep
<1> QED BY <1>1, HalfBridgeStarts, PTL DEF HalfBridgeSpec

------------------------------------------------------------------------------
(* The theorems *)

(***************************************************************************)
(* The relayers' memory and what they have under way are well formed in    *)
(* every state: the step is one of the state machine, the stored batch can *)
(* be told to the multisig, and no counter passes its limit                *)
(* (bridgeExecutor.go, ProcessMaxQuorumRetriesOnMultiversX).               *)
(***************************************************************************)
THEOREM RelayersTypeCorrect == HalfBridgeSpec => []RelayersTypeOK
<1>1. HalfBridgeInv => RelayersTypeOK
  <2> SUFFICES ASSUME HalfBridgeInv PROVE RelayersTypeOK
    OBVIOUS
  <2>1. EthereumInv /\ ExecutorsOK /\ MempoolOK /\ failures \in 0 .. MaxFailures
    BY DEF HalfBridgeInv, RelayersInv
  <2>2. ASSUME NEW r \in Honest
        PROVE  /\ executor[r].step \in Steps
               /\ BatchInfo(executor[r].batch) \in Seq(EthTransfers)
               /\ executor[r].actionID \in Nat
               /\ executor[r].quorumRetriesOnMultiversX \in 0 .. MaxQuorumRetriesOnMultiversX
               /\ \A i \in DOMAIN mempool[r] :
                     mempool[r][i].type \in {"propose", "sign", "perform"}
    <3>1. ExecutorOK(executor[r])
      BY <2>1 DEF ExecutorsOK
    <3>2. BatchInfo(executor[r].batch) \in Seq(EthTransfers)
      <4> DEFINE b == executor[r].batch
      <4>1. CASE ReadBatch(b)
        <5>1. b.id \in 1 .. Len(batches) /\ BatchInfo(b) = DepositsOf(b.id)
          BY <2>1, <4>1, AskedListsType DEF ReadBatch, FinalEthBatch
        <5> QED BY <2>1, <5>1, AskedListsType
      <4>2. CASE b = NoBatch
        <5>1. b.deposits = <<>>
          BY <4>2 DEF NoBatch, TransferBatch
        <5>2. BatchInfo(b) = <<>>
          BY <5>1 DEF BatchInfo
        <5> QED BY <5>2, EmptySeq
      <4> QED BY <3>1, <4>1, <4>2 DEF ExecutorOK
    <3>3. \A i \in DOMAIN mempool[r] : mempool[r][i].type \in {"propose", "sign", "perform"}
      <4>1. mempool[r] \in Seq(Transactions)
        BY <2>1 DEF MempoolOK
      <4>2. \A i \in DOMAIN mempool[r] : mempool[r][i] \in Transactions
        BY <4>1
      <4> QED BY <4>2 DEF Transactions
    <3> QED BY <3>1, <3>2, <3>3 DEF ExecutorOK
  <2> QED BY <2>1, <2>2 DEF RelayersTypeOK
<1> QED BY <1>1, HalfBridgeAlways, PTL

\* The number of deposits in the first batches, as transfers and as deposits.
LEMMA ExecutedLength ==
    ASSUME HalfBridgeInv
    PROVE  Len(FlattenSeq([n \in 1 .. lastExecutedEthBatchId |-> batches[n].deposits]))
              = Len(executedEthTxs)
<1> DEFINE k == lastExecutedEthBatchId
           lists == FrontOf(AskedLists, k)
           deposits == [n \in 1 .. k |-> batches[n].deposits]
<1>1. EthereumInv /\ k \in Nat /\ k <= Len(batches) /\ executedEthTxs = FlattenSeq(lists)
  BY DEF HalfBridgeInv, ContractsInv, MultisigTypeOK, ExecutedOK
<1>2. /\ batches \in Seq(Batch) /\ Len(batches) \in Nat
      /\ \A n \in 1 .. Len(batches) :
            /\ AskedLists[n] = DepositsOf(n)
            /\ DepositsOf(n) \in Seq(EthTransfers)
            /\ Len(DepositsOf(n)) = Len(batches[n].deposits)
  BY <1>1, AskedListsType
<1>3. \A n \in 1 .. k : n \in 1 .. Len(batches)
  BY <1>1, <1>2
<1>4. \A n \in 1 .. Len(batches) : batches[n].deposits \in Seq(Deposit)
  <2>1. \A n \in 1 .. Len(batches) : batches[n] \in Batch
    BY <1>2, ElementOfSeq
  <2> QED BY <2>1 DEF Batch
<1>5. lists \in Seq(Seq(EthTransfers)) /\ Len(lists) = k /\ \A n \in 1 .. k : lists[n] = DepositsOf(n)
  <2>1. \A n \in 1 .. k : AskedLists[n] \in Seq(EthTransfers) /\ AskedLists[n] = DepositsOf(n)
    BY <1>2, <1>3
  <2> QED BY <1>1, <2>1 DEF FrontOf
<1>6. deposits \in Seq(Seq(Deposit)) /\ Len(deposits) = k
      /\ \A n \in 1 .. k : deposits[n] = batches[n].deposits
  BY <1>1, <1>3, <1>4
<1>7. \A n \in 1 .. k : Len(deposits[n]) = Len(lists[n])
  BY <1>2, <1>3, <1>5, <1>6
<1> HIDE DEF lists, deposits
<1>8. Len(FlattenSeq(deposits)) = Len(FlattenSeq(lists))
  BY <1>5, <1>6, <1>7, FlattenLengths, SMTT(20)
<1> QED BY <1>1, <1>8 DEF deposits

(***************************************************************************)
(* Batches are executed whole, for any number of relayers of which fewer   *)
(* than the quorum are faulty: no deposit that joins a batch late is       *)
(* skipped (_isBatchFinal, last_executed_eth_batch_id,                     *)
(* last_executed_eth_tx_id).                                               *)
(***************************************************************************)
THEOREM BatchesAlwaysExecutedWhole == HalfBridgeSpec => []BatchesExecutedWhole
<1>1. HalfBridgeInv => BatchesExecutedWhole
  <2> SUFFICES ASSUME HalfBridgeInv PROVE BatchesExecutedWhole
    OBVIOUS
  <2>1. /\ EthTxsExecutedOnceInOrder /\ lastExecutedEthTxId \in Nat
        /\ executedEthTxs \in Seq(EthTransfers) /\ lastExecutedEthBatchId <= Len(batches)
    BY DEF HalfBridgeInv, ContractsInv, ActionsInv, MultisigTypeOK, ExecutedOK
  <2>2. lastExecutedEthTxId = Len(executedEthTxs)
    <3>1. DOMAIN executedEthTxs = 1 .. lastExecutedEthTxId
      BY <2>1 DEF EthTxsExecutedOnceInOrder, Nonces
    <3> QED BY <2>1, <3>1
  <2> QED BY <2>1, <2>2, ExecutedLength DEF BatchesExecutedWhole
<1> QED BY <1>1, HalfBridgeAlways, PTL

\* Every step hands transfers in, or hands out the next ones, or is a stutter.
LEMMA ChainStepRefines ==
    ASSUME HalfBridgeInv, HalfBridgeInv', ChainStep
    PROVE  [Half!HalfNext]_<<AllDeposits, executedEthTxs>>
<1>1. EthereumInv /\ EthereumInv' /\ ExecutedOK /\ ExecutedOK'
  BY DEF HalfBridgeInv
<1>2. ASSUME EthereumNext
      PROVE  \/ UNCHANGED <<AllDeposits, executedEthTxs>>
             \/ Half!HandIn
  <2>1. UNCHANGED executedEthTxs
    BY <1>2 DEF EthereumNext, vars, multisigVars, ethVars
  <2>2. BatchesStep
    BY <1>1, <1>2, EthereumStep
  <2>3. CASE UNCHANGED depositVars
    <3>1. UNCHANGED batches
      BY <2>3 DEF depositVars
    <3>2. UNCHANGED AllDeposits
      BY <3>1 DEF AllDeposits, DepositsOf
    <3> QED BY <2>1, <3>2
  <2>4. CASE DepositMade
    <3>1. PICK b \in Batch, new \in Deposit : BatchAdded(b, new) \/ BatchExtended(b, new)
      BY <1>1, <2>4, DepositStep DEF EthereumInv
    <3>2. AskedBy(new) \in EthTransfers /\ AllDeposits' = Append(AllDeposits, AskedBy(new))
      BY <1>1, <3>1, AskedComesLast
    <3> QED BY <2>1, <3>2 DEF Half!HandIn
  <2> QED BY <2>2, <2>3, <2>4 DEF BatchesStep
<1>3. ASSUME UNCHANGED ethereumVars, Pays
      PROVE  \/ UNCHANGED <<AllDeposits, executedEthTxs>>
             \/ Half!HandOut
  <2>1. UNCHANGED batches
    BY <1>3 DEF ethereumVars, erc20Vars, depositVars
  <2>2. UNCHANGED AllDeposits
    BY <2>1 DEF AllDeposits, DepositsOf
  <2>3. CASE UNCHANGED executedEthTxs
    BY <2>2, <2>3
  <2>4. CASE \E transfers \in Seq(EthTransfers) :
                transfers # <<>> /\ executedEthTxs' = executedEthTxs \o transfers
    <3>1. PICK transfers \in Seq(EthTransfers) :
                transfers # <<>> /\ executedEthTxs' = executedEthTxs \o transfers
      BY <2>4
    <3>2. PICK before : before = executedEthTxs
      OBVIOUS
    <3>3. PICK after : after = executedEthTxs'
      OBVIOUS
    <3>4. before \in Seq(EthTransfers) /\ after \in Seq(EthTransfers)
      BY <3>2, <3>3 DEF HalfBridgeInv, ContractsInv, MultisigTypeOK
    <3>5. Len(after) > Len(before) /\ Len(after) \in Nat /\ Len(before) \in Nat
      <4>1. Len(transfers) > 0 /\ after = before \o transfers
        BY <3>1, <3>2, <3>3
      <4> QED BY <3>4, <4>1
    <3>6. PICK all : all = AllDeposits
      OBVIOUS
    <3>7. PICK rest \in Seq(EthTransfers) : all = after \o rest
      <4>1. PICK lists : lists = AskedLists
        OBVIOUS
      <4>2. PICK k : k = lastExecutedEthBatchId'
        OBVIOUS
      <4>3. AskedLists' = lists
        BY <2>1, <4>1 DEF AskedLists, DepositsOf
      <4>4. lists \in Seq(Seq(EthTransfers)) /\ all = FlattenSeq(lists) /\ Len(lists) = Len(batches)
            /\ Len(batches) \in Nat
        BY <1>1, <3>6, <4>1, AskedListsType
      <4>5. after = FlattenSeq(FrontOf(lists, k)) /\ k <= Len(batches)
        BY <1>1, <2>1, <3>3, <4>2, <4>3 DEF ExecutedOK
      <4>6. k \in Nat
        BY <4>2 DEF HalfBridgeInv, ContractsInv, MultisigTypeOK
      <4>7. k \in 0 .. Len(lists)
        BY <4>4, <4>5, <4>6
      <4> QED BY <4>4, <4>5, <4>7, FlattenFront
    <3>8. /\ Len(after) \in Len(before) + 1 .. Len(all)
          /\ after = SubSeq(all, 1, Len(after))
      <4>1. all \in Seq(EthTransfers) /\ Len(all) = Len(after) + Len(rest)
            /\ \A i \in 1 .. Len(after) : all[i] = after[i]
        BY <3>4, <3>7, ConcatProperties
      <4>2. Len(after) \in Len(before) + 1 .. Len(all) /\ Len(after) <= Len(all) /\ Len(all) \in Nat
        BY <3>5, <4>1
      <4>3. SubSeq(all, 1, Len(after)) = [i \in 1 .. Len(after) |-> all[i]]
        BY <3>5, <4>1, <4>2
      <4>4. after = [i \in 1 .. Len(after) |-> after[i]]
        BY <3>4
      <4> QED BY <4>1, <4>2, <4>3, <4>4
    <3> QED BY <2>2, <3>2, <3>3, <3>6, <3>8 DEF Half!HandOut
  <2> QED BY <1>3, <2>3, <2>4, SMTT(20) DEF Pays
<1> QED BY <1>2, <1>3 DEF ChainStep, Half!HalfNext

(***************************************************************************)
(* The half bridge implements what HalfBridge promises: in every behaviour *)
(* what the multisig has executed is a prefix of the deposits made on      *)
(* Ethereum, with their recipients and amounts, for any number of          *)
(* relayers, transactions lost and restarts, while fewer than the quorum   *)
(* of the relayers are faulty (deposit, the steps 1 to 5 of the relayers,  *)
(* propose_multi_transfer_esdt_batch, sign, perform_action).               *)
(***************************************************************************)
THEOREM HalfBridgeKept == HalfBridgeSpec => ImplementsHalfBridge
<1>1. HalfBridgeInit => Half!HalfInit
  <2> SUFFICES ASSUME HalfBridgeInit PROVE AllDeposits = <<>> /\ executedEthTxs = <<>>
    BY DEF Half!HalfInit
  <2>1. batches = <<>> /\ executedEthTxs = <<>>
    BY DEF HalfBridgeInit, BridgeInit, MultisigDeployed, ERC20SafeDeployed
  <2>2. [n \in DOMAIN batches |-> DepositsOf(n)] = <<>>
    BY <2>1
  <2>3. FlattenSeq(<<>>) = <<>>
    BY FlattenNone
  <2> QED BY <2>1, <2>2, <2>3 DEF AllDeposits
<1>2. HalfBridgeInv /\ [HalfBridgeNext]_halfVars
         => [Half!HalfNext]_<<AllDeposits, executedEthTxs>>
  BY HalfBridgeStep, ChainStepRefines
<1> QED BY <1>1, <1>2, HalfBridgeAlways, PTL DEF HalfBridgeSpec, ImplementsHalfBridge, Half!HalfSpec
==============================================================================
