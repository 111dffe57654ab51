------------------------ MODULE MultiversXToEthProofs ------------------------
(***************************************************************************)
(* Theorems about the MultiversX -> Ethereum half bridge, for any number   *)
(* of relayers of which fewer than either quorum are faulty, and any       *)
(* number of transactions, batches, lost messages, failures and restarts.  *)
(*                                                                         *)
(* The argument: a relayer signs for Ethereum only what it has read of the *)
(* safe's first batch, and a batch only ever grows at its end.  It reports *)
(* on MultiversX what Ethereum answered for that batch; if the batch it    *)
(* has in mind is stale, its report names a batch that was settled before  *)
(* and is refused.  What is executed on either side has a quorum and so    *)
(* the signature of a relayer that runs the program.                       *)
(***************************************************************************)
EXTENDS MultiversXToEth, MultisigProofs, EthBridgeProofs

------------------------------------------------------------------------------
(* The inductive invariant *)

\* The transfer a transaction of the safe asks for.
AskedBy(tx) == [token |-> Erc20ForToken[EsdtToken], amount |-> tx.amount,
                recipient |-> EthRecipientOf[tx.from]]

\* The batches up to the first one: those settled, and the one that is being bridged.
BatchOf(n) == IF n < safe.firstBatchId THEN settlements[n].txs ELSE FirstBatch(safe)

\* The owner of the safe never changes how batches close.
SettingsFixed ==
    \E size \in BatchSizes, duration \in BatchDurations :
        BatchSizes = {size} /\ BatchDurations = {duration}

\* No transaction joins the batch any more, while the settings stay.
Closed(n) == n < safe.firstBatchId \/ FirstIsFull(safe)

\* These are the transfers of batch n, or of what it held when it was read.
AskedFor(n, transfers) ==
    /\ n \in 1 .. safe.firstBatchId
    /\ transfers \in Seq(TransferType)
    /\ Len(transfers) <= Len(BatchOf(n))
    /\ \A i \in 1 .. Len(transfers) : transfers[i] = AskedBy(BatchOf(n)[i])
    /\ SettingsFixed => Closed(n) /\ Len(transfers) = Len(BatchOf(n))

\* The statuses say of batch n what Ethereum did.
TrueStatuses(n, statuses) ==
    \E x \in Range(executions) :
        /\ x.nonce = n
        /\ \A i \in DOMAIN statuses :
              statuses[i] = "Executed" <=>
                  (i \in DOMAIN x.transfers /\ x.statuses[i] = "Executed")

\* A report is true if it is not too late for it.
Resolved(n, statuses) ==
    /\ statuses \in Seq(Statuses)
    /\ n = safe.firstBatchId => TrueStatuses(n, statuses)

\* The action settles a batch with what Ethereum did.
Good(action) == action.type = "SetStatus" /\ TrueStatuses(action.batchId, action.statuses)

\* Relayers that run the program have signed nothing else.
VotesOK ==
    /\ quorum = InitialQuorum
    /\ \A id \in DOMAIN actions :
          /\ actions[id].type # "BatchTransfer"
          /\ \A r \in Honest : r \in signers[id] => actions[id] = Nothing \/ Good(actions[id])

\* No batch is longer than the size that no one changes.
ShortIfFixed ==
    \A size \in BatchSizes, duration \in BatchDurations :
        BatchSizes = {size} /\ BatchDurations = {duration} => ShortBatches(safe, size)

ContractsInv ==
    MultisigTypeOK /\ ActionsInv /\ SafeInv /\ StatusesNotEmpty /\ VotesOK /\ ShortIfFixed

Settlement == [id : Nat, txs : Seq(SafeTx), statuses : Seq(ProposedStatuses)]

SettlementsOK ==
    /\ settlements \in Seq(Settlement)
    /\ Len(settlements) + 1 = safe.firstBatchId
    /\ \A n \in 1 .. Len(settlements) :
          settlements[n].id = n /\ Len(settlements[n].statuses) = Len(settlements[n].txs)
    /\ SettledAsExecuted

SignaturesOK ==
    /\ IsFiniteSet(ethSignatures)
    /\ \A s \in ethSignatures :
          /\ s.signer \in Honest \cup Faulty
          /\ s.signer \in Honest => AskedFor(s.message.nonce, s.message.transfers)

Execution == [nonce : Nat, transfers : Seq(TransferType), statuses : Seq(Statuses)]

ExecutionsOK ==
    /\ executions \in Seq(Execution)
    /\ \A i \in 1 .. Len(executions) :
          /\ AskedFor(executions[i].nonce, executions[i].transfers)
          /\ Len(executions[i].statuses) = Len(executions[i].transfers)
          /\ executions[i].nonce \in executedBatches
    /\ DOMAIN crossTransferStatuses = executedBatches
    /\ \A n \in executedBatches :
          \E x \in Range(executions) :
              x.nonce = n /\ x.statuses = crossTransferStatuses[n].statuses

EthereumInv ==
    ERC20SafeTypeOK /\ ethQuorum = InitialEthQuorum /\ SignaturesOK /\ ExecutionsOK

BatchFields == {"id", "deposits", "statuses"}

ExecutorFields ==
    {"step", "batch", "actionID", "msgHash", "quorumRetriesOnEthereum",
     "quorumRetriesOnMultiversX", "retriesOnWasProposed", "newNumDeposits"}

\* A batch as a relayer has read it from the safe, with any statuses.
ReadBatch(b) == DOMAIN b = BatchFields /\ AskedFor(b.id, ExtractList(b))

ReportingSteps == {"ProposingSetStatusOnMultiversX", "SigningProposedSetStatusOnMultiversX"}

\* The two halves of the step in which a relayer asks for the statuses.
ResolvingSteps == {"ResolvingSetStatusOnMultiversX", "AwaitingFinalStatuses"}

\* The batch it asks for was executed; unless it is too late for a report, the number of
\* deposits it has fetched is not below the number of statuses it will be told.
Resolving(e, s) ==
    /\ e.batch.id \in executedBatches
    /\ s = "AwaitingFinalStatuses" =>
          /\ e.newNumDeposits \in Nat
          /\ e.batch.id = safe.firstBatchId =>
                Len(crossTransferStatuses[e.batch.id].statuses) <= e.newNumDeposits

CountersOK(e) ==
    /\ e.actionID \in Nat
    /\ e.quorumRetriesOnEthereum \in 0 .. MaxQuorumRetriesOnEthereum
    /\ e.quorumRetriesOnMultiversX \in 0 .. MaxQuorumRetriesOnMultiversX
    /\ e.retriesOnWasProposed \in 0 .. MaxRetriesOnWasProposed

ExecutorOK(e) ==
    /\ DOMAIN e = ExecutorFields
    /\ e.step \in Steps
    /\ CountersOK(e)
    /\ ReadBatch(e.batch) \/ (e.batch = NoBatch /\ e.step = FirstStep)
    /\ e.step \in ReportingSteps => Resolved(e.batch.id, e.batch.statuses)
    /\ e.step \in ResolvingSteps => Resolving(e, e.step)

ExecutorsOK == DOMAIN executor = Honest /\ \A r \in Honest : ExecutorOK(executor[r])

Transactions == [type : {"setStatus", "sign", "perform"}, id : Nat, args : Seq(Statuses)]

\* What a relayer has sent reports or signs what Ethereum did.
TxOK(tx) ==
    /\ tx.type = "setStatus" => tx.id \in 1 .. safe.firstBatchId /\ Resolved(tx.id, tx.args)
    /\ tx.type = "sign" =>
          tx.id \in DOMAIN actions /\ (actions[tx.id] = Nothing \/ Good(actions[tx.id]))

MempoolOK ==
    /\ DOMAIN mempool = Honest
    /\ \A r \in Honest :
          /\ mempool[r] \in Seq(Transactions)
          /\ \A i \in 1 .. Len(mempool[r]) : TxOK(mempool[r][i])

\* Relayers hold and submit only signatures that were made.
NetworkOK ==
    /\ DOMAIN signaturesHolder = Honest /\ DOMAIN undelivered = Honest
    /\ DOMAIN ethMempool = Honest
    /\ \A r \in Honest :
          /\ signaturesHolder[r] \cup undelivered[r] \subseteq ethSignatures
          /\ Range(ethMempool[r].signatures) \subseteq ethSignatures

RelayersInv == ExecutorsOK /\ MempoolOK /\ NetworkOK /\ failures \in 0 .. MaxFailures

HalfBridgeInv == ContractsInv /\ SettlementsOK /\ EthereumInv /\ RelayersInv

------------------------------------------------------------------------------
(* What stays *)

BatchesTyped ==
    /\ safe.firstBatchId \in Nat
    /\ \A n \in 1 .. safe.firstBatchId : BatchOf(n) \in Seq(SafeTx)

\* Batches grow at their end only; a closed one does not while the settings stay.
BatchesStay ==
    /\ BatchesTyped /\ BatchesTyped'
    /\ safe.firstBatchId <= safe'.firstBatchId
    /\ \A n \in 1 .. safe.firstBatchId :
          /\ Len(BatchOf(n)) <= Len(BatchOf(n)')
          /\ \A i \in 1 .. Len(BatchOf(n)) : BatchOf(n)'[i] = BatchOf(n)[i]
          /\ SettingsFixed /\ Closed(n) => Closed(n)' /\ Len(BatchOf(n)') = Len(BatchOf(n))

\* What was executed on Ethereum is never undone.
ExecutionsStay ==
    /\ Range(executions) \subseteq Range(executions')
    /\ \A n \in executedBatches :
          n \in executedBatches' /\ crossTransferStatuses'[n] = crossTransferStatuses[n]

\* Actions are only added and cleared.
ActionsStay ==
    \A id \in DOMAIN actions :
        id \in DOMAIN actions' /\ (actions'[id] = actions[id] \/ actions'[id] = Nothing)

SignaturesStay == ethSignatures \subseteq ethSignatures'

LEMMA AskedStays ==
    ASSUME BatchesStay, NEW n, NEW transfers, AskedFor(n, transfers)
    PROVE  AskedFor(n, transfers)'
<1> DEFINE old == BatchOf(n)
           new == BatchOf(n)'
<1>1. /\ n \in 1 .. safe.firstBatchId /\ transfers \in Seq(TransferType)
      /\ Len(transfers) <= Len(old)
      /\ \A i \in 1 .. Len(transfers) : transfers[i] = AskedBy(old[i])
      /\ SettingsFixed => Closed(n) /\ Len(transfers) = Len(old)
  BY DEF AskedFor
<1>2. /\ safe.firstBatchId \in Nat /\ safe'.firstBatchId \in Nat
      /\ safe.firstBatchId <= safe'.firstBatchId
      /\ old \in Seq(SafeTx) /\ Len(old) <= Len(new)
      /\ \A i \in 1 .. Len(old) : new[i] = old[i]
      /\ SettingsFixed /\ Closed(n) => Closed(n)' /\ Len(new) = Len(old)
  BY <1>1 DEF BatchesStay, BatchesTyped
<1>3. n \in 1 .. safe'.firstBatchId
  BY <1>1, <1>2
<1>4. new \in Seq(SafeTx)
  BY <1>2, <1>3 DEF BatchesStay, BatchesTyped
<1>5. Len(transfers) \in Nat /\ Len(old) \in Nat /\ Len(new) \in Nat
  BY <1>1, <1>2, <1>4, LenProperties
<1> HIDE DEF old, new
<1>6. Len(transfers) <= Len(new) /\ \A i \in 1 .. Len(transfers) : i \in 1 .. Len(old)
  BY <1>1, <1>2, <1>5
<1>7. \A i \in 1 .. Len(transfers) : transfers[i] = AskedBy(new[i])
  BY <1>1, <1>2, <1>6, Zenon
<1>8. SettingsFixed => Closed(n)' /\ Len(transfers) = Len(new)
  BY <1>1, <1>2
<1> QED BY <1>1, <1>3, <1>6, <1>7, <1>8 DEF AskedFor, AskedBy, SettingsFixed, old, new

LEMMA TrueStays ==
    ASSUME ExecutionsStay, NEW n, NEW statuses, TrueStatuses(n, statuses)
    PROVE  TrueStatuses(n, statuses)'
BY DEF ExecutionsStay, TrueStatuses

LEMMA GoodStays ==
    ASSUME ExecutionsStay, NEW action, Good(action)
    PROVE  Good(action)'
BY TrueStays DEF Good

\* A report that is not too late is one for the first batch.
LEMMA ResolvedStays ==
    ASSUME ExecutionsStay, BatchesStay, NEW n \in 1 .. safe.firstBatchId, NEW statuses,
           Resolved(n, statuses)
    PROVE  Resolved(n, statuses)'
<1>1. /\ safe.firstBatchId \in Nat /\ safe'.firstBatchId \in Nat
      /\ safe.firstBatchId <= safe'.firstBatchId
  BY DEF BatchesStay, BatchesTyped
<1>2. n = safe'.firstBatchId => n = safe.firstBatchId
  BY <1>1
<1>3. n = safe'.firstBatchId => TrueStatuses(n, statuses)'
  BY <1>2, TrueStays DEF Resolved
<1> QED BY <1>3 DEF Resolved, Statuses

LEMMA TxStays ==
    ASSUME ExecutionsStay, BatchesStay, ActionsStay, NEW tx, TxOK(tx)
    PROVE  TxOK(tx)'
<1>1. ASSUME tx.type = "setStatus"
      PROVE  tx.id \in 1 .. safe'.firstBatchId /\ Resolved(tx.id, tx.args)'
  <2>1. PICK n, statuses : n = tx.id /\ statuses = tx.args
    OBVIOUS
  <2>2. n \in 1 .. safe.firstBatchId /\ Resolved(n, statuses)
    BY <1>1, <2>1 DEF TxOK
  <2>3. Resolved(n, statuses)'
    BY <2>2, ResolvedStays
  <2>4. n \in 1 .. safe'.firstBatchId
    BY <2>2 DEF BatchesStay, BatchesTyped
  <2> QED BY <2>1, <2>3, <2>4
<1>2. ASSUME tx.type = "sign"
      PROVE  (tx.id \in DOMAIN actions /\ (actions[tx.id] = Nothing \/ Good(actions[tx.id])))'
  <2>1. PICK a : a = actions[tx.id]
    OBVIOUS
  <2>2. tx.id \in DOMAIN actions /\ (a = Nothing \/ Good(a))
    BY <1>2, <2>1 DEF TxOK
  <2>3. tx.id \in DOMAIN actions' /\ (actions'[tx.id] = a \/ actions'[tx.id] = Nothing)
    BY <2>1, <2>2 DEF ActionsStay
  <2>4. CASE Good(a) /\ actions'[tx.id] = a
    <3>1. Good(a)'
      BY <2>4, GoodStays
    <3> QED BY <2>3, <2>4, <3>1 DEF Good
  <2> QED BY <2>2, <2>3, <2>4
<1> QED BY <1>1, <1>2 DEF TxOK

\* What a relayer remembers stays true, whatever the others do.
LEMMA ExecutorStays ==
    ASSUME ExecutionsStay, BatchesStay, NEW e, ExecutorOK(e)
    PROVE  ExecutorOK(e)'
<1>1. ASSUME NEW b, ReadBatch(b) PROVE ReadBatch(b)'
  <2>1. PICK n, transfers : n = b.id /\ transfers = ExtractList(b)
    OBVIOUS
  <2>2. AskedFor(n, transfers)'
    BY <1>1, <2>1, AskedStays DEF ReadBatch
  <2> QED BY <1>1, <2>1, <2>2 DEF ReadBatch, ExtractList
<1>2. ReadBatch(e.batch)' \/ (e.batch = NoBatch /\ e.step = FirstStep)
  BY <1>1 DEF ExecutorOK
<1>3. ASSUME e.step \in ReportingSteps
      PROVE  Resolved(e.batch.id, e.batch.statuses)'
  <2>1. PICK n, statuses : n = e.batch.id /\ statuses = e.batch.statuses
    OBVIOUS
  <2>2. ReadBatch(e.batch)
    BY <1>3 DEF ExecutorOK, ReportingSteps, FirstStep
  <2>3. n \in 1 .. safe.firstBatchId /\ Resolved(n, statuses)
    BY <1>3, <2>1, <2>2 DEF ExecutorOK, ReadBatch, AskedFor
  <2>4. Resolved(n, statuses)'
    BY <2>3, ResolvedStays
  <2> QED BY <2>1, <2>4
<1>4. ASSUME e.step \in ResolvingSteps
      PROVE  Resolving(e, e.step)'
  <2>1. PICK n, s : n = e.batch.id /\ s = e.step
    OBVIOUS
  <2>2. ReadBatch(e.batch) /\ Resolving(e, s)
    BY <1>4, <2>1 DEF ExecutorOK, ResolvingSteps, FirstStep
  <2>3. n \in 1 .. safe.firstBatchId
    BY <2>1, <2>2 DEF ReadBatch, AskedFor
  <2>4. n \in executedBatches' /\ crossTransferStatuses'[n] = crossTransferStatuses[n]
    BY <2>1, <2>2 DEF Resolving, ExecutionsStay
  <2>5. n = safe'.firstBatchId => n = safe.firstBatchId
    BY <2>3 DEF BatchesStay, BatchesTyped
  <2> QED BY <2>1, <2>2, <2>4, <2>5 DEF Resolving
<1> QED BY <1>2, <1>3, <1>4 DEF ExecutorOK, CountersOK


------------------------------------------------------------------------------
(* What a step does to one relayer *)

MempoolStep(r) ==
    \/ UNCHANGED mempool
    \/ mempool[r] # <<>> /\ mempool' = [mempool EXCEPT ![r] = Tail(@)]
    \/ \E tx \in Transactions : TxOK(tx) /\ mempool' = [mempool EXCEPT ![r] = Append(@, tx)]

LEMMA MempoolKeeps ==
    ASSUME MempoolOK, ExecutionsStay, BatchesStay, ActionsStay, NEW r \in Honest, MempoolStep(r)
    PROVE  MempoolOK'
<1>1. \A tx : TxOK(tx) => TxOK(tx)'
  BY TxStays
<1>2. /\ DOMAIN mempool = Honest
      /\ \A q \in Honest : mempool[q] \in Seq(Transactions)
      /\ \A q \in Honest : \A i \in 1 .. Len(mempool[q]) : TxOK(mempool[q][i])
  BY DEF MempoolOK
<1>3. PICK old \in Seq(Transactions) : old = mempool[r]
  BY <1>2
<1>4. PICK new : new = mempool'[r]
  OBVIOUS
<1>5. DOMAIN mempool' = Honest /\ \A q \in Honest \ {r} : mempool'[q] = mempool[q]
  BY <1>2 DEF MempoolStep
<1>6. new \in Seq(Transactions) /\ \A i \in 1 .. Len(new) : TxOK(new[i])
  <2>1. \A i \in 1 .. Len(old) : TxOK(old[i])
    BY <1>2, <1>3
  <2>2. CASE UNCHANGED mempool
    BY <1>3, <1>4, <2>1, <2>2
  <2>3. CASE mempool[r] # <<>> /\ mempool' = [mempool EXCEPT ![r] = Tail(@)]
    <3>1. new = Tail(old) /\ old # <<>>
      BY <1>2, <1>3, <1>4, <2>3
    <3>2. /\ new \in Seq(Transactions) /\ Len(new) = Len(old) - 1
          /\ \A i \in 1 .. Len(new) : new[i] = old[i + 1]
      BY <3>1, HeadTailProperties
    <3>3. \A i \in 1 .. Len(new) : i + 1 \in 1 .. Len(old)
      BY <3>2
    <3> QED BY <2>1, <3>2, <3>3
  <2>4. CASE \E tx \in Transactions : TxOK(tx) /\ mempool' = [mempool EXCEPT ![r] = Append(@, tx)]
    <3>1. PICK tx \in Transactions : TxOK(tx) /\ mempool' = [mempool EXCEPT ![r] = Append(@, tx)]
      BY <2>4
    <3>2. new = Append(old, tx)
      BY <1>2, <1>3, <1>4, <3>1
    <3>3. /\ new \in Seq(Transactions) /\ Len(new) = Len(old) + 1 /\ new[Len(old) + 1] = tx
          /\ \A i \in 1 .. Len(old) : new[i] = old[i]
      BY <3>2, AppendProperties
    <3>4. \A i \in 1 .. Len(new) : i \in 1 .. Len(old) \/ i = Len(old) + 1
      BY <3>3
    <3> QED BY <2>1, <3>1, <3>3, <3>4
  <2> QED BY <2>2, <2>3, <2>4 DEF MempoolStep
<1>7. ASSUME NEW q \in Honest
      PROVE  mempool'[q] \in Seq(Transactions) /\ \A i \in 1 .. Len(mempool'[q]) : TxOK(mempool[q][i])'
  <2>1. PICK m : m = mempool'[q]
    OBVIOUS
  <2>2. m \in Seq(Transactions) /\ \A i \in 1 .. Len(m) : TxOK(m[i])
    BY <1>2, <1>4, <1>5, <1>6, <2>1
  <2>3. \A i \in 1 .. Len(m) : TxOK(m[i])'
    BY <1>1, <2>2
  <2> QED BY <2>1, <2>2, <2>3 DEF TxOK
<1> QED BY <1>5, <1>7 DEF MempoolOK

ExecutorStep(r) ==
    \/ UNCHANGED executor
    \/ \E e : ExecutorOK(e) /\ executor' = [executor EXCEPT ![r] = e]

LEMMA ExecutorsKeep ==
    ASSUME ExecutorsOK, ExecutionsStay, BatchesStay, NEW r \in Honest, ExecutorStep(r)
    PROVE  ExecutorsOK'
<1>1. DOMAIN executor' = Honest
  BY DEF ExecutorsOK, ExecutorStep
<1>2. ASSUME NEW q \in Honest PROVE ExecutorOK(executor[q])'
  <2>1. PICK e : e = executor'[q]
    OBVIOUS
  <2>2. ExecutorOK(e)
    BY <2>1 DEF ExecutorsOK, ExecutorStep
  <2>3. ExecutorOK(e)'
    BY <2>2, ExecutorStays
  <2> QED BY <2>1, <2>3 DEF ExecutorOK
<1> QED BY <1>1, <1>2 DEF ExecutorsOK

\* The others' memory and the transactions under way when no relayer takes a step.
LEMMA RelayersRest ==
    ASSUME ExecutorsOK, MempoolOK, ExecutionsStay, BatchesStay, ActionsStay,
           UNCHANGED <<mempool, executor>>
    PROVE  ExecutorsOK' /\ MempoolOK'
<1>1. CASE Honest # {}
  <2>1. PICK r \in Honest : TRUE
    BY <1>1
  <2>2. ExecutorStep(r) /\ MempoolStep(r)
    BY DEF ExecutorStep, MempoolStep
  <2> QED BY <2>2, ExecutorsKeep, MempoolKeeps
<1>2. CASE Honest = {}
  BY <1>2 DEF ExecutorsOK, MempoolOK
<1> QED BY <1>1, <1>2

\* No signature is held before it is made.
LEMMA NetworkRests ==
    ASSUME NetworkOK, SignaturesStay, UNCHANGED clientVars
    PROVE  NetworkOK'
BY DEF NetworkOK, SignaturesStay, clientVars

LEMMA BecomeKeeps ==
    ASSUME NEW r \in Honest, NEW e, NEW s \in Steps, Become(r, e, s),
           DOMAIN e = ExecutorFields, CountersOK(e),
           ReadBatch(e.batch) \/ (e.batch = NoBatch /\ s = FirstStep),
           s \in ReportingSteps => Resolved(e.batch.id, e.batch.statuses),
           s \in ResolvingSteps => Resolving(e, s)
    PROVE  ExecutorStep(r)
<1>1. PICK new : new = [e EXCEPT !.step = s]
  OBVIOUS
<1>2. /\ DOMAIN new = ExecutorFields /\ new.step = s /\ new.batch = e.batch
      /\ new.actionID = e.actionID
      /\ new.quorumRetriesOnEthereum = e.quorumRetriesOnEthereum
      /\ new.quorumRetriesOnMultiversX = e.quorumRetriesOnMultiversX
      /\ new.retriesOnWasProposed = e.retriesOnWasProposed
      /\ new.newNumDeposits = e.newNumDeposits
  BY <1>1 DEF ExecutorFields
<1>3. CountersOK(new) /\ (s \in ResolvingSteps => Resolving(new, s))
  BY <1>2 DEF CountersOK, Resolving
<1>4. ExecutorOK(new)
  BY <1>2, <1>3 DEF ExecutorOK
<1> QED BY <1>1, <1>4 DEF ExecutorStep, Become


------------------------------------------------------------------------------
(* Calls of the multisig *)

\* An action signed by a relayer that runs the program is a good one.
LEMMA VotesKeep ==
    ASSUME ExecutionsStay, quorum' = InitialQuorum,
           \A id \in DOMAIN actions' :
              /\ actions'[id].type # "BatchTransfer"
              /\ \A q \in Honest :
                    q \in signers'[id] => actions'[id] = Nothing \/ Good(actions'[id])
    PROVE  VotesOK'
<1>1. ASSUME NEW id \in DOMAIN actions', NEW q \in Honest, q \in signers'[id]
      PROVE  (actions[id] = Nothing \/ Good(actions[id]))'
  <2>1. PICK a : a = actions'[id]
    OBVIOUS
  <2>2. a = Nothing \/ Good(a)
    BY <1>1, <2>1
  <2>3. Good(a) => Good(a)'
    BY GoodStays
  <2> QED BY <2>1, <2>2, <2>3 DEF Good
<1> QED BY <1>1 DEF VotesOK

\* The execution x is what the settlement s says.
SettledBy(s, x) ==
    /\ x.nonce = s.id
    /\ Len(x.transfers) <= Len(s.txs)
    /\ \A i \in DOMAIN x.transfers :
          /\ x.transfers[i].amount = s.txs[i].amount
          /\ x.transfers[i].recipient = EthRecipientOf[s.txs[i].from]
    /\ \A i \in DOMAIN s.txs :
          s.statuses[i] = "Executed" <=>
              (i \in DOMAIN x.transfers /\ x.statuses[i] = "Executed")

\* The property, with the settlement and the execution as parameters.
LEMMA SettledMeans ==
    SettledAsExecuted <=> \A s \in Range(settlements) : \E x \in Range(executions) : SettledBy(s, x)
BY Zenon DEF SettledAsExecuted, SettledBy

LEMMA SettledMeansNext ==
    SettledAsExecuted' <=>
        \A s \in Range(settlements') : \E x \in Range(executions') : SettledBy(s, x)
BY Zenon DEF SettledAsExecuted, SettledBy

\* A call that leaves the safe alone.
LEMMA SafeRests ==
    ASSUME SafeInv, ShortIfFixed, UNCHANGED <<block, safeVars>>
    PROVE  SafeInv' /\ ShortIfFixed' /\ UNCHANGED safe
<1>1. UNCHANGED safe
  BY DEF safeVars
<1> QED BY <1>1, SettingsKeep DEF ShortIfFixed, ShortBatches

LEMMA SettlementsRest ==
    ASSUME SettlementsOK, ExecutionsStay, UNCHANGED settlements,
           safe'.firstBatchId = safe.firstBatchId
    PROVE  SettlementsOK'
<1>1. SettledAsExecuted'
  BY SettledMeans, SettledMeansNext, Zenon DEF SettlementsOK, ExecutionsStay
<1> QED BY <1>1 DEF SettlementsOK, Settlement

\* The batches that count are lists of transactions.
LEMMA BatchesAreTyped ==
    ASSUME SafeInv, SettlementsOK
    PROVE  /\ BatchesTyped
           /\ safe.firstBatchId \in BatchIds /\ safe.firstBatchId \in 1 .. safe.firstBatchId
           /\ FirstBatch(safe) \in Seq(SafeTx) /\ BatchOf(safe.firstBatchId) = FirstBatch(safe)
           /\ \A n \in 1 .. safe.firstBatchId :
                 n # safe.firstBatchId => n \in 1 .. Len(settlements)
                                          /\ BatchOf(n) = settlements[n].txs
<1> DEFINE first == safe.firstBatchId
<1>1. first \in BatchIds /\ safe.pendingBatches \in [BatchIds -> Seq(SafeTx)]
  BY SafeInvMeans DEF SafeTypeOK
<1>2. first \in Nat \ {0}
  BY <1>1, TxBatchAssumption DEF BatchIds
<1>3. FirstBatch(safe) \in Seq(SafeTx)
  BY <1>1 DEF FirstBatch
<1>4. settlements \in Seq(Settlement) /\ Len(settlements) + 1 = first
  BY DEF SettlementsOK
<1>5. Len(settlements) \in Nat
  BY <1>4, LenProperties
<1> HIDE DEF first
<1>6. ASSUME NEW n \in 1 .. first
      PROVE  /\ n # first => n \in 1 .. Len(settlements) /\ n < first
             /\ n = first => ~(n < first)
  BY <1>2, <1>4, <1>5
<1>7. \A n \in 1 .. Len(settlements) : settlements[n].txs \in Seq(SafeTx)
  <2>1. \A n \in 1 .. Len(settlements) : settlements[n] \in Settlement
    BY <1>4, ElementOfSeq
  <2> QED BY <2>1 DEF Settlement
<1>8. \A n \in 1 .. first : n # first => BatchOf(n) = settlements[n].txs
  BY <1>6 DEF BatchOf, first
<1>9. first \in 1 .. first
  BY <1>2
<1>10. BatchOf(first) = FirstBatch(safe)
  BY <1>6, <1>9 DEF BatchOf, first
<1>11. \A n \in 1 .. first : BatchOf(n) \in Seq(SafeTx)
  BY <1>3, <1>6, <1>7, <1>8, <1>10
<1> QED BY <1>1, <1>2, <1>3, <1>6, <1>8, <1>9, <1>10, <1>11 DEF BatchesTyped, first

\* Nothing happens to the batches.
LEMMA SameBatches ==
    ASSUME SafeInv, SettlementsOK, SafeInv', SettlementsOK', UNCHANGED <<safe, block, settlements>>
    PROVE  BatchesStay
<1>1. BatchesTyped /\ BatchesTyped'
  BY BatchesAreTyped DEF BatchesTyped, BatchOf, FirstBatch
<1>2. \A n : BatchOf(n)' = BatchOf(n) /\ (Closed(n) => Closed(n)')
  BY DEF BatchOf, FirstBatch, Closed, FirstIsFull, IsBatchFull
<1>3. \A n \in 1 .. safe.firstBatchId : Len(BatchOf(n)) \in Nat
  BY <1>1, LenProperties DEF BatchesTyped
<1> QED BY <1>1, <1>2, <1>3 DEF BatchesStay, BatchesTyped

ContractsStep == ContractsInv' /\ SettlementsOK' /\ BatchesStay /\ ActionsStay

\* Signing, proposing and configuring leave the safe and what was settled alone.
LEMMA SafeRestsToo ==
    ASSUME ContractsInv, SettlementsOK, ExecutionsStay, UNCHANGED <<block, safeVars, settlements>>,
           MultisigTypeOK', ActionsInv', StatusesNotEmpty', VotesOK', ActionsStay
    PROVE  ContractsStep
<1>1. SafeInv /\ ShortIfFixed
  BY DEF ContractsInv
<1>2. SafeInv' /\ ShortIfFixed' /\ UNCHANGED safe
  BY <1>1, SafeRests
<1>3. SettlementsOK'
  BY <1>2, SettlementsRest
<1>4. BatchesStay
  BY <1>1, <1>2, <1>3, SameBatches
<1> QED BY <1>2, <1>3, <1>4 DEF ContractsInv, ContractsStep

LEMMA ProposeKeeps ==
    ASSUME ContractsInv, SettlementsOK, ExecutionsStay, UNCHANGED settlements,
           NEW r \in Relayers, NEW batchId \in BatchIds, NEW statuses \in Seq(ProposedStatuses),
           r \in Honest => TrueStatuses(batchId, statuses),
           ProposeEsdtSafeSetCurrentTransactionBatchStatus(r, batchId, statuses)
    PROVE  ContractsStep
<1> DEFINE action == SetStatus(batchId, statuses)
           new == Len(actions')
<1>1. MultisigTypeOK /\ ActionsInv /\ VotesOK /\ SafeInv /\ StatusesNotEmpty
  BY DEF ContractsInv
<1>2. MultisigTypeOK' /\ ActionsInv'
  BY <1>1, ProposeStatusType, ProposeStatusKeepsInv
<1>3. /\ ProposeAction(r, action) /\ HasCurrentTxBatch(safe) /\ Len(statuses) = CurrentBatchLen
      /\ UNCHANGED <<block, safeVars, quorum>>
  BY DEF ProposeEsdtSafeSetCurrentTransactionBatchStatus, boardVars
<1>4. /\ DOMAIN actions' = DOMAIN actions \cup {new}
      /\ new \notin DOMAIN actions
      /\ \A j \in DOMAIN actions : actions'[j] = actions[j]
      /\ actions'[new] = action
  BY <1>1, <1>3, ProposalIsLast
<1>5. /\ \A j \in DOMAIN actions : signers'[j] = signers[j]
      /\ signers'[new] \subseteq {r}
  <2>1. signers' = Append(signers, IF HasEnoughStake(r) THEN {r} ELSE {})
    BY <1>3 DEF ProposeAction
  <2>2. /\ signers \in Seq(SUBSET Relayers) /\ Len(signers) = Len(actions)
        /\ DOMAIN actions = 1 .. Len(actions) /\ actions \in Seq(ActionType)
    BY <1>1 DEF MultisigTypeOK
  <2>3. new = Len(signers) + 1
    BY <1>3, <2>2 DEF ProposeAction
  <2> HIDE DEF new
  <2>4. (IF HasEnoughStake(r) THEN {r} ELSE {}) \in SUBSET {r}
        /\ (IF HasEnoughStake(r) THEN {r} ELSE {}) \in SUBSET Relayers
    OBVIOUS
  <2> QED BY <2>1, <2>2, <2>3, <2>4, AppendProperties
<1> HIDE DEF new
<1>6. action.type = "SetStatus" /\ action.batchId = batchId /\ action.statuses = statuses
  BY DEF SetStatus
<1>7. ActionsStay
  BY <1>4 DEF ActionsStay
<1>8. StatusesNotEmpty'
  <2>1. Len(statuses) # 0
    BY <1>1, <1>3, CurrentBatchNotEmpty
  <2>2. statuses # <<>>
    BY <2>1
  <2> QED BY <1>1, <1>4, <1>6, <2>2, Zenon DEF StatusesNotEmpty
<1>9. VotesOK'
  <2>1. r \in Honest => Good(action)
    BY <1>6 DEF Good
  <2>2. \A q \in Honest : q \in signers'[new] => Good(action)
    BY <1>5, <2>1
  <2> HIDE DEF action
  <2>3. ASSUME NEW id \in DOMAIN actions'
        PROVE  /\ actions'[id].type # "BatchTransfer"
               /\ \A q \in Honest :
                     q \in signers'[id] => actions'[id] = Nothing \/ Good(actions'[id])
    <3>1. CASE id \in DOMAIN actions
      <4>1. actions'[id] = actions[id] /\ signers'[id] = signers[id]
        BY <1>4, <1>5, <3>1
      <4> QED BY <1>1, <3>1, <4>1, Zenon DEF VotesOK
    <3>2. CASE id = new
      BY <1>4, <1>6, <2>2, <3>2
    <3> QED BY <1>4, <3>1, <3>2
  <2>4. quorum' = InitialQuorum
    BY <1>1, <1>3 DEF VotesOK
  <2> QED BY <2>3, <2>4, VotesKeep
<1> QED BY <1>2, <1>3, <1>7, <1>8, <1>9, SafeRestsToo

LEMMA SignKeeps ==
    ASSUME ContractsInv, SettlementsOK, ExecutionsStay, UNCHANGED settlements,
           NEW r \in Relayers, NEW id \in DOMAIN actions,
           r \in Honest => actions[id] = Nothing \/ Good(actions[id]),
           Sign(r, id)
    PROVE  ContractsStep
<1>1. MultisigTypeOK /\ ActionsInv /\ VotesOK /\ StatusesNotEmpty
  BY DEF ContractsInv
<1>2. MultisigTypeOK'
  BY <1>1, RelayerType DEF RelayerNext
<1>3. /\ signers' = [signers EXCEPT ![id] = @ \cup {r}]
      /\ UNCHANGED <<block, safeVars, safe, quorum, actions, transferActions, statusActions, ethVars>>
  BY DEF Sign, safeVars, boardVars
<1>4. ActionsInv'
  <2>1. SafeShape /\ SafeShape' /\ safe'.firstBatchId = safe.firstBatchId
    BY <1>1, <1>3 DEF ActionsInv, SafeShape
  <2> QED BY <1>1, <1>3, <2>1, OtherStepsKeepInv
<1>5. ActionsStay /\ StatusesNotEmpty'
  BY <1>1, <1>3 DEF ActionsStay, StatusesNotEmpty
<1>6. VotesOK'
  <2>1. DOMAIN signers = DOMAIN actions
    BY <1>1 DEF MultisigTypeOK
  <2>2. ASSUME NEW j \in DOMAIN actions, NEW q \in Honest, q \in signers'[j]
        PROVE  actions[j] = Nothing \/ Good(actions[j])
    <3>1. q \in signers[j] \/ (j = id /\ q = r)
      BY <1>3, <2>1, <2>2
    <3> QED BY <1>1, <2>2, <3>1, Zenon DEF VotesOK
  <2>3. \A j \in DOMAIN actions : actions[j].type # "BatchTransfer"
    BY <1>1 DEF VotesOK
  <2>4. quorum' = InitialQuorum
    BY <1>1, <1>3 DEF VotesOK
  <2> QED BY <1>3, <2>2, <2>3, <2>4, VotesKeep
<1> QED BY <1>2, <1>3, <1>4, <1>5, <1>6, SafeRestsToo


LEMMA BatchesTypeCorrect == SafeInv /\ SettlementsOK => BatchesTyped
BY BatchesAreTyped

LEMMA BatchesTypeCorrectNext == SafeInv' /\ SettlementsOK' => BatchesTyped'
BY BatchesTypeCorrect, PTL


\* True statuses of the first batch are those of an execution of this batch.
LEMMA TrueIsSettled ==
    ASSUME SafeInv, SettlementsOK, ExecutionsOK, NEW statuses \in Seq(ProposedStatuses),
           Len(statuses) = Len(FirstBatch(safe)), TrueStatuses(safe.firstBatchId, statuses),
           NEW s, s = [id |-> safe.firstBatchId, txs |-> FirstBatch(safe), statuses |-> statuses]
    PROVE  \E x \in Range(executions) : SettledBy(s, x)
<1> DEFINE first == safe.firstBatchId
           batch == FirstBatch(safe)
<1>1. batch \in Seq(SafeTx) /\ BatchOf(first) = batch
  BY BatchesAreTyped
<1>2. PICK x \in Range(executions) :
        /\ x.nonce = first
        /\ \A i \in DOMAIN statuses :
              statuses[i] = "Executed" <=> (i \in DOMAIN x.transfers /\ x.statuses[i] = "Executed")
  BY DEF TrueStatuses
<1>3. PICK k \in DOMAIN executions : x = executions[k]
  BY DEF Range
<1>4. AskedFor(x.nonce, x.transfers)
  <2>1. k \in 1 .. Len(executions)
    BY DEF ExecutionsOK
  <2> QED BY <1>3, <2>1 DEF ExecutionsOK
<1>5. PICK transfers : transfers = x.transfers
  OBVIOUS
<1>6. /\ transfers \in Seq(TransferType) /\ Len(transfers) <= Len(batch)
      /\ \A i \in 1 .. Len(transfers) : transfers[i] = AskedBy(batch[i])
  BY <1>1, <1>2, <1>4, <1>5 DEF AskedFor
<1>7. DOMAIN transfers = 1 .. Len(transfers)
  BY <1>6
<1>8. \A tx : AskedBy(tx).amount = tx.amount /\ AskedBy(tx).recipient = EthRecipientOf[tx.from]
  BY DEF AskedBy
<1>9. DOMAIN statuses = DOMAIN batch
  BY <1>1
<1> HIDE DEF batch, first
<1>10. s.id = first /\ s.txs = batch /\ s.statuses = statuses
  BY DEF batch, first
<1>11. \A i \in DOMAIN transfers :
          /\ transfers[i].amount = batch[i].amount
          /\ transfers[i].recipient = EthRecipientOf[batch[i].from]
  BY <1>6, <1>7, <1>8, Zenon
<1> QED BY <1>2, <1>5, <1>6, <1>9, <1>10, <1>11 DEF SettledBy

\* A pending action with a quorum has the signature of a relayer that runs the program.
LEMMA QuorumIsGood ==
    ASSUME MultisigTypeOK, VotesOK, NEW id \in DOMAIN actions, QuorumReached(id),
           actions[id] # Nothing
    PROVE  Good(actions[id])
<1>1. IsFiniteSet(Faulty)
  BY MultisigAssumption, MultiversXClientAssumption, FS_Subset
<1>2. id \in 1 .. Len(signers) /\ signers[id] \in SUBSET Relayers
  BY DEF MultisigTypeOK
<1>3. ValidSigners(id) \subseteq Honest \cup Faulty
  BY <1>2 DEF ValidSigners, Honest
<1>4. quorum \in Int /\ Cardinality(Faulty) < quorum /\ Cardinality(ValidSigners(id)) >= quorum
  BY MultiversXClientAssumption DEF VotesOK, MultisigTypeOK, QuorumReached
<1>5. PICK r \in Honest : r \in ValidSigners(id)
  BY <1>1, <1>3, <1>4, QuorumMember
<1>6. r \in signers[id]
  BY <1>5 DEF ValidSigners
<1> QED BY <1>6 DEF VotesOK

\* The settlement that performing an action records.
NewSettlement(id) ==
    [id |-> safe.firstBatchId, txs |-> FirstBatch(safe), statuses |-> actions[id].statuses]

\* setTransactionBatchStatus settles the first batch, once.
LEMMA SettlingIs ==
    ASSUME ContractsInv, SettlementsOK, NEW r, NEW id \in DOMAIN actions,
           PerformSetStatus(r, id), RecordSettlement(id)
    PROVE  /\ settlements' = Append(settlements, NewSettlement(id))
           /\ safe' = ClearFirstBatch(safe) /\ FirstBatch(safe) # <<>>
           /\ safe'.firstBatchId = safe.firstBatchId + 1
           /\ actions[id].batchId = safe.firstBatchId
           /\ actions[id].statuses \in Seq(ProposedStatuses)
           /\ Len(actions[id].statuses) = Len(FirstBatch(safe))
<1> DEFINE batch == FirstBatch(safe)
           statuses == actions[id].statuses
<1>1. MultisigTypeOK /\ ActionsInv /\ SafeInv /\ StatusesNotEmpty
  BY DEF ContractsInv
<1>2. /\ actions[id].type = "SetStatus" /\ Len(statuses) = Len(batch)
      /\ safe' = ClearFirstBatch(safe)
      /\ settled' = settled \o [i \in DOMAIN batch |-> batch[i].nonce]
  BY DEF PerformSetStatus, SetTransactionBatchStatus
<1>3. actions[id].batchId = safe.firstBatchId
  BY <1>1, <1>2 DEF ActionsInv, PendingActionsAreCurrent
<1>4. statuses \in Seq(ProposedStatuses) /\ statuses # <<>>
  <2>1. actions[id] \in ActionType
    BY <1>1 DEF MultisigTypeOK
  <2> QED BY <1>1, <1>2, <2>1
          DEF ActionType, TransferAction, StatusAction, Nothing, StatusesNotEmpty
<1>5. batch \in Seq(SafeTx)
  BY <1>1, BatchesAreTyped
<1>6. batch # <<>> /\ Len(batch) \in Nat \ {0}
  <2>1. Len(statuses) # 0 /\ Len(<<>>) = 0
    BY <1>4
  <2> QED BY <1>2, <1>5, <2>1
<1>7. Len(settled') > Len(settled)
  <2>1. PICK more : more = [i \in DOMAIN batch |-> batch[i].nonce]
    OBVIOUS
  <2>2. settled \in Seq(1 .. MaxTx)
    BY <1>1, SafeInvMeans DEF SafeTypeOK
  <2>3. DOMAIN batch = 1 .. Len(batch) /\ \A i \in 1 .. Len(batch) : batch[i].nonce \in Nat
    <3> HIDE DEF batch
    <3>1. \A i \in 1 .. Len(batch) : batch[i] \in SafeTx
      BY <1>5, ElementOfSeq
    <3>2. \A tx \in SafeTx : tx.nonce \in Nat
      BY DEF SafeTx
    <3> QED BY <1>5, <3>1, <3>2
  <2> HIDE DEF batch
  <2>4. more \in Seq(Nat) /\ Len(more) = Len(batch)
    BY <1>6, <2>1, <2>3
  <2>5. settled \in Seq(Nat) /\ settled' = settled \o more
    <3>1. settled' = settled \o more
      BY <1>2, <2>1 DEF batch
    <3>2. settled \in Seq(Nat)
      BY <1>1 DEF SafeInv, SafeOrder, InOrder
    <3> QED BY <3>1, <3>2
  <2>6. Len(settled') = Len(settled) + Len(more) /\ Len(settled) \in Nat
    BY <2>4, <2>5, ConcatProperties
  <2> QED BY <1>6, <2>4, <2>6
<1>8. settlements' = Append(settlements, NewSettlement(id))
  BY <1>7 DEF RecordSettlement, NewSettlement
<1>9. safe'.firstBatchId = safe.firstBatchId + 1
  BY <1>1, <1>2 DEF SafeInv, SafeBatchesOK, BatchesOf, ClearFirstBatch
<1> QED BY <1>2, <1>3, <1>4, <1>6, <1>8, <1>9

LEMMA SettlementAdded ==
    ASSUME SafeInv, SafeInv', SettlementsOK, ExecutionsStay, NEW new \in Settlement,
           settlements' = Append(settlements, new),
           new.id = safe.firstBatchId, new.txs = FirstBatch(safe),
           Len(new.statuses) = Len(new.txs),
           safe'.firstBatchId = safe.firstBatchId + 1,
           \E x \in Range(executions) : SettledBy(new, x)
    PROVE  SettlementsOK' /\ BatchesStay
<1> DEFINE first == safe.firstBatchId
           n == Len(settlements)
<1>1. /\ settlements \in Seq(Settlement) /\ n + 1 = first /\ n \in Nat
      /\ \A k \in 1 .. n :
            settlements[k].id = k /\ Len(settlements[k].statuses) = Len(settlements[k].txs)
      /\ SettledAsExecuted
  BY DEF SettlementsOK
<1>2. first \in Nat
  BY <1>1
<1>3. /\ settlements' \in Seq(Settlement) /\ Len(settlements') = n + 1
      /\ settlements'[n + 1] = new
      /\ \A k \in 1 .. n : settlements'[k] = settlements[k]
  BY <1>1, AppendProperties
<1>4. \A k \in 1 .. Len(settlements') : k \in 1 .. n \/ k = n + 1
  BY <1>1, <1>3
<1>5. SettledAsExecuted'
  <2>1. ASSUME NEW s \in Range(settlements')
        PROVE  \E x \in Range(executions) : SettledBy(s, x)
    <3>1. PICK k \in 1 .. Len(settlements') : s = settlements'[k]
      BY <1>3 DEF Range
    <3>2. CASE k \in 1 .. n
      <4>1. s \in Range(settlements)
        BY <1>1, <1>3, <3>1, <3>2 DEF Range
      <4> QED BY <1>1, <4>1, SettledMeans
    <3>3. CASE k = n + 1
      BY <1>3, <3>1, <3>3
    <3> QED BY <1>4, <3>2, <3>3
  <2> QED BY <2>1, SettledMeansNext, Zenon DEF ExecutionsStay
<1> HIDE DEF n, first
<1>6. Len(settlements') + 1 = safe'.firstBatchId
  BY <1>1, <1>3 DEF first
<1>7. \A k \in 1 .. Len(settlements') :
         settlements'[k].id = k /\ Len(settlements'[k].statuses) = Len(settlements'[k].txs)
  BY <1>1, <1>3, <1>4 DEF first
<1>8. SettlementsOK'
  BY <1>3, <1>5, <1>6, <1>7 DEF SettlementsOK, Settlement
<1>9. BatchesTyped /\ BatchesTyped'
  BY <1>8, BatchesTypeCorrect, BatchesTypeCorrectNext
<1>10. ASSUME NEW k \in 1 .. first
       PROVE  k < safe'.firstBatchId /\ BatchOf(k)' = BatchOf(k) /\ Closed(k)'
  <2>1. k < safe'.firstBatchId
    BY <1>2 DEF first
  <2>2. BatchOf(k)' = settlements'[k].txs
    BY <2>1 DEF BatchOf
  <2>3. CASE k = first
    <3>1. BatchOf(k) = FirstBatch(safe)
      BY <2>3, BatchesAreTyped DEF first
    <3> QED BY <1>1, <1>3, <2>1, <2>2, <2>3, <3>1 DEF Closed
  <2>4. CASE k # first
    <3>1. k \in 1 .. n /\ BatchOf(k) = settlements[k].txs
      BY <2>4, BatchesAreTyped DEF first, n
    <3> QED BY <1>3, <2>1, <2>2, <3>1 DEF Closed
  <2> QED BY <2>3, <2>4
<1>11. \A k \in 1 .. first : Len(BatchOf(k)) \in Nat
  BY <1>9, LenProperties DEF BatchesTyped, first
<1>12. safe.firstBatchId <= safe'.firstBatchId
  BY <1>2 DEF first
<1> QED BY <1>8, <1>9, <1>10, <1>11, <1>12 DEF BatchesStay, first


\* Settling the first batch leaves one more batch settled as it was executed.
LEMMA SettlingKeeps ==
    ASSUME ContractsInv, SettlementsOK, ExecutionsOK, ExecutionsStay,
           NEW r \in Relayers, NEW id \in DOMAIN actions,
           PerformSetStatus(r, id), RecordSettlement(id)
    PROVE  ContractsStep
<1> DEFINE mapped == {m \in statusActions : m.batchId = actions[id].batchId}
           first == safe.firstBatchId
           statuses == actions[id].statuses
<1>1. MultisigTypeOK /\ ActionsInv /\ SafeInv /\ StatusesNotEmpty /\ VotesOK /\ ShortIfFixed
  BY DEF ContractsInv
<1>2. MultisigTypeOK' /\ ActionsInv' /\ SafeInv'
  BY <1>1, RelayerType, PerformStatusKeepsInv, PerformSetStatusKeepsSafe DEF RelayerNext
<1>3. /\ actions[id].type = "SetStatus" /\ MayPerform(r, id)
      /\ ClearActions(ClearedWith(id, mapped)) /\ UNCHANGED quorum
  BY DEF PerformSetStatus, boardVars
<1>4. /\ DOMAIN actions' = DOMAIN actions /\ DOMAIN signers = DOMAIN actions
      /\ \A j \in DOMAIN actions :
            \/ actions'[j] = actions[j] /\ signers'[j] = signers[j]
            \/ actions'[j] = Nothing /\ signers'[j] = {}
  <2>1. DOMAIN signers = DOMAIN actions
    BY <1>1 DEF MultisigTypeOK
  <2> HIDE DEF mapped
  <2> QED BY <1>3, <2>1 DEF ClearActions
<1>5. ActionsStay /\ StatusesNotEmpty'
  <2>1. Nothing.type # "SetStatus"
    BY DEF Nothing
  <2> QED BY <1>1, <1>4, <2>1 DEF ActionsStay, StatusesNotEmpty
<1>6. VotesOK'
  <2>1. quorum' = InitialQuorum
    BY <1>1, <1>3 DEF VotesOK
  <2>2. Nothing.type # "BatchTransfer"
    BY DEF Nothing
  <2>3. ASSUME NEW j \in DOMAIN actions'
        PROVE  /\ actions'[j].type # "BatchTransfer"
               /\ \A q \in Honest :
                     q \in signers'[j] => actions'[j] = Nothing \/ Good(actions'[j])
    BY <1>1, <1>4, <2>2, <2>3, Zenon DEF VotesOK
  <2> QED BY <2>1, <2>3, VotesKeep
<1>7. ShortIfFixed'
  <2>1. safe' = ClearFirstBatch(safe)
    BY DEF PerformSetStatus, SetTransactionBatchStatus
  <2>2. safe.pendingBatches \in [BatchIds -> Seq(SafeTx)] /\ safe \in BatchesOf(SafeTx)
    BY <1>1 DEF SafeInv, SafeBatchesOK, BatchesOf
  <2>3. /\ safe'.maxTxBatchSize = safe.maxTxBatchSize
        /\ \A j \in BatchIds : safe'.pendingBatches[j] = <<>>
                               \/ safe'.pendingBatches[j] = safe.pendingBatches[j]
    BY <2>1, <2>2 DEF ClearFirstBatch, BatchesOf
  <2>4. ASSUME NEW size \in BatchSizes, ShortBatches(safe, size) PROVE ShortBatches(safe, size)'
    <3>1. Len(<<>>) <= size
      BY EsdtSafeAssumption
    <3> QED BY <2>3, <2>4, <3>1 DEF ShortBatches
  <2> QED BY <1>1, <2>4 DEF ShortIfFixed
<1>8. Good(actions[id])
  <2>1. QuorumReached(id) /\ actions[id] # Nothing
    BY <1>3 DEF MayPerform, IsPending
  <2> QED BY <1>1, <2>1, QuorumIsGood
<1>9. /\ settlements' = Append(settlements, NewSettlement(id))
      /\ safe'.firstBatchId = first + 1 /\ actions[id].batchId = first
      /\ statuses \in Seq(ProposedStatuses) /\ Len(statuses) = Len(FirstBatch(safe))
  BY SettlingIs
<1>10. TrueStatuses(first, statuses)
  BY <1>8, <1>9 DEF Good
<1> HIDE DEF statuses
<1>11. PICK new : new = [id |-> first, txs |-> FirstBatch(safe), statuses |-> statuses]
  OBVIOUS
<1>12. /\ new = NewSettlement(id) /\ new.id = first /\ new.txs = FirstBatch(safe)
       /\ new.statuses = statuses
  BY <1>11 DEF NewSettlement, statuses
<1>13. new \in Settlement
  <2>1. first \in BatchIds /\ FirstBatch(safe) \in Seq(SafeTx)
    BY <1>1, BatchesAreTyped
  <2>2. first \in Nat
    BY <2>1, TxBatchAssumption DEF BatchIds
  <2> QED BY <1>9, <1>11, <2>1, <2>2 DEF Settlement
<1>14. \E x \in Range(executions) : SettledBy(new, x)
  BY <1>1, <1>9, <1>10, <1>11, TrueIsSettled
<1>15. SettlementsOK' /\ BatchesStay
  BY <1>1, <1>2, <1>9, <1>12, <1>13, <1>14, SettlementAdded
<1> QED BY <1>2, <1>5, <1>6, <1>7, <1>15 DEF ContractsInv, ContractsStep

\* The contracts do nothing.
LEMMA ContractsRest ==
    ASSUME ContractsInv, SettlementsOK, ExecutionsStay, UNCHANGED <<vars, settlements>>
    PROVE  ContractsStep
<1>1. MultisigTypeOK /\ ActionsInv /\ StatusesNotEmpty /\ VotesOK
  BY DEF ContractsInv
<1>2. UNCHANGED <<block, safeVars, safe, quorum, actions, signers, transferActions, statusActions,
                  ethVars, boardVars, multisigPaused>>
  BY DEF vars, safeVars, multisigVars, boardVars, actionVars
<1>3. MultisigTypeOK'
  BY <1>1, <1>2 DEF MultisigTypeOK, boardVars, ethVars
<1>4. ActionsInv'
  <2>1. SafeShape' /\ safe'.firstBatchId = safe.firstBatchId
    BY <1>1, <1>2 DEF ActionsInv, SafeShape
  <2> QED BY <1>1, <1>2, <2>1, OtherStepsKeepInv
<1>5. VotesOK'
  BY <1>1, <1>2, VotesKeep DEF VotesOK
<1>6. StatusesNotEmpty' /\ ActionsStay
  BY <1>1, <1>2 DEF StatusesNotEmpty, ActionsStay
<1> QED BY <1>1, <1>2, <1>3, <1>4, <1>5, <1>6, SafeRestsToo



------------------------------------------------------------------------------
(* Users, the owner of the safe and the blocks *)

\* A user's transaction is the last one of the queue, and perhaps of the first batch.
LEMMA TransactionAdded ==
    ASSUME SafeInv, NEW from \in Users, NEW payment \in Payments, NEW fee \in RequiredFees,
           CreateTransaction(from, payment, fee)
    PROVE  \E tx \in SafeTx :
              /\ tx.from = from /\ tx.amount \in 0 .. payment
              /\ Queue(safe') = Append(Queue(safe), tx)
              /\ safe'.firstBatchId = safe.firstBatchId
              /\ \/ FirstBatch(safe') = FirstBatch(safe)
                 \/ FirstBatch(safe') = Append(FirstBatch(safe), tx)
<1> DEFINE net == payment - fee
           serviceFee == ServiceFee(net)
           nonce == safe.lastTxNonce + 1
           new == [block |-> block, nonce |-> nonce, from |-> from,
                   amount |-> net - serviceFee, serviceFee |-> serviceFee,
                   isRefundTx |-> FALSE]
           b == [safe EXCEPT !.lastTxNonce = nonce]
<1>1. /\ fee < payment /\ serviceFee <= net /\ nonce <= MaxTx
      /\ safe' = AddToBatch(b, new)
  BY DEF CreateTransaction
<1>2. safe.lastTxNonce \in Nat
  BY SafeInvTypes
<1>3. payment \in Nat /\ fee \in Nat /\ net \in Nat /\ MaxTx \in Nat
  BY <1>1, EsdtSafeAssumption, TxBatchAssumption
<1>4. SafeSettingsOK /\ SafeBatchesOK
  BY DEF SafeInv
<1>5. net <= payment
  BY <1>3
<1> HIDE DEF net
<1>6. serviceFee \in Nat
  BY <1>3, <1>4, ServiceFeeNat
<1> HIDE DEF serviceFee
<1>7. nonce \in Nat /\ safe.lastTxNonce < MaxTx
  BY <1>1, <1>2, <1>3
<1>8. net - serviceFee \in 0 .. payment /\ block \in Nat
  <2>1. \A n, s, p \in Nat : n <= p /\ s <= n => n - s \in 0 .. p
    OBVIOUS
  <2> QED BY <1>1, <1>3, <1>4, <1>5, <1>6, <2>1 DEF SafeSettingsOK
<1>9. net - serviceFee \in Nat
  BY <1>3, <1>8
<1>10. PICK tx : tx = new
  OBVIOUS
<1>11. tx \in SafeTx /\ tx.from = from /\ tx.amount = net - serviceFee
  BY <1>6, <1>7, <1>8, <1>9, <1>10 DEF SafeTx
<1>12. safe \in BatchesOf(SafeTx) /\ Window(safe, safe.lastTxNonce)
  BY <1>4 DEF SafeBatchesOK
<1>13. b.firstBatchId = safe.firstBatchId /\ b.pendingBatches = safe.pendingBatches
  BY <1>12 DEF BatchesOf
<1>14. b \in BatchesOf(SafeTx) /\ Window(b, safe.lastTxNonce) /\ Queue(b) = Queue(safe)
  BY <1>7, <1>12, NextNonce
<1> HIDE DEF b, new, nonce
<1>15. safe' = AddToBatch(b, tx)
  BY <1>1, <1>10
<1>16. Queue(safe') = Append(Queue(safe), tx)
  BY <1>2, <1>7, <1>11, <1>14, <1>15, AddingOne
<1>17. safe'.firstBatchId = b.firstBatchId /\ safe'.pendingBatches = Extended(b, tx)
  BY <1>11, <1>14, <1>15, AddToBatchFields
<1>18. \/ FirstBatch(safe') = FirstBatch(safe)
       \/ FirstBatch(safe') = Append(FirstBatch(safe), tx)
  <2>1. b.firstBatchId \in BatchIds /\ DOMAIN b.pendingBatches = BatchIds
    BY <1>14, <1>4, <1>13, SafeInvMeans DEF SafeTypeOK, BatchesOf
  <2>2. Extended(b, tx)[b.firstBatchId] =
           IF NextId(b) = b.firstBatchId THEN Append(b.pendingBatches[b.firstBatchId], tx)
           ELSE b.pendingBatches[b.firstBatchId]
    BY <2>1 DEF Extended
  <2> QED BY <1>13, <1>17, <2>2 DEF FirstBatch
<1> QED BY <1>8, <1>11, <1>13, <1>16, <1>17, <1>18

\* What users and the owner of the safe may do.
UserCall ==
    \/ \E from \in Users, payment \in Payments, fee \in RequiredFees :
          CreateTransaction(from, payment, fee)
    \/ \E size \in BatchSizes : SafeSetMaxTxBatchSize(size)

\* The first batch grows at its end.
LEMMA FirstBatchGrows ==
    ASSUME SafeInv, UserCall
    PROVE  /\ safe'.firstBatchId = safe.firstBatchId
           /\ FirstBatch(safe) \in Seq(SafeTx)
           /\ Len(FirstBatch(safe)) <= Len(FirstBatch(safe'))
           /\ \A i \in 1 .. Len(FirstBatch(safe)) : FirstBatch(safe')[i] = FirstBatch(safe)[i]
<1>1. PICK old, new : old = FirstBatch(safe) /\ new = FirstBatch(safe')
  OBVIOUS
<1>2. safe.firstBatchId \in BatchIds /\ old \in Seq(SafeTx) /\ safe \in BatchesOf(SafeTx)
  BY <1>1, SafeInvMeans DEF SafeTypeOK, FirstBatch, SafeInv, SafeBatchesOK
<1>3. /\ safe'.firstBatchId = safe.firstBatchId
      /\ new = old \/ \E tx \in SafeTx : new = Append(old, tx)
  <2>1. CASE \E size \in BatchSizes : SafeSetMaxTxBatchSize(size)
    BY <1>1, <1>2, <2>1 DEF SafeSetMaxTxBatchSize, SetMaxTxBatchSize, FirstBatch, BatchesOf
  <2>2. CASE \E from \in Users, payment \in Payments, fee \in RequiredFees :
                CreateTransaction(from, payment, fee)
    BY <1>1, <2>2, TransactionAdded
  <2> QED BY <2>1, <2>2 DEF UserCall
<1>4. Len(old) <= Len(new) /\ \A i \in 1 .. Len(old) : new[i] = old[i]
  <2>1. Len(old) \in Nat
    BY <1>2
  <2>2. CASE new = old
    BY <2>1, <2>2
  <2>3. ASSUME NEW tx \in SafeTx, new = Append(old, tx)
        PROVE  Len(old) <= Len(new) /\ \A i \in 1 .. Len(old) : new[i] = old[i]
    BY <1>2, <2>1, <2>3, AppendProperties
  <2> QED BY <1>3, <2>2, <2>3
<1> QED BY <1>1, <1>2, <1>3, <1>4

\* While the settings stay, a closed batch takes no more transactions.
LEMMA ClosedStays ==
    ASSUME SafeInv, ShortIfFixed, UserCall, UNCHANGED block
    PROVE  /\ ShortIfFixed'
           /\ SettingsFixed /\ FirstIsFull(safe) => FirstIsFull(safe)' /\ SameFirst(safe, safe')
<1>1. SafeUserNext \/ SafeConfigNext
  BY DEF UserCall, SafeUserNext, SafeConfigNext
<1>2. ASSUME NEW size \in BatchSizes, NEW duration \in BatchDurations,
             BatchSizes = {size}, BatchDurations = {duration}
      PROVE  ShortBatches(safe', size) /\ (FirstIsFull(safe) => SameFirst(safe, safe'))
  <2>1. size \in Nat /\ size # 0
    BY EsdtSafeAssumption
  <2>2. ShortBatches(safe, size)
    BY <1>2 DEF ShortIfFixed
  <2> QED BY <1>1, <1>2, <2>1, <2>2, SafeStepFits
<1>3. ShortIfFixed'
  BY <1>2 DEF ShortIfFixed, ShortBatches
<1>4. SameFirst(safe, safe') /\ FirstIsFull(safe) => FirstIsFull(safe)'
  BY DEF SameFirst, FirstIsFull, IsBatchFull, FirstBatch
<1> QED BY <1>2, <1>3, <1>4 DEF SettingsFixed

LEMMA UserKeeps ==
    ASSUME ContractsInv, SettlementsOK, ExecutionsStay, UserCall,
           UNCHANGED <<block, multisigVars, settlements>>
    PROVE  ContractsStep
<1> DEFINE first == safe.firstBatchId
<1>1. /\ MultisigTypeOK /\ ActionsInv /\ StatusesNotEmpty /\ VotesOK /\ SafeInv /\ ShortIfFixed
  BY DEF ContractsInv
<1>2. UNCHANGED <<block, quorum, actions, signers, transferActions, statusActions, ethVars, boardVars,
                  multisigPaused>>
  BY DEF multisigVars, boardVars, actionVars
<1>3. SafeUserNext \/ SafeConfigNext
  BY DEF UserCall, SafeUserNext, SafeConfigNext
<1>4. SafeInv'
  BY <1>1, <1>2, <1>3, SafeContractKeeps
<1>5. MultisigTypeOK'
  BY <1>1, <1>2 DEF MultisigTypeOK, boardVars, ethVars
<1>6. ActionsInv'
  <2>1. SafeShape' /\ safe'.firstBatchId = safe.firstBatchId
    BY <1>1, <1>3, SafeKeepsFirstBatch DEF ActionsInv
  <2> QED BY <1>1, <1>2, <2>1, OtherStepsKeepInv
<1>7. VotesOK'
  BY <1>1, <1>2, VotesKeep DEF VotesOK
<1>8. StatusesNotEmpty' /\ ActionsStay
  BY <1>1, <1>2 DEF StatusesNotEmpty, ActionsStay
<1>9. /\ safe'.firstBatchId = first /\ first \in Nat
      /\ FirstBatch(safe) \in Seq(SafeTx)
      /\ Len(FirstBatch(safe)) <= Len(FirstBatch(safe'))
      /\ \A i \in 1 .. Len(FirstBatch(safe)) : FirstBatch(safe')[i] = FirstBatch(safe)[i]
  BY <1>1, FirstBatchGrows, BatchesAreTyped DEF BatchesTyped
<1>10. SettlementsOK'
  BY <1>9, SettlementsRest
<1>11. /\ ShortIfFixed'
       /\ SettingsFixed /\ FirstIsFull(safe) => FirstIsFull(safe)' /\ SameFirst(safe, safe')
  BY <1>1, <1>2, ClosedStays
<1>12. BatchesTyped /\ BatchesTyped'
  BY <1>1, <1>4, <1>10, BatchesTypeCorrect, BatchesTypeCorrectNext
<1> HIDE DEF first
<1>13. ASSUME NEW n \in 1 .. first
       PROVE  /\ Len(BatchOf(n)) <= Len(BatchOf(n)')
              /\ \A i \in 1 .. Len(BatchOf(n)) : BatchOf(n)'[i] = BatchOf(n)[i]
              /\ SettingsFixed /\ Closed(n) => Closed(n)' /\ Len(BatchOf(n)') = Len(BatchOf(n))
  <2>1. n < first \/ n = first
    BY <1>9
  <2>2. CASE n < first
    <3>1. BatchOf(n)' = BatchOf(n) /\ Closed(n)'
      BY <1>9, <2>2 DEF BatchOf, Closed, first
    <3>2. Len(BatchOf(n)) \in Nat
      BY <1>12, LenProperties DEF BatchesTyped, first
    <3> QED BY <3>1, <3>2
  <2>3. CASE n = first
    <3>1. ~(n < first)
      BY <1>9, <2>3
    <3>2. BatchOf(n) = FirstBatch(safe) /\ BatchOf(n)' = FirstBatch(safe')
      BY <1>9, <3>1 DEF BatchOf, first, FirstBatch
    <3>3. SettingsFixed /\ Closed(n) => Closed(n)' /\ FirstBatch(safe') = FirstBatch(safe)
      BY <1>11, <3>1 DEF Closed, first, SameFirst
    <3> QED BY <1>9, <3>2, <3>3
  <2> QED BY <2>1, <2>2, <2>3
<1>14. BatchesStay
  BY <1>9, <1>12, <1>13 DEF BatchesStay, first
<1> QED BY <1>4, <1>5, <1>6, <1>7, <1>8, <1>10, <1>11, <1>14 DEF ContractsInv, ContractsStep

LEMMA BlockKeeps ==
    ASSUME ContractsInv, SettlementsOK, ExecutionsStay, NextBlock,
           UNCHANGED <<safeVars, multisigVars, settlements>>
    PROVE  ContractsStep
<1>1. /\ MultisigTypeOK /\ ActionsInv /\ StatusesNotEmpty /\ VotesOK /\ SafeInv /\ ShortIfFixed
  BY DEF ContractsInv
<1>2. UNCHANGED <<safe, quorum, actions, signers, transferActions, statusActions, ethVars, boardVars,
                  multisigPaused>>
  BY DEF multisigVars, boardVars, actionVars, safeVars
<1>3. SafeInv' /\ block' = block + 1
  BY <1>1, SettingsKeep DEF NextBlock
<1>4. MultisigTypeOK'
  BY <1>1, <1>2 DEF MultisigTypeOK, boardVars, ethVars
<1>5. ActionsInv'
  <2>1. SafeShape' /\ safe'.firstBatchId = safe.firstBatchId
    BY <1>1, <1>2 DEF ActionsInv, SafeShape
  <2> QED BY <1>1, <1>2, <2>1, OtherStepsKeepInv
<1>6. VotesOK'
  BY <1>1, <1>2, VotesKeep DEF VotesOK
<1>7. StatusesNotEmpty' /\ ActionsStay /\ ShortIfFixed'
  BY <1>1, <1>2 DEF StatusesNotEmpty, ActionsStay, ShortIfFixed, ShortBatches
<1>8. SettlementsOK'
  BY <1>2, SettlementsRest
<1>9. BatchesTyped /\ BatchesTyped'
  BY <1>1, <1>3, <1>8, BatchesTypeCorrect, BatchesTypeCorrectNext
<1>10. FirstIsFull(safe) => FirstIsFull(safe)'
  BY <1>1, <1>2, <1>3, ClosedStaysClosed
<1>11. \A n : BatchOf(n)' = BatchOf(n) /\ (Closed(n) => Closed(n)')
  BY <1>2, <1>10 DEF BatchOf, FirstBatch, Closed
<1>12. \A n \in 1 .. safe.firstBatchId : Len(BatchOf(n)) \in Nat
  BY <1>9, LenProperties DEF BatchesTyped
<1>13. BatchesStay
  BY <1>2, <1>9, <1>11, <1>12 DEF BatchesStay, BatchesTyped
<1> QED BY <1>3, <1>4, <1>5, <1>6, <1>7, <1>8, <1>13 DEF ContractsInv, ContractsStep



------------------------------------------------------------------------------
(* The calls that reach the multisig *)

\* Nothing is recorded when nothing is settled.
LEMMA NothingRecorded ==
    ASSUME SafeInv, UNCHANGED settled, NEW id, RecordSettlement(id)
    PROVE  UNCHANGED settlements
<1>1. Len(settled) \in Nat
  BY DEF SafeInv, SafeOrder, InOrder
<1>2. ~(Len(settled') > Len(settled))
  BY <1>1
<1> QED BY <1>2 DEF RecordSettlement

LEMMA StatusLists == Seq(Statuses) \subseteq Seq(ProposedStatuses)
<1>1. \A x \in Statuses : x \in ProposedStatuses
  BY MultiversXToEthAssumption DEF Statuses
<1> QED BY <1>1

\* A relayer's transaction is executed.
LEMMA CallKeeps ==
    ASSUME ContractsInv, SettlementsOK, ExecutionsOK, ExecutionsStay,
           NEW r \in Honest, NEW tx \in Transactions, TxOK(tx), Calls(r, tx),
           RecordSettlement(tx.id)
    PROVE  ContractsStep
<1>1. r \in Relayers /\ tx.type # "propose" /\ tx.id \in Nat /\ tx.args \in Seq(Statuses)
  BY DEF Honest, Transactions
<1>2. SafeInv
  BY DEF ContractsInv
<1>3. CASE tx.type = "setStatus"
           /\ ProposeEsdtSafeSetCurrentTransactionBatchStatus(r, tx.id, tx.args)
  <2>1. tx.id = safe.firstBatchId /\ UNCHANGED safeVars
    BY <1>3 DEF ProposeEsdtSafeSetCurrentTransactionBatchStatus
  <2>2. UNCHANGED settlements
    BY <1>2, <2>1, NothingRecorded DEF safeVars
  <2>3. TrueStatuses(tx.id, tx.args)
    BY <1>3, <2>1 DEF TxOK, Resolved
  <2>4. tx.id \in BatchIds
    BY <1>2, <2>1, SafeInvMeans DEF SafeTypeOK
  <2>5. tx.args \in Seq(ProposedStatuses)
    BY <1>1, StatusLists
  <2> QED BY <1>1, <1>3, <2>2, <2>3, <2>4, <2>5, ProposeKeeps
<1>4. CASE tx.type = "sign" /\ Sign(r, tx.id)
  <2>1. tx.id \in DOMAIN actions /\ (actions[tx.id] = Nothing \/ Good(actions[tx.id]))
    BY <1>4 DEF TxOK
  <2>2. UNCHANGED settlements
    BY <1>2, <1>4, NothingRecorded DEF Sign, safeVars
  <2> QED BY <1>1, <1>4, <2>1, <2>2, SignKeeps
<1>5. CASE PerformBatchTransfer(r, tx.id)
  <2>1. tx.id \in DOMAIN actions /\ actions[tx.id].type = "BatchTransfer"
    BY <1>5 DEF PerformBatchTransfer, MayPerform, IsPending
  <2> QED BY <2>1 DEF ContractsInv, VotesOK
<1>6. CASE PerformSetStatus(r, tx.id)
  <2>1. tx.id \in DOMAIN actions
    BY <1>6 DEF PerformSetStatus, MayPerform, IsPending
  <2> QED BY <1>1, <1>6, <2>1, SettlingKeeps
<1> QED BY <1>1, <1>3, <1>4, <1>5, <1>6 DEF Calls

\* A relayer that follows no program calls the multisig.
LEMMA FaultyCallKeeps ==
    ASSUME ContractsInv, SettlementsOK, ExecutionsOK, ExecutionsStay,
           NEW r \in Faulty, FaultyCallOnMultiversX(r)
    PROVE  ContractsStep
<1>1. r \in Relayers /\ r \notin Honest
  BY MultiversXClientAssumption DEF Honest
<1>2. CASE \E batchId \in BatchIds, statuses \in Lists(ProposedStatuses, MaxStatuses) :
              /\ ProposeEsdtSafeSetCurrentTransactionBatchStatus(r, batchId, statuses)
              /\ UNCHANGED settlements
  <2>1. PICK batchId \in BatchIds, statuses \in Lists(ProposedStatuses, MaxStatuses) :
              /\ ProposeEsdtSafeSetCurrentTransactionBatchStatus(r, batchId, statuses)
              /\ UNCHANGED settlements
    BY <1>2
  <2>2. statuses \in Seq(ProposedStatuses)
    BY MultisigAssumption, ListsAreSequences
  <2> QED BY <1>1, <2>1, <2>2, ProposeKeeps
<1>3. CASE \E id \in DOMAIN actions : Sign(r, id) /\ UNCHANGED settlements
  BY <1>1, <1>3, SignKeeps
<1>4. CASE \E id \in DOMAIN actions : PerformSetStatus(r, id) /\ RecordSettlement(id)
  BY <1>1, <1>4, SettlingKeeps
<1> QED BY <1>2, <1>3, <1>4 DEF FaultyCallOnMultiversX


------------------------------------------------------------------------------
(* Ethereum *)

LEMMA ExecutionsRest ==
    ASSUME ExecutionsOK, BatchesStay,
           UNCHANGED <<executions, executedBatches, crossTransferStatuses>>
    PROVE  ExecutionsOK'
<1>1. ASSUME NEW i \in 1 .. Len(executions)
      PROVE  /\ AskedFor(executions[i].nonce, executions[i].transfers)'
             /\ Len(executions'[i].statuses) = Len(executions'[i].transfers)
             /\ executions'[i].nonce \in executedBatches'
  <2>1. PICK n, transfers : n = executions[i].nonce /\ transfers = executions[i].transfers
    OBVIOUS
  <2>2. AskedFor(n, transfers)
    BY <2>1 DEF ExecutionsOK
  <2>3. AskedFor(n, transfers)'
    BY <2>2, AskedStays
  <2> QED BY <2>1, <2>3 DEF ExecutionsOK
<1>2. /\ executions' \in Seq(Execution) /\ Len(executions') = Len(executions)
      /\ DOMAIN crossTransferStatuses' = executedBatches'
      /\ \A n \in executedBatches' :
            \E x \in Range(executions') : x.nonce = n /\ x.statuses = crossTransferStatuses'[n].statuses
  BY DEF ExecutionsOK
<1> QED BY <1>1, <1>2 DEF ExecutionsOK, Execution, TransferType, Statuses

\* What was asked of Ethereum, and done there, as the batches grow.
LEMMA EthereumRests ==
    ASSUME EthereumInv, BatchesStay, UNCHANGED ethereumVars
    PROVE  EthereumInv' /\ ExecutionsStay /\ SignaturesStay
<1>1. UNCHANGED <<ethQuorum, ethSignatures, executions, executedBatches, crossTransferStatuses>>
      /\ UNCHANGED <<ethBlock, erc20Vars>>
  BY DEF ethereumVars, bridgeVars, bridgeConfigVars
<1>2. ERC20SafeTypeOK'
  BY <1>1, SafeTypeStutter DEF EthereumInv
<1>3. SignaturesOK'
  <2>1. \A n, transfers : AskedFor(n, transfers) => AskedFor(n, transfers)'
    BY AskedStays
  <2>2. IsFiniteSet(ethSignatures')
    BY <1>1 DEF EthereumInv, SignaturesOK
  <2>3. ASSUME NEW s \in ethSignatures'
        PROVE  /\ s.signer \in Honest \cup Faulty
               /\ s.signer \in Honest => AskedFor(s.message.nonce, s.message.transfers)'
    BY <1>1, <2>1 DEF EthereumInv, SignaturesOK
  <2> QED BY <2>2, <2>3 DEF SignaturesOK, AskedFor
<1>4. ExecutionsOK'
  BY <1>1, ExecutionsRest DEF EthereumInv
<1> QED BY <1>1, <1>2, <1>3, <1>4 DEF EthereumInv, ExecutionsStay, SignaturesStay


\* A message with a quorum of signatures was signed by a relayer that runs the program.
LEMMA QuorumIsAsked ==
    ASSUME SignaturesOK, ethQuorum = InitialEthQuorum, NEW nonce, NEW transfers, NEW signatures,
           Range(signatures) \subseteq ethSignatures,
           SignersCount(signatures, Message(nonce, transfers)) >= ethQuorum
    PROVE  AskedFor(nonce, transfers)
<1> DEFINE message == Message(nonce, transfers)
           valid == ValidEthSigners(signatures, message)
<1>1. IsFiniteSet(Faulty)
  BY MultisigAssumption, MultiversXClientAssumption, FS_Subset
<1>2. message.nonce = nonce /\ message.transfers = transfers
  BY DEF Message
<1> HIDE DEF message
<1>3. \A q \in valid : \E s \in ethSignatures : s.signer = q /\ s.message = message
  BY DEF ValidEthSigners, Range
<1>4. valid \subseteq Honest \cup Faulty
  BY <1>3 DEF SignaturesOK
<1>5. /\ InitialEthQuorum \in Int /\ Cardinality(Faulty) < InitialEthQuorum
      /\ Cardinality(valid) >= InitialEthQuorum
  BY EthBridgeAssumption, MultiversXToEthAssumption DEF SignersCount, message
<1> HIDE DEF valid
<1>6. PICK q \in Honest : q \in valid
  BY <1>1, <1>4, <1>5, QuorumMember
<1>7. PICK s \in ethSignatures : s.signer = q /\ s.message = message
  BY <1>3, <1>6
<1> QED BY <1>2, <1>7 DEF SignaturesOK

\* Ethereum pays what was asked for, once.
Paid ==
    \E x \in Execution :
        /\ AskedFor(x.nonce, x.transfers) /\ x.nonce \notin executedBatches
        /\ executions' = Append(executions, x)

LEMMA SignatureMade ==
    ASSUME EthereumInv, BatchesStay, NEW signer \in Honest \cup Faulty, NEW nonce, NEW transfers,
           signer \in Honest => AskedFor(nonce, transfers),
           ethSignatures' = ethSignatures \cup
              {[signer |-> signer, message |-> Message(nonce, transfers)]},
           UNCHANGED <<ethBlock, erc20Vars, ethQuorum, executedBatches, crossTransferStatuses, executions>>
    PROVE  EthereumInv' /\ ExecutionsStay /\ SignaturesStay
<1>1. ERC20SafeTypeOK' /\ ExecutionsOK'
  BY SafeTypeStutter, ExecutionsRest DEF EthereumInv
<1>2. PICK new : new = [signer |-> signer, message |-> Message(nonce, transfers)]
  OBVIOUS
<1>3. new.signer = signer /\ new.message.nonce = nonce /\ new.message.transfers = transfers
  BY <1>2 DEF Message
<1>4. ethSignatures' = ethSignatures \cup {new} /\ IsFiniteSet(ethSignatures)
  BY <1>2 DEF EthereumInv, SignaturesOK
<1>5. IsFiniteSet(ethSignatures')
  BY <1>4, FS_AddElement
<1>6. \A n, list : AskedFor(n, list) => AskedFor(n, list)'
  BY AskedStays
<1>7. ASSUME NEW s \in ethSignatures'
      PROVE  /\ s.signer \in Honest \cup Faulty
             /\ s.signer \in Honest => AskedFor(s.message.nonce, s.message.transfers)'
  <2>1. CASE s \in ethSignatures
    BY <1>6, <2>1 DEF EthereumInv, SignaturesOK
  <2>2. CASE s = new
    BY <1>3, <1>6, <2>2
  <2> QED BY <1>4, <2>1, <2>2
<1>8. SignaturesOK'
  BY <1>5, <1>7 DEF SignaturesOK, AskedFor
<1> QED BY <1>1, <1>4, <1>8 DEF EthereumInv, ExecutionsStay, SignaturesStay

LEMMA PaymentKeeps ==
    ASSUME EthereumInv, BatchesStay, NEW caller, NEW nonce, NEW transfers, NEW signatures,
           Range(signatures) \subseteq ethSignatures, NEW refused,
           ExecuteTransfer(caller, nonce, transfers, signatures, refused)
    PROVE  EthereumInv' /\ ExecutionsStay /\ SignaturesStay /\ Paid
<1> DEFINE res == TransferAll(transfers, refused)
<1>1. /\ SignaturesOK /\ ethQuorum = InitialEthQuorum /\ ERC20SafeTypeOK /\ ExecutionsOK
      /\ SignersCount(signatures, Message(nonce, transfers)) >= ethQuorum
      /\ nonce \notin executedBatches
      /\ executedBatches' = executedBatches \cup {nonce}
      /\ UNCHANGED <<ethSignatures, ethQuorum>>
  BY DEF ExecuteTransfer, EthereumInv, bridgeConfigVars
<1>2. AskedFor(nonce, transfers)
  BY <1>1, QuorumIsAsked
<1>3. transfers \in Seq(TransferType) /\ nonce \in Nat
  BY <1>2 DEF AskedFor, BatchesStay, BatchesTyped
<1>4. /\ tokenBalances' \in [Tokens -> Nat] /\ erc20Balance' \in [Tokens -> Nat]
      /\ res.statuses \in Seq(Statuses) /\ TransferInv(res, transfers, Len(transfers))
  BY <1>1, <1>3, ExecutionResult
<1>5. ERC20SafeTypeOK'
  BY <1>1, <1>4 DEF ExecuteTransfer, ERC20SafeTypeOK, erc20ConfigVars, depositVars
<1>6. PICK statuses : statuses = res.statuses
  OBVIOUS
<1>7. statuses \in Seq(Statuses) /\ Len(statuses) = Len(transfers)
  BY <1>4, <1>6 DEF TransferInv
<1>8. PICK x : x = [nonce |-> nonce, transfers |-> transfers, statuses |-> statuses]
  OBVIOUS
<1>9. x \in Execution /\ x.nonce = nonce /\ x.transfers = transfers /\ x.statuses = statuses
  BY <1>3, <1>7, <1>8 DEF Execution
<1>10. executions' = Append(executions, x)
  BY <1>6, <1>8 DEF ExecuteTransfer
<1>11. /\ DOMAIN crossTransferStatuses' = executedBatches'
       /\ crossTransferStatuses'[nonce].statuses = statuses
       /\ \A n \in executedBatches : crossTransferStatuses'[n] = crossTransferStatuses[n]
  <2>1. DOMAIN crossTransferStatuses = executedBatches
    BY <1>1 DEF ExecutionsOK
  <2>2. crossTransferStatuses' =
           [n \in executedBatches \cup {nonce} |->
              IF n = nonce THEN [createdBlockNumber |-> ethBlock, statuses |-> statuses]
              ELSE crossTransferStatuses[n]]
    BY <1>6, <2>1 DEF ExecuteTransfer
  <2> QED BY <1>1, <2>2
<1>12. /\ executions \in Seq(Execution) /\ executions' \in Seq(Execution)
       /\ Len(executions) \in Nat /\ Len(executions') = Len(executions) + 1
       /\ executions'[Len(executions) + 1] = x
       /\ \A i \in 1 .. Len(executions) : executions'[i] = executions[i]
  BY <1>1, <1>9, <1>10, AppendProperties, LenProperties DEF ExecutionsOK
<1>13. x \in Range(executions') /\ Range(executions) \subseteq Range(executions')
  <2>1. Len(executions) + 1 \in DOMAIN executions'
    BY <1>12
  <2>2. DOMAIN executions = 1 .. Len(executions)
        /\ \A i \in DOMAIN executions : i \in DOMAIN executions'
    BY <1>12
  <2> QED BY <1>12, <2>1, <2>2 DEF Range
<1>14. \A n, list : AskedFor(n, list) => AskedFor(n, list)'
  BY AskedStays
<1>15. ASSUME NEW i \in 1 .. Len(executions')
       PROVE  /\ AskedFor(executions[i].nonce, executions[i].transfers)'
              /\ Len(executions'[i].statuses) = Len(executions'[i].transfers)
              /\ executions'[i].nonce \in executedBatches'
  <2>1. PICK y : y = executions'[i]
    OBVIOUS
  <2>2. AskedFor(y.nonce, y.transfers) /\ Len(y.statuses) = Len(y.transfers)
        /\ y.nonce \in executedBatches'
    <3>1. CASE i \in 1 .. Len(executions)
      BY <1>1, <1>12, <2>1, <3>1 DEF ExecutionsOK
    <3>2. CASE i = Len(executions) + 1
      BY <1>1, <1>2, <1>7, <1>9, <1>12, <2>1, <3>2
    <3> QED BY <1>12, <3>1, <3>2
  <2>3. AskedFor(y.nonce, y.transfers)'
    BY <1>14, <2>2
  <2> QED BY <2>1, <2>2, <2>3
<1>16. ASSUME NEW n \in executedBatches'
       PROVE  \E y \in Range(executions') :
                 y.nonce = n /\ y.statuses = crossTransferStatuses'[n].statuses
  <2>1. CASE n \in executedBatches
    BY <1>1, <1>11, <1>13, <2>1 DEF ExecutionsOK
  <2>2. CASE n = nonce
    BY <1>9, <1>11, <1>13, <2>2
  <2> QED BY <1>1, <2>1, <2>2
<1>17. ExecutionsOK'
  BY <1>11, <1>12, <1>15, <1>16 DEF ExecutionsOK, Execution, TransferType, Statuses
<1>18. SignaturesOK'
  BY <1>1, <1>14 DEF SignaturesOK, AskedFor
<1>19. ExecutionsStay
  BY <1>1, <1>11, <1>13 DEF ExecutionsStay
<1> QED BY <1>1, <1>2, <1>5, <1>9, <1>10, <1>17, <1>18, <1>19
        DEF EthereumInv, SignaturesStay, Paid


\* The signatures of a set, in some order.
LEMMA SetAsSeq ==
    ASSUME NEW S, IsFiniteSet(S)
    PROVE  SetToSeq(S) \in Seq(S)
<1>1. Cardinality(S) \in Nat /\ ExistsBijection(1 .. Cardinality(S), S)
  BY FS_CardinalityType
<1>2. PICK f : f \in Bijection(1 .. Cardinality(S), S)
  BY <1>1 DEF ExistsBijection
<1>3. f \in [1 .. Cardinality(S) -> S] /\ IsInjective(f)
  BY <1>2 DEF Bijection, Injection, IsInjective
<1>4. SetToSeq(S) \in [1 .. Cardinality(S) -> S]
  BY <1>3 DEF SetToSeq
<1> QED BY <1>1, <1>4



------------------------------------------------------------------------------
(* Steps of the relayers *)

\* The batch that a relayer reads from the safe.
LEMMA PendingIsRead ==
    ASSUME SafeInv, SettlementsOK, GetPendingBatch # NoBatch
    PROVE  /\ ReadBatch(GetPendingBatch) /\ GetPendingBatch.id = safe.firstBatchId
           /\ Len(GetPendingBatch.deposits) = Len(FirstBatch(safe))
           /\ FirstBatch(safe) # <<>> /\ EsdtToken \in DOMAIN Erc20ForToken
<1> DEFINE batch == FirstBatch(safe)
           first == safe.firstBatchId
           erc20 == Erc20ForToken[EsdtToken]
           deposits == [k \in DOMAIN batch |->
                DepositTransfer(batch[k].nonce, EthRecipientOf[batch[k].from], erc20, batch[k].amount)]
           transfers == [k \in DOMAIN batch |-> AskedBy(batch[k])]
<1>1. HasCurrentTxBatch(safe) /\ EsdtToken \in DOMAIN Erc20ForToken
  BY DEF GetPendingBatch, GetCurrentBatchAsDataBytes, GetERC20AddressForTokenId
<1>2. FirstIsFull(safe) /\ batch # <<>>
  BY <1>1 DEF HasCurrentTxBatch, FirstIsFull, IsBatchFull, FirstBatch
<1>3. batch \in Seq(SafeTx) /\ BatchOf(first) = batch /\ first \in 1 .. first
  BY BatchesAreTyped
<1>4. ConvertToErc20(EsdtToken) = erc20
  BY <1>1 DEF ConvertToErc20, GetERC20AddressForTokenId
<1>5. GetCurrentBatchAsDataBytes = <<first, batch>>
  BY <1>1 DEF GetCurrentBatchAsDataBytes
<1>6. GetERC20AddressForTokenId(EsdtToken) # <<>> /\ GetCurrentBatchAsDataBytes # <<>>
  BY <1>1, <1>5 DEF GetERC20AddressForTokenId
<1> HIDE DEF batch, first, erc20
<1>7. GetPendingBatch = TransferBatch(first, deposits)
  BY <1>4, <1>5, <1>6 DEF GetPendingBatch, CreatePendingBatchFromResponse
<1>8. PICK list : list = deposits
  OBVIOUS
<1>9. /\ DOMAIN GetPendingBatch = BatchFields /\ GetPendingBatch.id = first
      /\ GetPendingBatch.deposits = list
  BY <1>7, <1>8 DEF TransferBatch, BatchFields
<1>10. DOMAIN list = DOMAIN batch /\ Len(list) = Len(batch)
  BY <1>3, <1>8
<1>11. \A k \in DOMAIN batch :
          [token |-> list[k].token, amount |-> list[k].amount, recipient |-> list[k].to]
             = AskedBy(batch[k])
  BY <1>8 DEF DepositTransfer, AskedBy, erc20
<1>12. ExtractList(GetPendingBatch) = transfers
  BY <1>9, <1>10, <1>11 DEF ExtractList
<1>13. \A tx \in SafeTx : AskedBy(tx) \in TransferType
  BY <1>1, MultiversXToEthAssumption DEF AskedBy, TransferType, SafeTx
<1>14. \A k \in 1 .. Len(batch) : batch[k] \in SafeTx
  BY <1>3, ElementOfSeq
<1>15. /\ transfers \in Seq(TransferType) /\ Len(transfers) = Len(batch)
       /\ \A k \in 1 .. Len(transfers) : transfers[k] = AskedBy(batch[k])
  BY <1>3, <1>13, <1>14
<1> HIDE DEF transfers
<1>16. Closed(first)
  BY <1>2 DEF Closed
<1>17. AskedFor(first, transfers)
  <2>1. Len(batch) \in Nat
    BY <1>3, LenProperties
  <2>2. Len(transfers) <= Len(BatchOf(first)) /\ Len(transfers) = Len(BatchOf(first))
    BY <1>3, <1>15, <2>1
  <2> QED BY <1>3, <1>15, <1>16, <2>2 DEF AskedFor, first
<1> QED BY <1>1, <1>2, <1>9, <1>10, <1>12, <1>17 DEF ReadBatch, batch, first

\* The batch that is current has all deposits that Ethereum has executed of it.
LEMMA FetchedIsEnough ==
    ASSUME SafeInv, SettlementsOK, ExecutionsOK, GetPendingBatch # NoBatch,
           NEW n \in executedBatches
    PROVE  /\ Len(GetPendingBatch.deposits) \in Nat
           /\ n = safe.firstBatchId =>
                 Len(crossTransferStatuses[n].statuses) <= Len(GetPendingBatch.deposits)
<1>1. /\ Len(GetPendingBatch.deposits) = Len(FirstBatch(safe))
      /\ Len(GetPendingBatch.deposits) \in Nat
  BY PendingIsRead, BatchesAreTyped
<1>2. PICK x \in Range(executions) : x.nonce = n /\ x.statuses = crossTransferStatuses[n].statuses
  BY DEF ExecutionsOK
<1>3. PICK k \in 1 .. Len(executions) : x = executions[k]
  BY DEF ExecutionsOK, Range
<1>4. AskedFor(n, x.transfers) /\ Len(x.statuses) = Len(x.transfers)
  BY <1>2, <1>3 DEF ExecutionsOK
<1>5. ASSUME n = safe.firstBatchId PROVE BatchOf(n) = FirstBatch(safe)
  BY <1>5, BatchesAreTyped
<1> QED BY <1>1, <1>2, <1>4, <1>5 DEF AskedFor

\* What a relayer reports of the batch it has in mind, unless that was settled before.
LEMMA ReportIsTrue ==
    ASSUME ExecutionsOK, NEW n, NEW count \in Nat, StatusesAfterExecution(n) # <<>>,
           n = safe.firstBatchId => Len(crossTransferStatuses[n].statuses) <= count
    PROVE  Resolved(n, ResolveNewDeposits(StatusesAfterExecution(n), count))
<1> DEFINE statuses == StatusesAfterExecution(n)
           size == IF count > Len(statuses) THEN count ELSE Len(statuses)
           resolved == ResolveNewDeposits(statuses, count)
<1>2. n \in executedBatches /\ statuses = crossTransferStatuses[n].statuses
  BY DEF StatusesAfterExecution, StatusesAreFinal, ExecutionsOK
<1>3. PICK x \in Range(executions) : x.nonce = n /\ x.statuses = statuses
  BY <1>2 DEF ExecutionsOK
<1>4. PICK k \in 1 .. Len(executions) : x = executions[k]
  BY DEF ExecutionsOK, Range
<1>5. x \in Execution /\ AskedFor(n, x.transfers) /\ Len(statuses) = Len(x.transfers)
  BY <1>3, <1>4, ElementOfSeq DEF ExecutionsOK
<1>6. statuses \in Seq(Statuses) /\ x.transfers \in Seq(TransferType)
  BY <1>3, <1>5 DEF Execution
<1>7. Len(statuses) \in Nat /\ DOMAIN x.transfers = 1 .. Len(statuses)
  BY <1>5, <1>6
<1> HIDE DEF statuses
<1>8. size \in Nat /\ count <= size /\ Len(statuses) <= size
  BY <1>7
<1>9. resolved = [i \in 1 .. size |->
          IF i <= Len(statuses) /\ i <= count THEN statuses[i] ELSE "Rejected"]
  BY DEF ResolveNewDeposits
<1> HIDE DEF size, resolved
<1>10. \A i \in 1 .. size : resolved[i] \in Statuses
  <2> SUFFICES ASSUME NEW i \in 1 .. size PROVE resolved[i] \in Statuses
    OBVIOUS
  <2>1. i <= Len(statuses) => statuses[i] \in Statuses
    BY <1>6, <1>7, <1>8, ElementOfSeq
  <2> QED BY <1>9, <2>1 DEF Statuses
<1>11. DOMAIN resolved = 1 .. size
  BY <1>9
<1>12. resolved \in Seq(Statuses)
  BY <1>8, <1>9, <1>10, <1>11
<1>13. ASSUME n = safe.firstBatchId PROVE TrueStatuses(n, resolved)
  <2>2. Len(statuses) <= count
    BY <1>2, <1>13
  <2>3. ASSUME NEW i \in 1 .. size
        PROVE  resolved[i] = "Executed" <=> (i \in 1 .. Len(statuses) /\ statuses[i] = "Executed")
    <3>1. i <= Len(statuses) => i <= count
      BY <1>7, <1>8, <2>2
    <3>2. i \in 1 .. Len(statuses) <=> i <= Len(statuses)
      BY <1>7, <1>8
    <3> QED BY <1>9, <3>1, <3>2
  <2> QED BY <1>3, <1>7, <1>11, <2>3 DEF TrueStatuses
<1> QED BY <1>12, <1>13 DEF Resolved, resolved, statuses

\* The action that the contract knows for what a relayer reports is a good one.
LEMMA FoundIsGood ==
    ASSUME ContractsInv, NEW b, Resolved(b.id, b.statuses),
           NEW id, id = GetActionIDForSetStatusOnPendingTransfer(b)
    PROVE  /\ id \in Nat
           /\ id # InvalidActionID => id \in DOMAIN actions /\ Good(actions[id])
<1>1. MultisigTypeOK /\ MappingsMatchActions /\ PendingActionsAreCurrent
  BY DEF ContractsInv, ActionsInv
<1>2. CASE ProposedStatusesOf(b) = {}
  BY <1>2 DEF GetActionIDForSetStatusOnPendingTransfer, OptionalId, ParseUint64, InvalidActionID
<1>3. CASE ProposedStatusesOf(b) # {}
  <2>1. PICK m : m = CHOOSE x \in ProposedStatusesOf(b) : TRUE
    OBVIOUS
  <2>2. m \in ProposedStatusesOf(b)
    BY <1>3, <2>1
  <2>3. m \in statusActions /\ m.batchId = b.id /\ m.statuses = b.statuses
    BY <2>2 DEF ProposedStatusesOf
  <2>4. id = m.actionId
    BY <1>3, <2>1 DEF GetActionIDForSetStatusOnPendingTransfer, OptionalId, ParseUint64
  <2>5. id \in Nat
    BY <1>1, <2>3, <2>4 DEF MultisigTypeOK
  <2>6. id \in DOMAIN actions /\ actions[id] = SetStatus(b.id, b.statuses)
    BY <1>1, <2>3, <2>4 DEF MappingsMatchActions
  <2>7. /\ actions[id].type = "SetStatus" /\ actions[id].batchId = b.id
        /\ actions[id].statuses = b.statuses
    BY <2>6 DEF SetStatus
  <2>8. TrueStatuses(b.id, b.statuses)
    BY <1>1, <2>6, <2>7 DEF PendingActionsAreCurrent, Resolved
  <2> QED BY <2>5, <2>6, <2>7, <2>8 DEF Good
<1> QED BY <1>2, <1>3

LEMMA SendKeeps ==
    ASSUME NEW r, NEW type \in {"setStatus", "sign", "perform"}, NEW id \in Nat,
           NEW args \in Seq(Statuses),
           type = "setStatus" => id \in 1 .. safe.firstBatchId /\ Resolved(id, args),
           type = "sign" => id \in DOMAIN actions /\ (actions[id] = Nothing \/ Good(actions[id])),
           Send(r, [type |-> type, id |-> id, args |-> args])
    PROVE  MempoolStep(r)
<1>1. PICK tx : tx = [type |-> type, id |-> id, args |-> args]
  OBVIOUS
<1>2. tx \in Transactions /\ tx.type = type /\ tx.id = id /\ tx.args = args
  BY <1>1 DEF Transactions
<1>3. TxOK(tx)
  BY <1>2 DEF TxOK
<1>4. mempool' = [mempool EXCEPT ![r] = Append(@, tx)]
  BY <1>1 DEF Send
<1> QED BY <1>2, <1>3, <1>4 DEF MempoolStep

\* An executor with its fields and counters in order.
Working(e) == DOMAIN e = ExecutorFields /\ CountersOK(e)

LEMMA CountersKeep ==
    ASSUME NEW e, Working(e)
    PROVE  /\ Working(ResetCounters(e)) /\ ResetCounters(e).batch = e.batch
           /\ ~MaxQuorumRetriesOnEthereumReached(e) =>
                 /\ Working(CountQuorumRetryOnEthereum(e))
                 /\ CountQuorumRetryOnEthereum(e).batch = e.batch
           /\ ~MaxQuorumRetriesOnMultiversXReached(e) =>
                 /\ Working(CountQuorumRetryOnMultiversX(e))
                 /\ CountQuorumRetryOnMultiversX(e).batch = e.batch
           /\ Working(CountRetryOnWasProposed(e)) /\ CountRetryOnWasProposed(e).batch = e.batch
<1>1. /\ MaxQuorumRetriesOnEthereum \in Nat /\ MaxQuorumRetriesOnMultiversX \in Nat
      /\ MaxRetriesOnWasProposed \in Nat
  BY BridgeExecutorAssumption
<1>2. DOMAIN e = ExecutorFields /\ CountersOK(e)
  BY DEF Working
<1>3. PICK q, m, p : /\ q = e.quorumRetriesOnEthereum /\ m = e.quorumRetriesOnMultiversX
                     /\ p = e.retriesOnWasProposed
  OBVIOUS
<1>4. /\ q \in 0 .. MaxQuorumRetriesOnEthereum /\ m \in 0 .. MaxQuorumRetriesOnMultiversX
      /\ p \in 0 .. MaxRetriesOnWasProposed
  BY <1>2, <1>3 DEF CountersOK
<1>5. /\ q < MaxQuorumRetriesOnEthereum => q + 1 \in 0 .. MaxQuorumRetriesOnEthereum
      /\ m < MaxQuorumRetriesOnMultiversX => m + 1 \in 0 .. MaxQuorumRetriesOnMultiversX
      /\ p < MaxRetriesOnWasProposed => p + 1 \in 0 .. MaxRetriesOnWasProposed
  BY <1>1, <1>4
<1>6. Working(ResetCounters(e)) /\ ResetCounters(e).batch = e.batch
  BY <1>1, <1>2 DEF ResetCounters, ResetRetriesOnWasTransferProposed, ResetRetriesCountOnMultiversX,
     ResetRetriesCountOnEthereum, Working, CountersOK, ExecutorFields
<1>7. ASSUME ~MaxQuorumRetriesOnEthereumReached(e)
      PROVE  /\ Working(CountQuorumRetryOnEthereum(e))
             /\ CountQuorumRetryOnEthereum(e).batch = e.batch
  <2>1. q < MaxQuorumRetriesOnEthereum
    BY <1>1, <1>3, <1>4, <1>7 DEF MaxQuorumRetriesOnEthereumReached
  <2> QED BY <1>2, <1>3, <1>5, <2>1 DEF CountQuorumRetryOnEthereum, Working, CountersOK, ExecutorFields
<1>8. ASSUME ~MaxQuorumRetriesOnMultiversXReached(e)
      PROVE  /\ Working(CountQuorumRetryOnMultiversX(e))
             /\ CountQuorumRetryOnMultiversX(e).batch = e.batch
  <2>1. m < MaxQuorumRetriesOnMultiversX
    BY <1>1, <1>3, <1>4, <1>8 DEF MaxQuorumRetriesOnMultiversXReached
  <2> QED BY <1>2, <1>3, <1>5, <2>1 DEF CountQuorumRetryOnMultiversX, Working, CountersOK, ExecutorFields
<1>9. Working(CountRetryOnWasProposed(e)) /\ CountRetryOnWasProposed(e).batch = e.batch
  <2>1. CASE p < MaxRetriesOnWasProposed
    BY <1>2, <1>3, <1>5, <2>1 DEF CountRetryOnWasProposed, Working, CountersOK, ExecutorFields
  <2>2. CASE ~(p < MaxRetriesOnWasProposed)
    BY <1>2, <1>3, <2>2 DEF CountRetryOnWasProposed, Working
  <2> QED BY <2>1, <2>2
<1> QED BY <1>6, <1>7, <1>8, <1>9

\* What a relayer remembers when it has read a batch.
LEMMA WorkingExecutor ==
    ASSUME RelayersInv, NEW r \in Honest
    PROVE  /\ Working(executor[r]) /\ executor[r].step \in Steps
           /\ ReadBatch(executor[r].batch) \/ (executor[r].batch = NoBatch /\ At(r, FirstStep))
           /\ executor[r].step \in ReportingSteps =>
                 Resolved(executor[r].batch.id, executor[r].batch.statuses)
           /\ executor[r].step \in ResolvingSteps => Resolving(executor[r], executor[r].step)
BY DEF RelayersInv, ExecutorsOK, ExecutorOK, Working, At

\* A relayer that reports nothing goes on with another step.
LEMMA GoToKeeps ==
    ASSUME RelayersInv, NEW r \in Honest, NEW s \in Steps, GoTo(r, s), s \notin ReportingSteps,
           s \in ResolvingSteps => Resolving(executor[r], s),
           ~At(r, FirstStep) \/ s = FirstStep
    PROVE  ExecutorStep(r)
<1>1. PICK e : e = executor[r]
  OBVIOUS
<1>2. Working(e) /\ (ReadBatch(e.batch) \/ (e.batch = NoBatch /\ s = FirstStep))
  BY <1>1, WorkingExecutor
<1>3. Become(r, e, s) /\ (s \in ResolvingSteps => Resolving(e, s))
  BY <1>1 DEF GoTo
<1> QED BY <1>2, <1>3, BecomeKeeps DEF Working

\* The steps of the transfer on Ethereum.
LEMMA StepsToEthereum ==
    ASSUME HalfBridgeInv, NEW r \in Honest,
           \/ GetPending(r)
           \/ SignProposedTransfer(r)
           \/ WaitForQuorumOnTransfer(r)
           \/ CheckTransfer(r)
           \/ WaitTransferConfirmation(r)
           \/ PerformTransferAsLeader(r)
    PROVE  ExecutorStep(r) /\ UNCHANGED mempool
<1>1. RelayersInv /\ SafeInv /\ SettlementsOK
  BY DEF HalfBridgeInv, ContractsInv
<1>2. PICK e : e = executor[r]
  OBVIOUS
<1>3. Working(e) /\ (At(r, FirstStep) \/ ReadBatch(e.batch))
      /\ (e.batch = NoBatch \/ ReadBatch(e.batch))
  BY <1>1, <1>2, WorkingExecutor
<1>4. /\ FirstStep \in Steps /\ "SigningProposedTransferOnEthereum" \in Steps
      /\ "WaitingForQuorumOnTransfer" \in Steps /\ "PerformingTransfer" \in Steps
      /\ "WaitingTransferConfirmation" \in Steps /\ "ResolvingSetStatusOnMultiversX" \in Steps
  BY DEF Steps, FirstStep
<1>5. /\ FirstStep \notin ReportingSteps /\ "SigningProposedTransferOnEthereum" \notin ReportingSteps
      /\ "WaitingForQuorumOnTransfer" \notin ReportingSteps
      /\ "PerformingTransfer" \notin ReportingSteps
      /\ "WaitingTransferConfirmation" \notin ReportingSteps
      /\ "ResolvingSetStatusOnMultiversX" \notin ReportingSteps
      /\ FirstStep \notin ResolvingSteps /\ "SigningProposedTransferOnEthereum" \notin ResolvingSteps
      /\ "WaitingForQuorumOnTransfer" \notin ResolvingSteps
      /\ "PerformingTransfer" \notin ResolvingSteps
      /\ "WaitingTransferConfirmation" \notin ResolvingSteps
  BY DEF ReportingSteps, ResolvingSteps, FirstStep
<1>6. CASE GetPending(r)
  <2>1. PICK reset : reset = ResetCounters(e)
    OBVIOUS
  <2>2. Working(reset) /\ reset.batch = e.batch
    BY <1>3, <2>1, CountersKeep
  <2>3. UNCHANGED mempool
    BY <1>6 DEF GetPending
  <2>4. CASE Become(r, reset, FirstStep)
    BY <1>3, <1>4, <1>5, <2>2, <2>3, <2>4, BecomeKeeps DEF Working
  <2>5. CASE /\ GetPendingBatch # NoBatch
             /\ \E s \in {"ResolvingSetStatusOnMultiversX", "SigningProposedTransferOnEthereum"} :
                   /\ Become(r, StoreBatch(reset, GetPendingBatch), s)
                   /\ s \in ResolvingSteps =>
                         StoreBatch(reset, GetPendingBatch).batch.id \in executedBatches
    <3>1. PICK b : b = GetPendingBatch
      OBVIOUS
    <3>2. ReadBatch(b)
      BY <1>1, <2>5, <3>1, PendingIsRead
    <3>3. PICK new : new = StoreBatch(reset, b)
      OBVIOUS
    <3>4. Working(new) /\ new.batch = b
      BY <2>2, <3>3 DEF StoreBatch, Working, CountersOK, ExecutorFields
    <3>5. PICK s \in {"ResolvingSetStatusOnMultiversX", "SigningProposedTransferOnEthereum"} :
                Become(r, new, s) /\ (s \in ResolvingSteps => new.batch.id \in executedBatches)
      BY <2>5, <3>1, <3>3
    <3>6. s \in Steps /\ s \notin ReportingSteps /\ (s \in ResolvingSteps => Resolving(new, s))
      BY <1>4, <1>5, <3>5 DEF Resolving
    <3>7. ReadBatch(new.batch)
      BY <3>2, <3>4
    <3> QED BY <2>3, <3>4, <3>5, <3>6, <3>7, BecomeKeeps DEF Working
  <2>6. "SigningProposedTransferOnEthereum" \notin ResolvingSteps
    BY <1>5
  <2> QED BY <1>2, <1>6, <2>1, <2>4, <2>5, <2>6
          DEF GetPending, WasTransferPerformedOnEthereum, WasBatchExecuted
<1>7. CASE SignProposedTransfer(r)
  <2>1. ~At(r, FirstStep) /\ UNCHANGED mempool
    BY <1>7 DEF SignProposedTransfer, At, FirstStep
  <2>2. PICK new : new = [e EXCEPT !.msgHash = GenerateMessageHash(e.batch)]
    OBVIOUS
  <2>3. Working(new) /\ new.batch = e.batch
    BY <1>3, <2>2 DEF Working, CountersOK, ExecutorFields
  <2>4. Become(r, new, "WaitingForQuorumOnTransfer")
    BY <1>2, <1>7, <2>2 DEF SignProposedTransfer
  <2>5. ReadBatch(new.batch)
    BY <1>3, <2>1, <2>3
  <2> QED BY <1>4, <1>5, <2>1, <2>3, <2>4, <2>5, BecomeKeeps DEF Working
<1>8. CASE WaitForQuorumOnTransfer(r)
  <2>1. ~At(r, FirstStep) /\ UNCHANGED mempool
    BY <1>8 DEF WaitForQuorumOnTransfer, At, FirstStep
  <2>2. CASE GoTo(r, FirstStep)
    BY <1>1, <1>4, <1>5, <2>1, <2>2, GoToKeeps
  <2>3. CASE /\ ~MaxQuorumRetriesOnEthereumReached(e)
             /\ \E s \in {"PerformingTransfer", "WaitingForQuorumOnTransfer"} :
                   Become(r, CountQuorumRetryOnEthereum(e), s)
    <3>1. PICK new : new = CountQuorumRetryOnEthereum(e)
      OBVIOUS
    <3>2. Working(new) /\ new.batch = e.batch
      BY <1>3, <2>3, <3>1, CountersKeep
    <3>3. PICK s \in {"PerformingTransfer", "WaitingForQuorumOnTransfer"} : Become(r, new, s)
      BY <2>3, <3>1
    <3>4. s \in Steps /\ s \notin ReportingSteps /\ s \notin ResolvingSteps
      BY <1>4, <1>5
    <3>5. ReadBatch(new.batch)
      BY <1>3, <2>1, <3>2
    <3> QED BY <2>1, <3>2, <3>3, <3>4, <3>5, BecomeKeeps DEF Working
  <2> QED BY <1>2, <1>8, <2>2, <2>3 DEF WaitForQuorumOnTransfer
<1>9. CASE CheckTransfer(r) \/ WaitTransferConfirmation(r)
  <2>1. ~At(r, FirstStep) /\ UNCHANGED mempool
    BY <1>9 DEF CheckTransfer, WaitTransferConfirmation, At, FirstStep
  <2>2. \/ GoTo(r, "WaitingTransferConfirmation") \/ GoTo(r, "PerformingTransfer")
        \/ /\ GoTo(r, "ResolvingSetStatusOnMultiversX")
           /\ executor[r].batch.id \in executedBatches
    BY <1>9 DEF CheckTransfer, WaitTransferConfirmation, WasTransferPerformedOnEthereum,
       WasBatchExecuted
  <2>3. executor[r].batch.id \in executedBatches =>
           Resolving(executor[r], "ResolvingSetStatusOnMultiversX")
    BY DEF Resolving
  <2> QED BY <1>1, <1>4, <1>5, <2>1, <2>2, <2>3, GoToKeeps
<1>10. CASE PerformTransferAsLeader(r)
  <2>1. ~At(r, FirstStep) /\ UNCHANGED mempool
    BY <1>10 DEF PerformTransferAsLeader, At, FirstStep
  <2>2. GoTo(r, FirstStep) \/ GoTo(r, "WaitingTransferConfirmation")
    BY <1>10 DEF PerformTransferAsLeader
  <2> QED BY <1>1, <1>4, <1>5, <2>1, <2>2, GoToKeeps
<1> QED BY <1>6, <1>7, <1>8, <1>9, <1>10

\* The steps that report the outcome on MultiversX.
LEMMA StepsToMultiversX ==
    ASSUME HalfBridgeInv, NEW r \in Honest,
           \/ FetchBatchAgain(r)
           \/ ResolveSetStatus(r)
           \/ FindProposedSetStatus(r)
           \/ ProposeSetStatusAsLeader(r)
           \/ SignProposedSetStatus(r)
           \/ WaitForQuorumOnSetStatus(r)
           \/ FindSetStatusPerformed(r)
           \/ PerformSetStatusAsLeader(r)
    PROVE  ExecutorStep(r) /\ MempoolStep(r)
<1>1. RelayersInv /\ ContractsInv /\ SafeInv /\ SettlementsOK /\ ExecutionsOK
  BY DEF HalfBridgeInv, ContractsInv, EthereumInv
<1>2. PICK e : e = executor[r]
  OBVIOUS
<1>3. ~At(r, FirstStep)
  BY DEF At, FirstStep, FetchBatchAgain, ResolveSetStatus, FindProposedSetStatus,
     ProposeSetStatusAsLeader,
     SignProposedSetStatus, WaitForQuorumOnSetStatus, FindSetStatusPerformed, PerformSetStatusAsLeader
<1>4. /\ Working(e) /\ ReadBatch(e.batch)
      /\ e.step \in ReportingSteps => Resolved(e.batch.id, e.batch.statuses)
      /\ e.step \in ResolvingSteps => Resolving(e, e.step)
  BY <1>1, <1>2, <1>3, WorkingExecutor
<1>5. e.batch.id \in 1 .. safe.firstBatchId /\ e.batch.id \in Nat /\ e.actionID \in Nat
  BY <1>1, <1>4, BatchesAreTyped DEF ReadBatch, AskedFor, Working, CountersOK
<1>6. /\ FirstStep \in Steps /\ "ProposingSetStatusOnMultiversX" \in Steps
      /\ "SigningProposedSetStatusOnMultiversX" \in Steps
      /\ "WaitingForQuorumOnSetStatus" \in Steps /\ "PerformingSetStatus" \in Steps
      /\ "AwaitingFinalStatuses" \in Steps
  BY DEF Steps, FirstStep
<1>7. /\ FirstStep \notin ReportingSteps /\ "WaitingForQuorumOnSetStatus" \notin ReportingSteps
      /\ "PerformingSetStatus" \notin ReportingSteps
      /\ "ProposingSetStatusOnMultiversX" \in ReportingSteps
      /\ "SigningProposedSetStatusOnMultiversX" \in ReportingSteps
      /\ "AwaitingFinalStatuses" \notin ReportingSteps
      /\ FirstStep \notin ResolvingSteps /\ "WaitingForQuorumOnSetStatus" \notin ResolvingSteps
      /\ "PerformingSetStatus" \notin ResolvingSteps
      /\ "ProposingSetStatusOnMultiversX" \notin ResolvingSteps
      /\ "SigningProposedSetStatusOnMultiversX" \notin ResolvingSteps
      /\ "ResolvingSetStatusOnMultiversX" \in ResolvingSteps
      /\ "AwaitingFinalStatuses" \in ResolvingSteps
  BY DEF ReportingSteps, ResolvingSteps, FirstStep
<1>8. UNCHANGED mempool => MempoolStep(r)
  BY DEF MempoolStep
<1>9. GoTo(r, FirstStep) => ExecutorStep(r)
  BY <1>1, <1>6, <1>7, GoToKeeps
<1>20. CASE FetchBatchAgain(r)
  <2>1. UNCHANGED mempool /\ e.step = "ResolvingSetStatusOnMultiversX"
    BY <1>2, <1>20 DEF FetchBatchAgain, At
  <2>2. CASE GoTo(r, FirstStep)
    BY <1>8, <1>9, <2>1, <2>2
  <2>3. CASE /\ GetPendingBatch # NoBatch
             /\ Become(r, [e EXCEPT !.newNumDeposits = Len(GetPendingBatch.deposits)],
                       "AwaitingFinalStatuses")
    <3>1. PICK n, k : n = e.batch.id /\ k = Len(GetPendingBatch.deposits)
      OBVIOUS
    <3>2. n \in executedBatches
      BY <1>4, <1>7, <2>1, <3>1 DEF Resolving
    <3>3. k \in Nat /\ (n = safe.firstBatchId => Len(crossTransferStatuses[n].statuses) <= k)
      BY <1>1, <2>3, <3>1, <3>2, FetchedIsEnough
    <3>4. PICK new : new = [e EXCEPT !.newNumDeposits = k]
      OBVIOUS
    <3>5. Working(new) /\ new.batch = e.batch /\ new.newNumDeposits = k
      BY <1>4, <3>4 DEF Working, CountersOK, ExecutorFields
    <3>6. Resolving(new, "AwaitingFinalStatuses") /\ ReadBatch(new.batch)
      BY <1>4, <3>1, <3>2, <3>3, <3>5 DEF Resolving
    <3>7. Become(r, new, "AwaitingFinalStatuses")
      BY <2>3, <3>1, <3>4
    <3> QED BY <1>6, <1>7, <1>8, <2>1, <3>5, <3>6, <3>7, BecomeKeeps DEF Working
  <2> QED BY <1>2, <1>20, <2>2, <2>3 DEF FetchBatchAgain
<1>10. CASE ResolveSetStatus(r)
  <2> DEFINE found == StatusesAfterExecution(e.batch.id)
             list == ResolveNewDeposits(found, e.newNumDeposits)
             done == [e EXCEPT !.newNumDeposits = 0]
  <2>1. UNCHANGED mempool /\ e.step = "AwaitingFinalStatuses"
    BY <1>2, <1>10 DEF ResolveSetStatus, At
  <2>4. Working(done) /\ done.batch = e.batch
    BY <1>4 DEF Working, CountersOK, ExecutorFields
  <2> HIDE DEF done
  <2>2. CASE Become(r, done, FirstStep)
    BY <1>4, <1>6, <1>7, <1>8, <2>1, <2>2, <2>4, BecomeKeeps DEF Working
  <2>3. CASE /\ found # <<>>
             /\ Become(r, [done EXCEPT !.batch.statuses = list], "ProposingSetStatusOnMultiversX")
    <3>1. PICK statuses : statuses = list
      OBVIOUS
    <3>2. PICK n : n = e.batch.id
      OBVIOUS
    <3>10. /\ e.newNumDeposits \in Nat
           /\ n = safe.firstBatchId =>
                 Len(crossTransferStatuses[n].statuses) <= e.newNumDeposits
      BY <1>4, <1>7, <2>1, <3>2 DEF Resolving
    <3>3. Resolved(n, statuses)
      BY <1>1, <2>3, <3>1, <3>2, <3>10, ReportIsTrue
    <3>4. PICK new : new = [done EXCEPT !.batch.statuses = statuses]
      OBVIOUS
    <3>5. Working(new) /\ new.batch = [e.batch EXCEPT !.statuses = statuses]
      BY <2>4, <3>4 DEF Working, CountersOK, ExecutorFields
    <3>6. /\ DOMAIN new.batch = BatchFields /\ new.batch.id = n
          /\ new.batch.deposits = e.batch.deposits /\ new.batch.statuses = statuses
      BY <1>4, <3>2, <3>5 DEF ReadBatch, BatchFields
    <3>7. ReadBatch(new.batch)
      BY <1>4, <3>2, <3>6 DEF ReadBatch, ExtractList
    <3>8. Become(r, new, "ProposingSetStatusOnMultiversX")
      BY <2>3, <3>1, <3>4
    <3>9. Resolved(new.batch.id, new.batch.statuses)
      BY <3>3, <3>6
    <3> QED BY <1>6, <1>7, <1>8, <2>1, <3>5, <3>7, <3>8, <3>9, BecomeKeeps DEF Working
  <2> QED BY <1>2, <1>10, <2>2, <2>3
          DEF ResolveSetStatus, WaitAndReturnFinalBatchStatuses, GetBatchStatusesFromEthereum, done
<1>11. ASSUME e.step = "ProposingSetStatusOnMultiversX",
              NEW s \in {FirstStep, "ProposingSetStatusOnMultiversX",
                         "SigningProposedSetStatusOnMultiversX"},
              Become(r, CountRetryOnWasProposed(e), s)
       PROVE  ExecutorStep(r)
  <2>1. PICK new : new = CountRetryOnWasProposed(e)
    OBVIOUS
  <2>2. Working(new) /\ new.batch = e.batch
    BY <1>4, <2>1, CountersKeep
  <2>3. s \in Steps /\ Become(r, new, s)
    BY <1>6, <1>11, <2>1
  <2>4. ReadBatch(new.batch) /\ Resolved(new.batch.id, new.batch.statuses)
    BY <1>4, <1>7, <1>11, <2>2
  <2>5. s \notin ResolvingSteps
    BY <1>7, <1>11
  <2> QED BY <2>2, <2>3, <2>4, <2>5, BecomeKeeps DEF Working
<1>12. CASE FindProposedSetStatus(r)
  <2>1. e.step = "ProposingSetStatusOnMultiversX" /\ UNCHANGED mempool
    BY <1>2, <1>12 DEF FindProposedSetStatus, At
  <2>2. \/ GoTo(r, FirstStep)
        \/ \E s \in {FirstStep, "ProposingSetStatusOnMultiversX",
                     "SigningProposedSetStatusOnMultiversX"} :
              Become(r, CountRetryOnWasProposed(e), s)
    BY <1>2, <1>12 DEF FindProposedSetStatus
  <2> QED BY <1>8, <1>9, <1>11, <2>1, <2>2
<1>13. CASE ProposeSetStatusAsLeader(r)
  <2>1. e.step = "ProposingSetStatusOnMultiversX"
    BY <1>2, <1>13 DEF ProposeSetStatusAsLeader, At
  <2>2. \/ Become(r, CountRetryOnWasProposed(e), FirstStep) /\ UNCHANGED mempool
        \/ /\ ProposeSetStatusOnMultiversX(r)
           /\ Become(r, CountRetryOnWasProposed(e), "SigningProposedSetStatusOnMultiversX")
    BY <1>2, <1>13 DEF ProposeSetStatusAsLeader
  <2>3. ExecutorStep(r)
    BY <1>11, <2>1, <2>2
  <2>4. ASSUME ProposeSetStatusOnMultiversX(r) PROVE MempoolStep(r)
    <3>1. Send(r, [type |-> "setStatus", id |-> e.batch.id, args |-> e.batch.statuses])
      BY <1>2, <2>4 DEF ProposeSetStatusOnMultiversX, ProposeSetStatus
    <3>2. Resolved(e.batch.id, e.batch.statuses) /\ e.batch.statuses \in Seq(Statuses)
      BY <1>4, <1>7, <2>1 DEF Resolved
    <3> QED BY <1>5, <3>1, <3>2, SendKeeps
  <2> QED BY <1>8, <2>2, <2>3, <2>4
<1>14. CASE SignProposedSetStatus(r)
  <2>1. Resolved(e.batch.id, e.batch.statuses)
    BY <1>2, <1>4, <1>7, <1>14 DEF SignProposedSetStatus, At
  <2>2. PICK id : id = GetActionIDForSetStatusOnPendingTransfer(e.batch)
    OBVIOUS
  <2>3. id \in Nat /\ (id # InvalidActionID => id \in DOMAIN actions /\ Good(actions[id]))
    BY <1>1, <2>1, <2>2, FoundIsGood
  <2>4. PICK new : new = StoreActionIDForProposeSetStatus(e)
    OBVIOUS
  <2>5. Working(new) /\ new.batch = e.batch /\ new.actionID = id
    BY <1>4, <2>2, <2>3, <2>4
    DEF StoreActionIDForProposeSetStatus, Working, CountersOK, ExecutorFields
  <2>6. /\ Become(r, new, FirstStep) \/ Become(r, new, "WaitingForQuorumOnSetStatus")
        /\ UNCHANGED mempool
           \/ (new.actionID # InvalidActionID /\ SignActionOnMultiversX(r, new.actionID))
    BY <1>2, <1>14, <2>4 DEF SignProposedSetStatus
  <2>7. ReadBatch(new.batch)
    BY <1>4, <2>5
  <2>8. ExecutorStep(r)
    BY <1>6, <1>7, <2>5, <2>6, <2>7, BecomeKeeps DEF Working
  <2>9. ASSUME new.actionID # InvalidActionID, SignActionOnMultiversX(r, new.actionID)
        PROVE  MempoolStep(r)
    <3>1. Send(r, [type |-> "sign", id |-> id, args |-> <<>>])
      BY <2>5, <2>9 DEF SignActionOnMultiversX, SignAction
    <3>2. id \in DOMAIN actions /\ Good(actions[id]) /\ <<>> \in Seq(Statuses)
      BY <2>3, <2>5, <2>9
    <3> QED BY <2>3, <3>1, <3>2, SendKeeps
  <2> QED BY <1>8, <2>6, <2>8, <2>9
<1>15. CASE WaitForQuorumOnSetStatus(r)
  <2>1. UNCHANGED mempool
    BY <1>15 DEF WaitForQuorumOnSetStatus
  <2>2. CASE GoTo(r, FirstStep)
    BY <1>8, <1>9, <2>1, <2>2
  <2>3. CASE /\ ~MaxQuorumRetriesOnMultiversXReached(e)
             /\ \E s \in {"PerformingSetStatus", "WaitingForQuorumOnSetStatus"} :
                   Become(r, CountQuorumRetryOnMultiversX(e), s)
    <3>1. PICK new : new = CountQuorumRetryOnMultiversX(e)
      OBVIOUS
    <3>2. Working(new) /\ new.batch = e.batch
      BY <1>4, <2>3, <3>1, CountersKeep
    <3>3. PICK s \in {"PerformingSetStatus", "WaitingForQuorumOnSetStatus"} : Become(r, new, s)
      BY <2>3, <3>1
    <3>4. /\ s \in Steps /\ s \notin ReportingSteps /\ s \notin ResolvingSteps
          /\ ReadBatch(new.batch)
      BY <1>4, <1>6, <1>7, <3>2
    <3> QED BY <1>8, <2>1, <3>2, <3>3, <3>4, BecomeKeeps DEF Working
  <2> QED BY <1>2, <1>15, <2>2, <2>3 DEF WaitForQuorumOnSetStatus
<1>16. CASE FindSetStatusPerformed(r)
  BY <1>8, <1>9, <1>16 DEF FindSetStatusPerformed
<1>17. CASE PerformSetStatusAsLeader(r)
  <2>1. CASE GoTo(r, FirstStep) /\ UNCHANGED mempool
    BY <1>8, <1>9, <2>1
  <2>2. CASE PerformActionOnMultiversX(r) /\ UNCHANGED executor
    <3>1. Send(r, [type |-> "perform", id |-> e.actionID, args |-> <<>>])
      BY <1>2, <2>2 DEF PerformActionOnMultiversX, PerformAction
    <3>2. <<>> \in Seq(Statuses)
      OBVIOUS
    <3>3. MempoolStep(r)
      BY <1>5, <3>1, <3>2, SendKeeps
    <3> QED BY <2>2, <3>3 DEF ExecutorStep
  <2> QED BY <1>17, <2>1, <2>2 DEF PerformSetStatusAsLeader
<1> QED BY <1>10, <1>12, <1>13, <1>14, <1>15, <1>16, <1>17, <1>20

------------------------------------------------------------------------------
(* Signatures on their way *)

\* A relayer's step makes at most its own signature of the batch it has read.
LEMMA StepsOnNetwork ==
    ASSUME HalfBridgeInv, BatchesStay, NEW r \in Honest,
           \/ RelayerStep(r)
           \/ PerformTransferAsLeader(r)
           \/ ProposeSetStatusAsLeader(r)
           \/ PerformSetStatusAsLeader(r),
           UNCHANGED chainsButSignatures
    PROVE  EthereumInv' /\ ExecutionsStay /\ SignaturesStay /\ NetworkOK'
<1>1. RelayersInv /\ EthereumInv /\ NetworkOK /\ IsFiniteSet(ethSignatures)
  BY DEF HalfBridgeInv, RelayersInv, EthereumInv, SignaturesOK
<1>2. /\ DOMAIN signaturesHolder = Honest /\ DOMAIN undelivered = Honest
      /\ DOMAIN ethMempool = Honest
      /\ \A q \in Honest :
            /\ signaturesHolder[q] \subseteq ethSignatures /\ undelivered[q] \subseteq ethSignatures
            /\ Range(ethMempool[q].signatures) \subseteq ethSignatures
  BY <1>1 DEF NetworkOK
<1>3. /\ UNCHANGED <<ethBlock, erc20Vars, ethQuorum, executedBatches, crossTransferStatuses, executions>>
      /\ UNCHANGED ethSignatures => UNCHANGED ethereumVars
  BY DEF chainsButSignatures, bridgeConfigVars, ethereumVars, bridgeVars
<1>4. UNCHANGED ethSignatures => EthereumInv' /\ ExecutionsStay /\ SignaturesStay
  BY <1>1, <1>3, EthereumRests
<1>5. CASE UNCHANGED <<clientVars, ethSignatures>>
  BY <1>1, <1>4, <1>5, NetworkRests
<1>6. CASE SignProposedTransfer(r)
  <2>1. PICK b : b = executor[r].batch
    OBVIOUS
  <2>2. AskedFor(b.id, ExtractList(b))
    <3>1. ~At(r, FirstStep)
      BY <1>6 DEF SignProposedTransfer, At, FirstStep
    <3> QED BY <1>1, <2>1, <3>1, WorkingExecutor DEF ReadBatch
  <2>3. PICK new : new = [signer |-> r, message |-> Message(b.id, ExtractList(b))]
    OBVIOUS
  <2>4. /\ ethSignatures' = ethSignatures \cup {new}
        /\ signaturesHolder' = [signaturesHolder EXCEPT ![r] = @ \cup {new}]
        /\ undelivered' = [other \in RelayerAccounts |->
              IF other = r THEN undelivered[r] ELSE undelivered[other] \cup {new}]
        /\ UNCHANGED ethMempool
    BY <1>6, <2>1, <2>3
    DEF SignProposedTransfer, SignTransferOnEthereum, BroadcastSignature, GenerateMessageHash
  <2>5. EthereumInv' /\ ExecutionsStay /\ SignaturesStay
    BY <1>1, <1>3, <2>2, <2>3, <2>4, SignatureMade
  <2>6. \A q \in Honest :
           /\ signaturesHolder'[q] \subseteq signaturesHolder[q] \cup {new}
           /\ undelivered'[q] \subseteq undelivered[q] \cup {new}
           /\ Range(ethMempool'[q].signatures) \subseteq ethSignatures
    BY <1>2, <2>4, BridgeExecutorAssumption
  <2>7. \A q \in Honest :
           /\ signaturesHolder'[q] \cup undelivered'[q] \subseteq ethSignatures'
           /\ Range(ethMempool'[q].signatures) \subseteq ethSignatures'
    BY <1>2, <2>4, <2>6
  <2>8. /\ DOMAIN signaturesHolder' = Honest /\ DOMAIN undelivered' = Honest
        /\ DOMAIN ethMempool' = Honest
    BY <1>2, <2>4, BridgeExecutorAssumption
  <2> QED BY <2>5, <2>7, <2>8 DEF NetworkOK
<1>7. CASE FetchBatchAgain(r)
  <2>1. /\ signaturesHolder' = [signaturesHolder EXCEPT ![r] = {}]
        /\ UNCHANGED <<undelivered, ethMempool, ethSignatures>>
    BY <1>7 DEF FetchBatchAgain, ClearStoredP2PSignatures
  <2>2. NetworkOK'
    BY <1>2, <2>1 DEF NetworkOK
  <2> QED BY <1>4, <2>1, <2>2
<1>8. CASE PerformTransferAsLeader(r)
  <2>1. UNCHANGED <<signaturesHolder, undelivered, ethSignatures>>
    BY <1>8 DEF PerformTransferAsLeader
  <2>2. CASE UNCHANGED ethMempool
    BY <1>4, <1>5, <2>1, <2>2 DEF clientVars
  <2>3. CASE PerformTransferOnEthereum(r)
    <3>1. PICK hash : hash = executor[r].msgHash
      OBVIOUS
    <3>2. PICK chosen \in ChosenSignatures(r, hash) :
             ethMempool' = [ethMempool EXCEPT ![r] =
                [nonce |-> executor[r].batch.id, transfers |-> ExtractList(executor[r].batch),
                 signatures |-> SetToSeq(chosen)]]
      BY <2>3, <3>1 DEF PerformTransferOnEthereum, SendExecuteTransfer
    <3>3. chosen \subseteq ethSignatures
      BY <1>2 DEF ChosenSignatures, kSubset, Signatures
    <3>4. SetToSeq(chosen) \in Seq(chosen)
      BY <1>1, <3>3, FS_Subset, SetAsSeq
    <3>5. PICK list \in Seq(chosen) : list = SetToSeq(chosen)
      BY <3>4
    <3>6. Range(list) \subseteq ethSignatures
      BY <3>3 DEF Range
    <3>7. DOMAIN ethMempool' = Honest
          /\ \A q \in Honest : ethMempool'[q].signatures = IF q = r THEN list
                                                           ELSE ethMempool[q].signatures
      BY <1>2, <3>2, <3>5
    <3>8. NetworkOK'
      BY <1>2, <2>1, <3>6, <3>7 DEF NetworkOK
    <3> QED BY <1>4, <2>1, <3>8
  <2> QED BY <1>8, <2>2, <2>3 DEF PerformTransferAsLeader
<1> QED BY <1>5, <1>6, <1>7, <1>8
        DEF RelayerStep, GetPending, WaitForQuorumOnTransfer, CheckTransfer, WaitTransferConfirmation,
            ResolveSetStatus, FindProposedSetStatus, SignProposedSetStatus,
            WaitForQuorumOnSetStatus, FindSetStatusPerformed, ProposeSetStatusAsLeader, PerformSetStatusAsLeader

\* Errors, restarts and losses take memory away, and what a relayer reads.
LEMMA FailuresKeep ==
    ASSUME HalfBridgeInv, NEW r \in Honest,
           \/ StepFails(r, FirstStep)
           \/ RefusePending(r)
           \/ Restart(r, FirstStep)
           \/ LoseTransaction(r)
           \/ LoseOnEthereum(r),
           UNCHANGED chainVars
    PROVE  ExecutorStep(r) /\ MempoolStep(r) /\ NetworkOK' /\ failures' \in 0 .. MaxFailures
<1>1. /\ RelayersInv /\ NetworkOK /\ SafeInv /\ SettlementsOK
      /\ failures \in 0 .. MaxFailures /\ MaxFailures \in Nat
  BY BridgeExecutorAssumption DEF HalfBridgeInv, RelayersInv, ContractsInv
<1>2. failures' \in 0 .. MaxFailures
  <2>1. failures < MaxFailures /\ failures' = failures + 1
    BY DEF StepFails, RefusePending, RefuseBatch, Restart, LoseTransaction, LoseOnEthereum, Fails
  <2> QED BY <1>1, <2>1
<1>3. UNCHANGED ethSignatures /\ SignaturesStay
  BY DEF chainVars, ethereumVars, bridgeVars, SignaturesStay
<1>4. /\ DOMAIN signaturesHolder = Honest /\ DOMAIN undelivered = Honest
      /\ DOMAIN ethMempool = Honest
      /\ \A q \in Honest :
            /\ signaturesHolder[q] \subseteq ethSignatures /\ undelivered[q] \subseteq ethSignatures
            /\ Range(ethMempool[q].signatures) \subseteq ethSignatures
  BY <1>1 DEF NetworkOK
<1>5. FirstStep \in Steps /\ FirstStep \notin ReportingSteps /\ FirstStep \notin ResolvingSteps
  BY DEF FirstStep, Steps, ReportingSteps, ResolvingSteps
<1>6. CASE StepFails(r, FirstStep)
  BY <1>1, <1>2, <1>3, <1>5, <1>6, GoToKeeps, NetworkRests DEF StepFails, MempoolStep
<1>7. CASE RefusePending(r)
  <2>1. PICK b : b = GetPendingBatch
    OBVIOUS
  <2>2. ReadBatch(b)
    BY <1>1, <1>7, <2>1, PendingIsRead DEF RefusePending
  <2>3. PICK e : e = executor[r]
    OBVIOUS
  <2>4. PICK reset : reset = ResetCounters(e)
    OBVIOUS
  <2>5. Working(reset)
    BY <1>1, <2>3, <2>4, WorkingExecutor, CountersKeep
  <2>6. PICK new : new = StoreBatch(reset, b)
    OBVIOUS
  <2>7. Working(new) /\ new.batch = b
    BY <2>5, <2>6 DEF StoreBatch, Working, CountersOK, ExecutorFields
  <2>8. Become(r, new, FirstStep) /\ UNCHANGED <<mempool, clientVars>>
    BY <1>7, <2>1, <2>3, <2>4, <2>6 DEF RefusePending, RefuseBatch
  <2>9. ReadBatch(new.batch)
    BY <2>2, <2>7
  <2>10. ExecutorStep(r)
    BY <1>5, <2>7, <2>8, <2>9, BecomeKeeps DEF Working
  <2> QED BY <1>1, <1>2, <1>3, <2>8, <2>10, NetworkRests DEF MempoolStep
<1>8. CASE Restart(r, FirstStep)
  <2>1. PICK new : new = NewExecutor(FirstStep)
    OBVIOUS
  <2>2. ExecutorOK(new)
    BY <1>5, <2>1, BridgeExecutorAssumption
    DEF NewExecutor, ExecutorOK, ExecutorFields, CountersOK, InvalidActionID
  <2>3. ExecutorStep(r) /\ MempoolStep(r)
    BY <1>8, <2>1, <2>2 DEF Restart, ExecutorStep, MempoolStep
  <2>4. /\ signaturesHolder' = [signaturesHolder EXCEPT ![r] = {}]
        /\ undelivered' = [undelivered EXCEPT ![r] =
              @ \cup UNION {signaturesHolder[other] : other \in RelayerAccounts \ {r}}]
        /\ UNCHANGED ethMempool
    BY <1>8 DEF Restart, ForgetSignatures
  <2>5. UNION {signaturesHolder[other] : other \in RelayerAccounts \ {r}} \subseteq ethSignatures
    BY <1>4, BridgeExecutorAssumption
  <2>6. NetworkOK'
    BY <1>3, <1>4, <2>4, <2>5 DEF NetworkOK
  <2> QED BY <1>2, <2>3, <2>6
<1>9. CASE LoseTransaction(r)
  BY <1>1, <1>2, <1>3, <1>9, NetworkRests DEF LoseTransaction, ExecutorStep, MempoolStep
<1>10. CASE LoseOnEthereum(r)
  <2>1. UNCHANGED <<executor, mempool, signaturesHolder>>
    BY <1>10 DEF LoseOnEthereum
  <2>2. CASE /\ \E signature \in undelivered[r] :
                   undelivered' = [undelivered EXCEPT ![r] = @ \ {signature}]
             /\ UNCHANGED ethMempool
    BY <1>2, <1>3, <1>4, <2>1, <2>2 DEF NetworkOK, ExecutorStep, MempoolStep
  <2>3. CASE ethMempool' = [ethMempool EXCEPT ![r] = NoEthTx] /\ UNCHANGED undelivered
    <3>1. Range(NoEthTx.signatures) = {}
      BY DEF NoEthTx, Range
    <3> QED BY <1>2, <1>3, <1>4, <2>1, <2>3, <3>1 DEF NetworkOK, ExecutorStep, MempoolStep
  <2> QED BY <1>10, <2>2, <2>3 DEF LoseOnEthereum
<1> QED BY <1>6, <1>7, <1>8, <1>9, <1>10

------------------------------------------------------------------------------
(* The steps of the half bridge *)

\* A payment undoes no other.
LEMMA ExecutionsGrow ==
    ASSUME ExecutionsOK, NEW caller, NEW nonce, NEW transfers, NEW signatures, NEW refused,
           ExecuteTransfer(caller, nonce, transfers, signatures, refused)
    PROVE  ExecutionsStay
<1>1. PICK x : executions' = Append(executions, x)
  BY DEF ExecuteTransfer
<1>2. executions \in Seq(Execution \cup {x})
  BY DEF ExecutionsOK
<1>3. /\ DOMAIN executions \subseteq DOMAIN executions'
      /\ \A i \in DOMAIN executions : executions'[i] = executions[i]
  BY <1>1, <1>2, AppendProperties
<1>4. \A i \in DOMAIN executions : executions[i] \in Range(executions')
  BY <1>3 DEF Range
<1>5. /\ executedBatches' = executedBatches \cup {nonce} /\ nonce \notin executedBatches
      /\ \A n \in executedBatches : crossTransferStatuses'[n] = crossTransferStatuses[n]
  BY DEF ExecuteTransfer, ExecutionsOK
<1> QED BY <1>4, <1>5 DEF ExecutionsStay, Range

\* A batch is settled on MultiversX.
Settles ==
    \E r \in Relayers, id \in DOMAIN actions : PerformSetStatus(r, id) /\ RecordSettlement(id)

\* What a step does to the transactions asked for and to those paid.
ChainStep ==
    \/ UNCHANGED <<safe, settlements, executions>>
    \/ UserCall /\ UNCHANGED <<block, settlements, executions>>
    \/ Settles /\ UNCHANGED executions
    \/ Paid /\ UNCHANGED <<safe, settlements>>

\* A call of the multisig settles a batch, or leaves the safe alone.
LEMMA CallSettles ==
    ASSUME ContractsInv, NEW r \in Honest, NEW tx \in Transactions, Calls(r, tx),
           RecordSettlement(tx.id)
    PROVE  Settles \/ UNCHANGED <<safe, settlements>>
<1>1. SafeInv /\ r \in Relayers /\ tx.type # "propose"
  BY DEF ContractsInv, Honest, Transactions
<1>2. CASE UNCHANGED safeVars
  BY <1>1, <1>2, NothingRecorded DEF safeVars
<1>3. CASE PerformBatchTransfer(r, tx.id)
  <2>1. tx.id \in DOMAIN actions /\ actions[tx.id].type = "BatchTransfer"
    BY <1>3 DEF PerformBatchTransfer, MayPerform, IsPending
  <2> QED BY <2>1 DEF ContractsInv, VotesOK
<1>4. CASE PerformSetStatus(r, tx.id)
  <2>1. tx.id \in DOMAIN actions
    BY <1>4 DEF PerformSetStatus, MayPerform, IsPending
  <2> QED BY <1>1, <1>4, <2>1 DEF Settles
<1> QED BY <1>1, <1>2, <1>3, <1>4
        DEF Calls, ProposeEsdtSafeSetCurrentTransactionBatchStatus, Sign

LEMMA FaultyCallSettles ==
    ASSUME NEW r \in Faulty, FaultyCallOnMultiversX(r)
    PROVE  Settles \/ UNCHANGED <<safe, settlements>>
<1>1. r \in Relayers
  BY MultiversXClientAssumption
<1> QED BY <1>1 DEF FaultyCallOnMultiversX, Settles, safeVars,
        ProposeEsdtSafeSetCurrentTransactionBatchStatus, Sign

\* A payment that has the signatures it is submitted with.
LEMMA PaymentStep ==
    ASSUME HalfBridgeInv, NEW caller, NEW nonce, NEW transfers, NEW signatures,
           Range(signatures) \subseteq ethSignatures, NEW refused,
           ExecuteTransfer(caller, nonce, transfers, signatures, refused),
           UNCHANGED <<vars, settlements>>
    PROVE  ContractsStep /\ EthereumInv' /\ ExecutionsStay /\ SignaturesStay /\ ChainStep
<1>1. ContractsInv /\ SettlementsOK /\ EthereumInv /\ ExecutionsOK
  BY DEF HalfBridgeInv, EthereumInv
<1>2. ExecutionsStay
  BY <1>1, ExecutionsGrow
<1>3. ContractsStep
  BY <1>1, <1>2, ContractsRest
<1>4. EthereumInv' /\ SignaturesStay /\ Paid
  BY <1>1, <1>3, PaymentKeeps DEF ContractsStep
<1>5. UNCHANGED safe
  BY DEF vars, safeVars
<1> QED BY <1>2, <1>3, <1>4, <1>5 DEF ChainStep

\* Blocks of Ethereum, and the owner of its bridge removing relayers.
LEMMA EthereumOwnStep ==
    ASSUME HalfBridgeInv, EthereumNext, UNCHANGED settlements
    PROVE  ContractsStep /\ EthereumInv' /\ ExecutionsStay /\ SignaturesStay /\ ChainStep
<1>1. ContractsInv /\ SettlementsOK /\ EthereumInv
  BY DEF HalfBridgeInv
<1>2. UNCHANGED <<vars, erc20Vars, ethQuorum, executedBatches, crossTransferStatuses, ethSignatures,
                  executions>>
      /\ (UNCHANGED ethBlock \/ NextEthBlock)
  BY DEF EthereumNext, RemoveRelayer, bridgeVars, bridgeConfigVars
<1>3. ExecutionsStay /\ SignaturesStay
  BY <1>2 DEF ExecutionsStay, SignaturesStay
<1>4. ContractsStep
  BY <1>1, <1>2, <1>3, ContractsRest
<1>5. ERC20SafeTypeOK'
  BY <1>1, <1>2 DEF EthereumInv, NextEthBlock, ERC20SafeTypeOK, erc20Vars, erc20ConfigVars, depositVars,
     erc20TokenVars
<1>6. ExecutionsOK'
  BY <1>1, <1>2, <1>4, ExecutionsRest DEF EthereumInv, ContractsStep
<1>7. SignaturesOK'
  <2>1. \A n, transfers : AskedFor(n, transfers) => AskedFor(n, transfers)'
    BY <1>4, AskedStays DEF ContractsStep
  <2>2. IsFiniteSet(ethSignatures')
    BY <1>1, <1>2 DEF EthereumInv, SignaturesOK
  <2>3. ASSUME NEW s \in ethSignatures'
        PROVE  /\ s.signer \in Honest \cup Faulty
               /\ s.signer \in Honest => AskedFor(s.message.nonce, s.message.transfers)'
    BY <1>1, <1>2, <2>1 DEF EthereumInv, SignaturesOK
  <2> QED BY <2>2, <2>3 DEF SignaturesOK, AskedFor
<1>8. UNCHANGED <<safe, settlements, executions>>
  BY <1>2 DEF vars, safeVars
<1> QED BY <1>1, <1>2, <1>3, <1>4, <1>5, <1>6, <1>7, <1>8 DEF EthereumInv, ChainStep

\* Signatures and payments of a relayer that follows no program.
LEMMA FaultyEthereumStep ==
    ASSUME HalfBridgeInv, NEW r \in Faulty, FaultyCallOnEthereum(r),
           UNCHANGED <<vars, signaturesHolder, ethMempool, settlements>>
    PROVE  /\ ContractsStep /\ EthereumInv' /\ ExecutionsStay /\ SignaturesStay /\ ChainStep
           /\ NetworkOK'
<1>1. ContractsInv /\ SettlementsOK /\ EthereumInv /\ NetworkOK /\ IsFiniteSet(ethSignatures)
  BY DEF HalfBridgeInv, EthereumInv, SignaturesOK, RelayersInv
<1>2. r \notin Honest
  BY DEF Honest
<1>3. CASE \E nonce \in MvxBatchNonces, transfers \in MvxTransferLists :
              /\ SignMessage(r, nonce, transfers)
              /\ undelivered' = [other \in Honest |->
                    undelivered[other] \cup {[signer |-> r, message |-> Message(nonce, transfers)]}]
  <2>1. PICK nonce \in MvxBatchNonces, transfers \in MvxTransferLists :
              /\ SignMessage(r, nonce, transfers)
              /\ undelivered' = [other \in Honest |->
                    undelivered[other] \cup {[signer |-> r, message |-> Message(nonce, transfers)]}]
    BY <1>3
  <2>2. PICK new : new = [signer |-> r, message |-> Message(nonce, transfers)]
    OBVIOUS
  <2>3. /\ ethSignatures' = ethSignatures \cup {new}
        /\ UNCHANGED <<ethBlock, erc20Vars, ethQuorum, executedBatches, crossTransferStatuses, executions>>
    BY <2>1, <2>2 DEF SignMessage, bridgeConfigVars
  <2>4. ExecutionsStay
    BY <2>3 DEF ExecutionsStay
  <2>5. ContractsStep
    BY <1>1, <2>4, ContractsRest
  <2>6. EthereumInv' /\ SignaturesStay
    BY <1>1, <1>2, <2>2, <2>3, <2>5, SignatureMade DEF ContractsStep
  <2>7. UNCHANGED <<safe, settlements, executions>>
    BY <2>3 DEF vars, safeVars
  <2>8. /\ DOMAIN signaturesHolder' = Honest /\ DOMAIN undelivered' = Honest
        /\ DOMAIN ethMempool' = Honest
        /\ \A q \in Honest :
              /\ signaturesHolder'[q] = signaturesHolder[q]
              /\ undelivered'[q] = undelivered[q] \cup {new}
              /\ ethMempool'[q] = ethMempool[q]
    BY <1>1, <2>1, <2>2 DEF NetworkOK
  <2>9. NetworkOK'
    BY <1>1, <2>3, <2>8 DEF NetworkOK
  <2> QED BY <2>4, <2>5, <2>6, <2>7, <2>9 DEF ChainStep
<1>4. CASE \E nonce \in MvxBatchNonces, transfers \in MvxTransferLists,
              refused \in SUBSET RefusedRecipients :
              /\ ExecuteTransfer(r, nonce, transfers,
                                 SetToSeq(ethSignatures) \o SetToSeq(ethSignatures), refused)
              /\ UNCHANGED undelivered
  <2>1. PICK list \in Seq(ethSignatures) : list = SetToSeq(ethSignatures)
    BY <1>1, SetAsSeq
  <2>2. PICK signatures \in Seq(ethSignatures) : signatures = list \o list
    BY ConcatProperties
  <2>3. Range(signatures) \subseteq ethSignatures
    BY DEF Range
  <2>4. PICK nonce \in MvxBatchNonces, transfers \in MvxTransferLists,
             refused \in SUBSET RefusedRecipients :
              /\ ExecuteTransfer(r, nonce, transfers, signatures, refused)
              /\ UNCHANGED undelivered
    BY <1>4, <2>1, <2>2
  <2>5. ContractsStep /\ EthereumInv' /\ ExecutionsStay /\ SignaturesStay /\ ChainStep
    BY <2>3, <2>4, PaymentStep
  <2>6. NetworkOK'
    BY <1>1, <2>4, <2>5, NetworkRests DEF clientVars
  <2> QED BY <2>5, <2>6
<1> QED BY <1>3, <1>4 DEF FaultyCallOnEthereum

\* A relayer's Ethereum transaction is executed, or fails.
LEMMA PaymentExecuted ==
    ASSUME HalfBridgeInv, NEW r \in Honest, ExecuteOnEthereum(r)
    PROVE  /\ ContractsStep /\ EthereumInv' /\ ExecutionsStay /\ SignaturesStay /\ ChainStep
           /\ NetworkOK'
<1>1. ContractsInv /\ SettlementsOK /\ EthereumInv /\ NetworkOK
  BY DEF HalfBridgeInv, RelayersInv
<1>2. PICK tx : tx = ethMempool[r]
  OBVIOUS
<1>3. /\ ethMempool' = [ethMempool EXCEPT ![r] = NoEthTx]
      /\ UNCHANGED <<signaturesHolder, undelivered, vars, settlements>>
      /\ \/ \E refused \in SUBSET RefusedRecipients :
               ExecuteTransfer(r, tx.nonce, tx.transfers, tx.signatures, refused)
         \/ UNCHANGED ethereumVars
  BY <1>2 DEF ExecuteOnEthereum, ExecuteEthTransaction
<1>4. Range(tx.signatures) \subseteq ethSignatures
  BY <1>1, <1>2 DEF NetworkOK
<1>5. ContractsStep /\ EthereumInv' /\ ExecutionsStay /\ SignaturesStay /\ ChainStep
  <2>1. CASE \E refused \in SUBSET RefusedRecipients :
               ExecuteTransfer(r, tx.nonce, tx.transfers, tx.signatures, refused)
    <3>1. PICK nonce, transfers, signatures :
             nonce = tx.nonce /\ transfers = tx.transfers /\ signatures = tx.signatures
      OBVIOUS
    <3>2. PICK refused \in SUBSET RefusedRecipients :
             ExecuteTransfer(r, nonce, transfers, signatures, refused)
      BY <2>1, <3>1
    <3>3. Range(signatures) \subseteq ethSignatures
      BY <1>4, <3>1
    <3> QED BY <1>3, <3>2, <3>3, PaymentStep
  <2>2. CASE UNCHANGED ethereumVars
    <3>1. UNCHANGED <<safe, settlements, executions, executedBatches, crossTransferStatuses>>
      BY <1>3, <2>2 DEF vars, safeVars, ethereumVars, bridgeVars
    <3>2. ExecutionsStay
      BY <3>1 DEF ExecutionsStay
    <3>3. ContractsStep
      BY <1>1, <1>3, <3>2, ContractsRest
    <3>4. EthereumInv' /\ SignaturesStay
      BY <1>1, <2>2, <3>3, EthereumRests DEF ContractsStep
    <3> QED BY <3>1, <3>2, <3>3, <3>4 DEF ChainStep
  <2> QED BY <1>3, <2>1, <2>2
<1>6. NetworkOK'
  <2>1. Range(NoEthTx.signatures) = {}
    BY DEF NoEthTx, Range
  <2>2. /\ DOMAIN signaturesHolder' = Honest /\ DOMAIN undelivered' = Honest
        /\ DOMAIN ethMempool' = Honest
        /\ \A q \in Honest :
              /\ signaturesHolder'[q] \cup undelivered'[q] \subseteq ethSignatures
              /\ Range(ethMempool'[q].signatures) \subseteq ethSignatures
    BY <1>1, <1>3, <2>1 DEF NetworkOK
  <2> QED BY <1>5, <2>2 DEF NetworkOK, SignaturesStay
<1> QED BY <1>5, <1>6

LEMMA HalfBridgeStep ==
    ASSUME HalfBridgeInv, [HalfBridgeNext]_halfVars
    PROVE  HalfBridgeInv' /\ ChainStep
<1>1. /\ ContractsInv /\ SettlementsOK /\ EthereumInv /\ ExecutionsOK /\ RelayersInv
      /\ ExecutorsOK /\ MempoolOK /\ NetworkOK /\ failures \in 0 .. MaxFailures
  BY DEF HalfBridgeInv, RelayersInv, EthereumInv
<1>2. ASSUME UNCHANGED <<executions, executedBatches, crossTransferStatuses>>
      PROVE  ExecutionsStay
  BY <1>2 DEF ExecutionsStay
<1>3. ASSUME UNCHANGED <<vars, executions>> PROVE UNCHANGED <<safe, executions>>
  BY <1>3 DEF vars, safeVars
<1>4. UNCHANGED ethereumVars => UNCHANGED <<executions, executedBatches, crossTransferStatuses>>
  BY DEF ethereumVars, bridgeVars
\* The relayers take no step.
<1>5. ASSUME ContractsStep, EthereumInv', ExecutionsStay, NetworkOK',
             UNCHANGED <<mempool, executor, failures>>
      PROVE  HalfBridgeInv'
  <2>1. ExecutorsOK' /\ MempoolOK'
    BY <1>1, <1>5, RelayersRest DEF ContractsStep
  <2> QED BY <1>1, <1>5, <2>1 DEF HalfBridgeInv, RelayersInv, ContractsStep
\* Ethereum takes no step.
<1>6. ASSUME ContractsStep, UNCHANGED ethereumVars
      PROVE  /\ EthereumInv' /\ ExecutionsStay
             /\ UNCHANGED clientVars => NetworkOK'
  <2>1. EthereumInv' /\ ExecutionsStay /\ SignaturesStay
    BY <1>1, <1>6, EthereumRests DEF ContractsStep
  <2> QED BY <1>1, <2>1, NetworkRests
<1>7. CASE UNCHANGED halfVars
  <2>1. UNCHANGED <<vars, ethereumVars, settlements, clientVars, mempool, executor, failures>>
    BY <1>7 DEF halfVars, chainVars
  <2>2. ContractsStep
    BY <1>1, <1>2, <1>4, <2>1, ContractsRest
  <2> QED BY <1>3, <1>4, <1>5, <1>6, <2>1, <2>2 DEF ChainStep
<1>8. CASE MultiversXNext /\ UNCHANGED <<mempool, clientVars, executor, failures, settlements>>
  <2>1. /\ UNCHANGED <<multisigVars, ethereumVars>>
        /\ \/ UserCall /\ UNCHANGED block
           \/ NextBlock /\ UNCHANGED safeVars
    BY <1>8 DEF MultiversXNext, UserCall
  <2>2. ContractsStep
    BY <1>1, <1>2, <1>4, <1>8, <2>1, UserKeeps, BlockKeeps
  <2>3. ChainStep
    BY <1>4, <1>8, <2>1 DEF ChainStep, safeVars
  <2> QED BY <1>5, <1>6, <1>8, <2>1, <2>2, <2>3
<1>9. CASE EthereumNext /\ UNCHANGED <<mempool, clientVars, executor, failures, settlements>>
  <2>1. ContractsStep /\ EthereumInv' /\ ExecutionsStay /\ SignaturesStay /\ ChainStep
    BY <1>9, EthereumOwnStep
  <2> QED BY <1>1, <1>5, <1>9, <2>1, NetworkRests
<1>10. CASE RelayersNext /\ UNCHANGED settlements
  <2>1. PICK r \in Honest :
        \/ /\ \/ RelayerStep(r)
              \/ PerformTransferAsLeader(r)
              \/ ProposeSetStatusAsLeader(r)
              \/ PerformSetStatusAsLeader(r)
           /\ UNCHANGED <<chainsButSignatures, failures>>
        \/ /\ \/ StepFails(r, FirstStep)
              \/ RefusePending(r)
              \/ Restart(r, FirstStep)
              \/ LoseTransaction(r)
              \/ LoseOnEthereum(r)
           /\ UNCHANGED chainVars
    BY <1>10 DEF RelayersNext
  <2>2. UNCHANGED <<vars, executions, executedBatches, crossTransferStatuses>>
    BY <2>1 DEF chainsButSignatures, chainVars, ethereumVars, bridgeVars
  <2>3. ContractsStep /\ ChainStep /\ ExecutionsStay
    BY <1>1, <1>2, <1>3, <1>10, <2>2, ContractsRest DEF ChainStep
  <2>4. /\ EthereumInv' /\ ExecutorStep(r) /\ MempoolStep(r) /\ NetworkOK'
        /\ failures' \in 0 .. MaxFailures
    <3>1. CASE /\ \/ RelayerStep(r)
                  \/ PerformTransferAsLeader(r)
                  \/ ProposeSetStatusAsLeader(r)
                  \/ PerformSetStatusAsLeader(r)
               /\ UNCHANGED <<chainsButSignatures, failures>>
      <4>1. EthereumInv' /\ NetworkOK'
        BY <2>3, <3>1, StepsOnNetwork DEF ContractsStep
      <4>2. ExecutorStep(r) /\ MempoolStep(r)
        BY <3>1, StepsToEthereum, StepsToMultiversX DEF RelayerStep, MempoolStep
      <4> QED BY <1>1, <3>1, <4>1, <4>2
    <3>2. CASE /\ \/ StepFails(r, FirstStep)
                  \/ RefusePending(r)
                  \/ Restart(r, FirstStep)
                  \/ LoseTransaction(r)
                  \/ LoseOnEthereum(r)
               /\ UNCHANGED chainVars
      <4>1. EthereumInv'
        BY <1>6, <2>3, <3>2 DEF chainVars
      <4> QED BY <3>2, <4>1, FailuresKeep
    <3> QED BY <2>1, <3>1, <3>2
  <2>5. ExecutorsOK' /\ MempoolOK'
    BY <1>1, <2>3, <2>4, ExecutorsKeep, MempoolKeeps DEF ContractsStep
  <2> QED BY <2>3, <2>4, <2>5 DEF HalfBridgeInv, RelayersInv, ContractsStep
<1>11. ASSUME NEW r \in Honest, NEW signer, DeliverSignature(r, signer)
       PROVE  HalfBridgeInv' /\ ChainStep
  <2>1. UNCHANGED <<vars, ethereumVars, mempool, executor, failures, settlements>>
    BY <1>11 DEF DeliverSignature, chainVars
  <2>2. ContractsStep /\ ChainStep
    BY <1>1, <1>2, <1>3, <1>4, <2>1, ContractsRest DEF ChainStep
  <2>3. UNCHANGED ethSignatures
    BY <2>1 DEF ethereumVars, bridgeVars
  <2>4. PICK signature \in undelivered[r] :
           /\ undelivered' = [undelivered EXCEPT ![r] = @ \ {signature}]
           /\ signaturesHolder' = [signaturesHolder EXCEPT ![r] = @ \cup {signature}]
           /\ UNCHANGED ethMempool
    BY <1>11 DEF DeliverSignature, ReceiveSignature
  <2>5. NetworkOK'
    BY <1>1, <2>3, <2>4 DEF NetworkOK
  <2> QED BY <1>5, <1>6, <2>1, <2>2, <2>5
<1>12. ASSUME NEW r \in Honest, ExecuteOnMultiversX(r)
       PROVE  HalfBridgeInv' /\ ChainStep
  <2>1. PICK tx : tx = Head(mempool[r])
    OBVIOUS
  <2>2. /\ mempool[r] # <<>> /\ mempool' = [mempool EXCEPT ![r] = Tail(@)]
        /\ UNCHANGED <<ethereumVars, clientVars, executor, failures>>
        /\ Calls(r, tx) \/ UNCHANGED vars
        /\ RecordSettlement(tx.id)
    BY <1>12, <2>1 DEF ExecuteOnMultiversX, ExecuteTransaction
  <2>3. tx \in Transactions /\ TxOK(tx)
    <3>1. mempool[r] \in Seq(Transactions) /\ \A i \in 1 .. Len(mempool[r]) : TxOK(mempool[r][i])
      BY <1>1 DEF MempoolOK
    <3>2. 1 \in 1 .. Len(mempool[r]) /\ tx = mempool[r][1]
      BY <2>1, <2>2, <3>1
    <3> QED BY <3>1, <3>2, ElementOfSeq
  <2>4. ContractsStep /\ ChainStep
    <3>1. CASE Calls(r, tx)
      <4>1. ContractsStep
        BY <1>1, <1>2, <1>4, <2>2, <2>3, <3>1, CallKeeps
      <4>2. Settles \/ UNCHANGED <<safe, settlements>>
        BY <1>1, <2>2, <2>3, <3>1, CallSettles
      <4> QED BY <1>4, <2>2, <4>1, <4>2 DEF ChainStep
    <3>2. CASE UNCHANGED vars
      <4>1. UNCHANGED settlements
        BY <1>1, <2>2, <3>2, NothingRecorded DEF ContractsInv, vars, safeVars
      <4> QED BY <1>1, <1>2, <1>3, <1>4, <2>2, <3>2, <4>1, ContractsRest DEF ChainStep
    <3> QED BY <2>2, <3>1, <3>2
  <2>5. EthereumInv' /\ ExecutionsStay /\ NetworkOK'
    BY <1>6, <2>2, <2>4
  <2>6. ExecutorStep(r) /\ MempoolStep(r)
    BY <2>2 DEF ExecutorStep, MempoolStep
  <2>7. ExecutorsOK' /\ MempoolOK'
    BY <1>1, <2>4, <2>5, <2>6, ExecutorsKeep, MempoolKeeps DEF ContractsStep
  <2> QED BY <1>1, <2>2, <2>4, <2>5, <2>7 DEF HalfBridgeInv, RelayersInv, ContractsStep
<1>13. ASSUME NEW r \in Honest, ExecuteOnEthereum(r)
       PROVE  HalfBridgeInv' /\ ChainStep
  <2>1. ContractsStep /\ EthereumInv' /\ ExecutionsStay /\ ChainStep /\ NetworkOK'
    BY <1>13, PaymentExecuted
  <2> QED BY <1>5, <1>13, <2>1 DEF ExecuteOnEthereum
<1>14. ASSUME NEW r \in Faulty, FaultyNext(r), UNCHANGED <<mempool, executor, failures>>
       PROVE  HalfBridgeInv' /\ ChainStep
  <2>1. CASE FaultyCallOnMultiversX(r) /\ UNCHANGED <<ethereumVars, clientVars>>
    <3>1. ContractsStep
      BY <1>1, <1>2, <1>4, <2>1, FaultyCallKeeps
    <3>2. ChainStep
      BY <1>4, <2>1, FaultyCallSettles DEF ChainStep
    <3> QED BY <1>5, <1>6, <1>14, <2>1, <3>1, <3>2
  <2>2. CASE /\ FaultyCallOnEthereum(r)
             /\ UNCHANGED <<vars, signaturesHolder, ethMempool, settlements>>
    BY <1>5, <1>14, <2>2, FaultyEthereumStep
  <2> QED BY <1>14, <2>1, <2>2 DEF FaultyNext
<1> QED BY <1>7, <1>8, <1>9, <1>10, <1>11, <1>12, <1>13, <1>14 DEF HalfBridgeNext

LEMMA HalfBridgeStarts == HalfBridgeInit => HalfBridgeInv
<1> SUFFICES ASSUME HalfBridgeInit PROVE HalfBridgeInv
  OBVIOUS
<1>1. /\ ContractsDeployed(TRUE) /\ SafeDeployed(TRUE) /\ ERC20SafeDeployed(TRUE, InitialSupply)
      /\ block = 0
      /\ executor = [r \in Honest |-> NewExecutor(FirstStep)]
      /\ mempool = [r \in Honest |-> <<>>]
      /\ failures = 0 /\ settlements = <<>>
  BY DEF HalfBridgeInit, BridgeInit, ContractsDeployed, MultiversXClientInit
<1>2. /\ ethQuorum = InitialEthQuorum /\ executedBatches = {} /\ crossTransferStatuses = <<>>
      /\ ethSignatures = {} /\ executions = <<>>
      /\ signaturesHolder = [r \in Honest |-> {}] /\ undelivered = [r \in Honest |-> {}]
      /\ ethMempool = [r \in Honest |-> NoEthTx]
  BY BridgeExecutorAssumption DEF HalfBridgeInit, BridgeInit, BridgeDeployed, EthereumClientInit
<1>3. quorum = InitialQuorum /\ actions = <<>>
  BY <1>1 DEF ContractsDeployed, MultisigDeployed
<1>4. safe.firstBatchId = 1 /\ ShortIfFixed
  <2>1. PICK size \in BatchSizes, duration \in BatchDurations : safe = EmptyBatches(size, duration)
    BY <1>1 DEF SafeDeployed
  <2>2. /\ safe.firstBatchId = 1 /\ safe.maxTxBatchSize = size
        /\ safe.pendingBatches = [id \in BatchIds |-> <<>>]
    BY <2>1 DEF EmptyBatches
  <2>3. size \in Nat
    BY EsdtSafeAssumption
  <2>4. \A id \in BatchIds : Len(safe.pendingBatches[id]) <= size
    BY <2>2, <2>3
  <2> QED BY <2>2, <2>4 DEF ShortIfFixed, ShortBatches
<1>5. ContractsInv
  <2>1. MultisigTypeOK /\ ActionsInv /\ SafeInv
    BY <1>1, InitType, InitActionsInv, SafeInvInit
  <2>2. VotesOK /\ StatusesNotEmpty
    BY <1>3 DEF VotesOK, StatusesNotEmpty
  <2> QED BY <1>4, <2>1, <2>2 DEF ContractsInv
<1>6. SettlementsOK
  BY <1>1, <1>4 DEF SettlementsOK, SettledAsExecuted, Range
<1>7. EthereumInv
  <2>1. ERC20SafeTypeOK
    BY <1>1, DeployedSafeType, MultiversXToEthAssumption
  <2>2. SignaturesOK
    BY <1>2, FS_EmptySet DEF SignaturesOK
  <2>3. ExecutionsOK
    BY <1>2 DEF ExecutionsOK
  <2> QED BY <1>2, <2>1, <2>2, <2>3 DEF EthereumInv
<1>8. RelayersInv
  <2>1. ExecutorOK(NewExecutor(FirstStep))
    BY BridgeExecutorAssumption
    DEF NewExecutor, ExecutorOK, ExecutorFields, CountersOK, InvalidActionID, Steps, FirstStep,
        ReportingSteps, ResolvingSteps
  <2>2. ExecutorsOK
    BY <1>1, <2>1 DEF ExecutorsOK
  <2>3. MempoolOK
    BY <1>1 DEF MempoolOK
  <2>4. NetworkOK
    <3>1. Range(NoEthTx.signatures) = {}
      BY DEF NoEthTx, Range
    <3> QED BY <1>2, <3>1 DEF NetworkOK
  <2> QED BY <1>1, <2>2, <2>3, <2>4, BridgeExecutorAssumption DEF RelayersInv
<1> QED BY <1>5, <1>6, <1>7, <1>8 DEF HalfBridgeInv

LEMMA HalfBridgeAlways == HalfBridgeSpec => []HalfBridgeInv
<1>1. HalfBridgeInv /\ [HalfBridgeNext]_halfVars => HalfBridgeInv'
  BY HalfBridgeStep
<1> QED BY <1>1, HalfBridgeStarts, PTL DEF HalfBridgeSpec

------------------------------------------------------------------------------
(* The theorems *)

(***************************************************************************)
(* The relayers' memory and the signatures on their way are well formed in *)
(* every state: the step is one of the state machine, the stored batch is  *)
(* one of the safe's, no counter passes its limit, and no relayer holds a  *)
(* signature that was not made (bridgeExecutor.go,                         *)
(* ProcessMaxQuorumRetriesOnEthereum, signaturesHolder).                   *)
(***************************************************************************)
THEOREM RelayersTypeCorrect == HalfBridgeSpec => []RelayersTypeOK
<1>1. HalfBridgeInv => RelayersTypeOK
  <2> SUFFICES ASSUME HalfBridgeInv PROVE RelayersTypeOK
    OBVIOUS
  <2>1. RelayersInv /\ SafeInv /\ NetworkOK /\ failures \in 0 .. MaxFailures
    BY DEF HalfBridgeInv, RelayersInv, ContractsInv
  <2>2. safe.firstBatchId \in 1 .. MaxTx + 1 /\ MaxTx \in Nat
    BY <2>1, SafeInvMeans, TxBatchAssumption DEF SafeTypeOK, BatchIds
  <2>3. ASSUME NEW r \in Honest
        PROVE  executor[r].batch.id \in 0 .. MaxTx + 1
    <3>1. PICK b : b = executor[r].batch
      OBVIOUS
    <3>2. CASE ReadBatch(b)
      <4>1. b.id \in 1 .. safe.firstBatchId
        BY <3>2 DEF ReadBatch, AskedFor
      <4> QED BY <2>2, <3>1, <4>1
    <3>3. CASE b = NoBatch
      <4>1. b.id = 0
        BY <3>3 DEF NoBatch, TransferBatch
      <4> QED BY <2>2, <3>1, <4>1
    <3> QED BY <2>1, <3>1, <3>2, <3>3, WorkingExecutor
  <2>4. ASSUME NEW r \in Honest
        PROVE  Working(executor[r]) /\ executor[r].step \in Steps
    BY <2>1, WorkingExecutor
  <2> QED BY <2>1, <2>3, <2>4 DEF RelayersTypeOK, Working, CountersOK, NetworkOK
<1> QED BY <1>1, HalfBridgeAlways, PTL

(***************************************************************************)
(* A batch is settled on MultiversX as Ethereum has executed it, for any   *)
(* number of relayers of which fewer than the two quorums are faulty, and  *)
(* whatever batches grow or are stale, whoever leads, and whatever is lost *)
(* or restarted: a user gets the tokens or the refund, never both and      *)
(* never neither (ResolveNewDeposits, executeTransfer,                     *)
(* set_transaction_batch_status).                                          *)
(***************************************************************************)
THEOREM SettledAlwaysAsExecuted == HalfBridgeSpec => []SettledAsExecuted
<1>1. HalfBridgeInv => SettledAsExecuted
  BY DEF HalfBridgeInv, SettlementsOK
<1> QED BY <1>1, HalfBridgeAlways, PTL

------------------------------------------------------------------------------
(* Whole batches, while the settings stay *)

\* All transactions settled so far.
SettledTxs == FlattenSeq([n \in DOMAIN settlements |-> settlements[n].txs])

\* Ethereum has paid the settled batches, and perhaps the first one, each whole.
WholeInv ==
    LET paid == Len(executions) IN
    /\ \A n \in 1 .. paid : executions[n].nonce = n
    /\ \/ /\ paid + 1 = safe.firstBatchId
          /\ AllExecuted = Asked(SettledTxs)
       \/ /\ paid = safe.firstBatchId
          /\ AllExecuted = Asked(SettledTxs \o FirstBatch(safe))

\* All transfers that transactions can ask for.
Askable == {AskedBy(tx) : tx \in SafeTx}

LEMMA AskedIs ==
    ASSUME NEW txs \in Seq(SafeTx)
    PROVE  /\ Asked(txs) \in Seq(Askable) /\ Len(Asked(txs)) = Len(txs)
           /\ \A i \in 1 .. Len(txs) : Asked(txs)[i] = AskedBy(txs[i])
<1>1. DOMAIN txs = 1 .. Len(txs) /\ Len(txs) \in Nat
  OBVIOUS
<1>2. Asked(txs) = [i \in 1 .. Len(txs) |-> AskedBy(txs[i])]
  BY <1>1 DEF Asked, AskedBy
<1>3. \A i \in 1 .. Len(txs) : AskedBy(txs[i]) \in Askable
  BY ElementOfSeq DEF Askable
<1> QED BY <1>1, <1>2, <1>3

LEMMA AskedConcat ==
    ASSUME NEW txs \in Seq(SafeTx), NEW more \in Seq(SafeTx)
    PROVE  Asked(txs \o more) = Asked(txs) \o Asked(more)
<1>1. PICK all \in Seq(SafeTx) : all = txs \o more
  BY ConcatProperties
<1>2. /\ Len(all) = Len(txs) + Len(more) /\ Len(txs) \in Nat /\ Len(more) \in Nat
      /\ \A i \in 1 .. Len(txs) + Len(more) :
            all[i] = IF i <= Len(txs) THEN txs[i] ELSE more[i - Len(txs)]
  BY <1>1, ConcatProperties
<1>3. PICK front, back, whole :
         front = Asked(txs) /\ back = Asked(more) /\ whole = Asked(all)
  OBVIOUS
<1>4. /\ front \in Seq(Askable) /\ Len(front) = Len(txs)
      /\ \A i \in 1 .. Len(txs) : front[i] = AskedBy(txs[i])
  BY <1>3, AskedIs
<1>5. /\ back \in Seq(Askable) /\ Len(back) = Len(more)
      /\ \A i \in 1 .. Len(more) : back[i] = AskedBy(more[i])
  BY <1>3, AskedIs
<1>6. /\ whole \in Seq(Askable) /\ Len(whole) = Len(all)
      /\ \A i \in 1 .. Len(all) : whole[i] = AskedBy(all[i])
  BY <1>3, AskedIs
<1>7. PICK list \in Seq(Askable) : list = front \o back
  BY <1>4, <1>5, ConcatProperties
<1>8. /\ Len(list) = Len(front) + Len(back)
      /\ \A i \in 1 .. Len(front) + Len(back) :
            list[i] = IF i <= Len(front) THEN front[i] ELSE back[i - Len(front)]
  <2>1. front \in Seq(Askable) /\ back \in Seq(Askable)
    BY <1>4, <1>5
  <2> QED BY <1>7, <2>1, ConcatProperties, Zenon
<1>9. ASSUME NEW i \in 1 .. Len(all) PROVE whole[i] = list[i]
  <2>1. CASE i <= Len(txs)
    <3>1. i \in 1 .. Len(txs)
      BY <1>2, <2>1
    <3> QED BY <1>2, <1>4, <1>5, <1>6, <1>8, <2>1, <3>1
  <2>2. CASE ~(i <= Len(txs))
    <3>1. i - Len(txs) \in 1 .. Len(more)
      BY <1>2, <2>2
    <3> QED BY <1>2, <1>4, <1>5, <1>6, <1>8, <2>2, <3>1
  <2> QED BY <2>1, <2>2
<1>10. Len(whole) = Len(list)
  BY <1>2, <1>4, <1>5, <1>6, <1>8
<1>11. whole = list
  BY <1>6, <1>7, <1>9, <1>10, SeqEqual
<1> QED BY <1>1, <1>3, <1>7, <1>11

LEMMA AskedAppend ==
    ASSUME NEW txs \in Seq(SafeTx), NEW tx \in SafeTx
    PROVE  Asked(Append(txs, tx)) = Append(Asked(txs), AskedBy(tx))
<1>1. PICK one \in Seq(SafeTx) : one = <<tx>>
  <2>1. <<tx>> \in Seq(SafeTx)
    OBVIOUS
  <2> QED BY <2>1
<1>2. Append(txs, tx) = txs \o one
  BY <1>1, AppendIsConcat
<1>3. /\ Asked(one) \in Seq(Askable) /\ Len(Asked(one)) = Len(one)
      /\ \A i \in 1 .. Len(one) : Asked(one)[i] = AskedBy(one[i])
  BY AskedIs
<1>4. Len(one) = 1 /\ one[1] = tx
  BY <1>1
<1>5. Asked(one) = <<AskedBy(tx)>>
  BY <1>3, <1>4
<1>6. Asked(txs) \in Seq(Askable) /\ AskedBy(tx) \in Askable
  BY AskedIs DEF Askable
<1>7. Append(Asked(txs), AskedBy(tx)) = Asked(txs) \o <<AskedBy(tx)>>
  BY <1>6, AppendIsConcat
<1> QED BY <1>2, <1>5, <1>7, AskedConcat

\* A user asks for one of the transfers that HalfBridge hands over.
LEMMA AskedByUser ==
    ASSUME EsdtToken \in DOMAIN Erc20ForToken, NEW tx, tx.from \in Users,
           NEW payment \in Payments, tx.amount \in 0 .. payment
    PROVE  AskedBy(tx) \in [token : Tokens, amount : Amounts, recipient : EthRecipients]
<1>1. Erc20ForToken[EsdtToken] \in Tokens /\ EthRecipientOf[tx.from] \in EthRecipients
  BY MultiversXToEthAssumption
<1>2. tx.amount \in Amounts
  BY DEF Amounts
<1> QED BY <1>1, <1>2 DEF AskedBy

\* The elements of a list with one more.
LEMMA AppendIs ==
    ASSUME NEW S, NEW list \in Seq(S), NEW x \in S
    PROVE  Append(list, x) =
              [n \in 1 .. Len(list) + 1 |-> IF n = Len(list) + 1 THEN x ELSE list[n]]
<1>1. PICK more : more = Append(list, x)
  OBVIOUS
<1>2. /\ more \in Seq(S) /\ Len(more) = Len(list) + 1 /\ more[Len(list) + 1] = x
      /\ \A n \in 1 .. Len(list) : more[n] = list[n]
  BY <1>1, AppendProperties
<1>3. more = [n \in 1 .. Len(more) |-> more[n]] /\ Len(list) \in Nat
  BY <1>2
<1>4. ASSUME NEW n \in 1 .. Len(list) + 1
      PROVE  more[n] = IF n = Len(list) + 1 THEN x ELSE list[n]
  <2>1. n = Len(list) + 1 \/ (n # Len(list) + 1 /\ n \in 1 .. Len(list))
    BY <1>3
  <2> QED BY <1>2, <2>1
<1>5. more = [n \in 1 .. Len(list) + 1 |-> more[n]]
  BY <1>2, <1>3
<1> QED BY <1>1, <1>4, <1>5

\* What is settled, as lists of transactions.
LEMMA SettledListsType ==
    ASSUME SettlementsOK
    PROVE  /\ [n \in DOMAIN settlements |-> settlements[n].txs] \in Seq(Seq(SafeTx))
           /\ SettledTxs \in Seq(SafeTx)
<1>1. settlements \in Seq(Settlement)
  BY DEF SettlementsOK
<1>2. PICK lists : lists = [n \in DOMAIN settlements |-> settlements[n].txs]
  OBVIOUS
<1>3. DOMAIN settlements = 1 .. Len(settlements) /\ Len(settlements) \in Nat
  BY <1>1
<1>4. \A n \in 1 .. Len(settlements) : settlements[n].txs \in Seq(SafeTx)
  <2>1. \A n \in 1 .. Len(settlements) : settlements[n] \in Settlement
    BY <1>1, ElementOfSeq
  <2> QED BY <2>1 DEF Settlement
<1>5. lists \in Seq(Seq(SafeTx))
  BY <1>2, <1>3, <1>4
<1> QED BY <1>2, <1>5, FlattenType DEF SettledTxs

\* One more settlement settles the transactions of one more batch.
LEMMA SettledGrow ==
    ASSUME SettlementsOK, NEW new \in Settlement, settlements' = Append(settlements, new)
    PROVE  SettledTxs' = SettledTxs \o new.txs
<1>1. PICK lists : lists = [n \in DOMAIN settlements |-> settlements[n].txs]
  OBVIOUS
<1>2. PICK txs : txs = new.txs
  OBVIOUS
<1>3. lists \in Seq(Seq(SafeTx)) /\ txs \in Seq(SafeTx)
  BY <1>1, <1>2, SettledListsType DEF Settlement
<1>4. settlements \in Seq(Settlement) /\ Len(settlements) \in Nat
  BY LenProperties DEF SettlementsOK
<1>5. PICK after : after = settlements'
  OBVIOUS
<1>6. /\ after \in Seq(Settlement) /\ Len(after) = Len(settlements) + 1
      /\ after[Len(settlements) + 1] = new
      /\ \A n \in 1 .. Len(settlements) : after[n] = settlements[n]
  BY <1>4, <1>5, AppendProperties
<1>7. PICK longer : longer = [n \in DOMAIN after |-> after[n].txs]
  OBVIOUS
<1>8. longer = Append(lists, txs)
  <2>1. DOMAIN after = 1 .. Len(settlements) + 1 /\ DOMAIN settlements = 1 .. Len(settlements)
    BY <1>4, <1>6
  <2>2. Len(lists) = Len(settlements)
    BY <1>1, <1>4, <2>1
  <2>3. Append(lists, txs) =
           [n \in 1 .. Len(lists) + 1 |-> IF n = Len(lists) + 1 THEN txs ELSE lists[n]]
    BY <1>3, AppendIs
  <2>4. ASSUME NEW n \in 1 .. Len(settlements) + 1
        PROVE  after[n].txs = IF n = Len(lists) + 1 THEN txs ELSE lists[n]
    <3>1. CASE n = Len(settlements) + 1
      BY <1>2, <1>6, <2>2, <3>1
    <3>2. CASE n # Len(settlements) + 1
      <4>1. n \in 1 .. Len(settlements)
        BY <1>4, <3>2
      <4> QED BY <1>1, <1>6, <2>1, <2>2, <3>2, <4>1
    <3> QED BY <3>1, <3>2
  <2> QED BY <1>7, <2>1, <2>2, <2>3, <2>4
<1>9. FlattenSeq(longer) = FlattenSeq(lists) \o txs
  BY <1>3, <1>8, FlattenAppend
<1> QED BY <1>1, <1>2, <1>5, <1>7, <1>9 DEF SettledTxs

\* One more execution pays the transfers of one more batch.
LEMMA ExecutedGrow ==
    ASSUME ExecutionsOK, NEW x \in Execution, executions' = Append(executions, x)
    PROVE  AllExecuted' = AllExecuted \o x.transfers
<1>1. PICK lists : lists = [n \in DOMAIN executions |-> executions[n].transfers]
  OBVIOUS
<1>2. PICK transfers : transfers = x.transfers
  OBVIOUS
<1>3. executions \in Seq(Execution) /\ Len(executions) \in Nat
  BY LenProperties DEF ExecutionsOK
<1>4. DOMAIN executions = 1 .. Len(executions)
  BY <1>3
<1>5. transfers \in Seq(TransferType)
  BY <1>2 DEF Execution
<1>6. lists \in Seq(Seq(TransferType))
  <2>1. \A n \in 1 .. Len(executions) : executions[n] \in Execution
    BY <1>3, ElementOfSeq
  <2>2. \A n \in 1 .. Len(executions) : executions[n].transfers \in Seq(TransferType)
    BY <2>1 DEF Execution
  <2> QED BY <1>1, <1>3, <1>4, <2>2
<1>7. PICK after : after = executions'
  OBVIOUS
<1>8. /\ after \in Seq(Execution) /\ Len(after) = Len(executions) + 1
      /\ after[Len(executions) + 1] = x
      /\ \A n \in 1 .. Len(executions) : after[n] = executions[n]
  BY <1>3, <1>7, AppendProperties
<1>9. PICK longer : longer = [n \in DOMAIN after |-> after[n].transfers]
  OBVIOUS
<1>10. longer = Append(lists, transfers)
  <2>1. DOMAIN after = 1 .. Len(executions) + 1
    BY <1>3, <1>8
  <2>2. Len(lists) = Len(executions)
    BY <1>1, <1>3, <1>4
  <2>3. Append(lists, transfers) =
           [n \in 1 .. Len(lists) + 1 |-> IF n = Len(lists) + 1 THEN transfers ELSE lists[n]]
    BY <1>5, <1>6, AppendIs
  <2>4. ASSUME NEW n \in 1 .. Len(executions) + 1
        PROVE  after[n].transfers = IF n = Len(lists) + 1 THEN transfers ELSE lists[n]
    <3>1. CASE n = Len(executions) + 1
      BY <1>2, <1>8, <2>2, <3>1
    <3>2. CASE n # Len(executions) + 1
      <4>1. n \in 1 .. Len(executions)
        BY <1>3, <3>2
      <4> QED BY <1>1, <1>4, <1>8, <2>2, <3>2, <4>1
    <3> QED BY <3>1, <3>2
  <2> QED BY <1>9, <2>1, <2>2, <2>3, <2>4
<1>11. FlattenSeq(longer) = FlattenSeq(lists) \o transfers
  BY <1>5, <1>6, <1>10, FlattenAppend
<1> QED BY <1>1, <1>2, <1>7, <1>9, <1>11 DEF AllExecuted

\* The batches paid are the first ones, each once.
LEMMA PaidNonces ==
    ASSUME ExecutionsOK, WholeInv
    PROVE  \A n : n \in executedBatches <=> n \in 1 .. Len(executions)
<1>1. executions \in Seq(Execution) /\ DOMAIN executions = 1 .. Len(executions)
  BY DEF ExecutionsOK
<1>2. \A n \in 1 .. Len(executions) : executions[n].nonce = n /\ n \in executedBatches
  BY DEF WholeInv, ExecutionsOK
<1>3. ASSUME NEW n \in executedBatches PROVE n \in 1 .. Len(executions)
  <2>1. PICK x \in Range(executions) : x.nonce = n
    BY DEF ExecutionsOK
  <2>2. PICK k \in 1 .. Len(executions) : x = executions[k]
    BY <1>1 DEF Range
  <2> QED BY <1>2, <2>1, <2>2
<1> QED BY <1>2, <1>3

\* What is waiting and what is settled are transactions; a paid batch is closed.
LEMMA WholeMeans ==
    ASSUME SettingsFixed, SafeInv, SettlementsOK, ExecutionsOK, WholeInv
    PROVE  /\ safe.firstBatchId \in Nat /\ Len(executions) \in Nat
           /\ SettledTxs \in Seq(SafeTx) /\ FirstBatch(safe) \in Seq(SafeTx)
           /\ Queue(safe) \in Seq(SafeTx)
           /\ Len(executions) = safe.firstBatchId => FirstIsFull(safe)
<1>1. safe.firstBatchId \in Nat /\ safe.firstBatchId \in 1 .. safe.firstBatchId
      /\ FirstBatch(safe) \in Seq(SafeTx)
  BY BatchesAreTyped DEF BatchesTyped
<1>2. Queue(safe) \in Seq(SafeTx) /\ SettledTxs \in Seq(SafeTx)
  BY SafeInvTypes, SettledListsType
<1>3. executions \in Seq(Execution) /\ Len(executions) \in Nat
  BY LenProperties DEF ExecutionsOK
<1>4. ASSUME Len(executions) = safe.firstBatchId PROVE FirstIsFull(safe)
  <2>1. PICK k : k = safe.firstBatchId
    OBVIOUS
  <2>2. k \in 1 .. Len(executions)
    BY <1>1, <1>4, <2>1
  <2>3. executions[k].nonce = k /\ AskedFor(executions[k].nonce, executions[k].transfers)
    BY <2>2 DEF WholeInv, ExecutionsOK
  <2>4. Closed(k)
    BY <2>3 DEF AskedFor
  <2> QED BY <1>1, <2>1, <2>4 DEF Closed
<1> QED BY <1>1, <1>2, <1>3, <1>4

\* A user hands a transfer in; the owner of the safe does not.
LEMMA UserHandsIn ==
    ASSUME SettingsFixed, EsdtToken \in DOMAIN Erc20ForToken, SafeInv, ShortIfFixed,
           SettlementsOK, ExecutionsOK, WholeInv,
           UserCall, UNCHANGED <<block, settlements, executions>>
    PROVE  WholeInv' /\ UNCHANGED AllExecuted /\ (Half!HandIn \/ UNCHANGED AllAsked)
<1>1. UNCHANGED AllExecuted /\ UNCHANGED SettledTxs
  BY DEF AllExecuted, SettledTxs
<1>2. safe'.firstBatchId = safe.firstBatchId
  BY FirstBatchGrows
<1>3. /\ safe.firstBatchId \in Nat /\ Len(executions) \in Nat
      /\ SettledTxs \in Seq(SafeTx) /\ Queue(safe) \in Seq(SafeTx)
      /\ Len(executions) = safe.firstBatchId => FirstIsFull(safe)
  BY WholeMeans
<1>4. Len(executions) = safe.firstBatchId => FirstBatch(safe') = FirstBatch(safe)
  BY <1>3, ClosedStays DEF SameFirst
<1>5. WholeInv'
  <2>1. \A n \in 1 .. Len(executions') : executions'[n].nonce = n
    BY DEF WholeInv
  <2>2. CASE Len(executions) + 1 = safe.firstBatchId /\ AllExecuted = Asked(SettledTxs)
    <3>1. Len(executions') + 1 = safe'.firstBatchId /\ AllExecuted' = Asked(SettledTxs')
      BY <1>1, <1>2, <2>2, ZenonT(30)
    <3> QED BY <2>1, <3>1 DEF WholeInv, Asked
  <2>3. CASE /\ Len(executions) = safe.firstBatchId
             /\ AllExecuted = Asked(SettledTxs \o FirstBatch(safe))
    <3>1. /\ Len(executions') = safe'.firstBatchId
          /\ AllExecuted' = Asked(SettledTxs' \o FirstBatch(safe'))
      BY <1>1, <1>2, <1>4, <2>3
    <3> QED BY <2>1, <3>1 DEF WholeInv, Asked, FirstBatch
  <2> QED BY <2>2, <2>3 DEF WholeInv
<1>6. PICK queue : queue = Queue(safe)
  OBVIOUS
<1>7. PICK txs \in Seq(SafeTx) : txs = SettledTxs
  BY <1>3
<1>8. AllAsked = Asked(txs \o queue) /\ AllAsked' = Asked(txs \o Queue(safe'))
  <2>1. AllAsked = Asked(SettledTxs \o Queue(safe))
    BY DEF AllAsked, SettledTxs
  <2>2. AllAsked' = Asked(SettledTxs' \o Queue(safe'))
    BY DEF AllAsked, SettledTxs, Asked, Queue
  <2> QED BY <1>1, <1>6, <1>7, <2>1, <2>2
<1>9. CASE \E size \in BatchSizes : SafeSetMaxTxBatchSize(size)
  <2>1. safe \in BatchesOf(SafeTx)
    BY DEF SafeInv, SafeBatchesOK
  <2>2. /\ safe'.lastBatchId = safe.lastBatchId /\ safe'.pendingBatches = safe.pendingBatches
        /\ safe'.firstBatchId = safe.firstBatchId
    BY <1>9, <2>1 DEF SafeSetMaxTxBatchSize, SetMaxTxBatchSize, BatchesOf
  <2>3. Queue(safe') = queue
    BY <1>6, <2>2, QueueSame
  <2> QED BY <1>1, <1>5, <1>8, <2>3
<1>10. CASE \E from \in Users, payment \in Payments, fee \in RequiredFees :
               CreateTransaction(from, payment, fee)
  <2>1. PICK from \in Users, payment \in Payments, fee \in RequiredFees :
           CreateTransaction(from, payment, fee)
    BY <1>10
  <2>2. PICK tx \in SafeTx :
           tx.from = from /\ tx.amount \in 0 .. payment /\ Queue(safe') = Append(Queue(safe), tx)
    BY <2>1, TransactionAdded
  <2>3. PICK list \in Seq(SafeTx) : list = txs \o queue
    BY <1>3, <1>6, <1>7, ConcatProperties
  <2>4. txs \o Queue(safe') = Append(list, tx)
    BY <1>3, <1>6, <1>7, <2>2, <2>3, AppendConcat
  <2>5. AllAsked' = Append(AllAsked, AskedBy(tx))
    BY <1>8, <2>3, <2>4, AskedAppend
  <2>6. AskedBy(tx) \in [token : Tokens, amount : Amounts, recipient : EthRecipients]
    BY <2>2, AskedByUser
  <2>7. Half!HandIn
    BY <1>1, <2>5, <2>6 DEF Half!HandIn
  <2> QED BY <1>1, <1>5, <2>7
<1> QED BY <1>9, <1>10 DEF UserCall

\* Settling a batch moves its transactions from the queue to what is settled.
LEMMA SettlingHandsNothing ==
    ASSUME SettingsFixed, ContractsInv, SettlementsOK, SettlementsOK', ExecutionsOK, WholeInv,
           Settles, UNCHANGED executions
    PROVE  WholeInv' /\ UNCHANGED <<AllAsked, AllExecuted>>
<1>1. PICK r \in Relayers, id \in DOMAIN actions : PerformSetStatus(r, id) /\ RecordSettlement(id)
  BY DEF Settles
<1>2. PICK first, batch, statuses :
         first = safe.firstBatchId /\ batch = FirstBatch(safe) /\ statuses = actions[id].statuses
  OBVIOUS
<1>3. SafeInv /\ safe \in BatchesOf(SafeTx) /\ Window(safe, safe.lastTxNonce)
      /\ safe.lastTxNonce \in Nat /\ safe.lastTxNonce <= MaxTx
  BY SafeInvTypes, SafeInvMeans DEF ContractsInv, SafeInv, SafeBatchesOK, SafeTypeOK, InOrder, SafeOrder
<1>4. /\ settlements' = Append(settlements, NewSettlement(id))
      /\ safe' = ClearFirstBatch(safe) /\ batch # <<>> /\ safe'.firstBatchId = first + 1
      /\ statuses \in Seq(ProposedStatuses)
  BY <1>1, <1>2, SettlingIs
<1>5. /\ first \in Nat /\ Len(executions) \in Nat
      /\ SettledTxs \in Seq(SafeTx) /\ batch \in Seq(SafeTx) /\ Queue(safe) \in Seq(SafeTx)
  BY <1>2, <1>3, WholeMeans
<1>6. PICK new : new = NewSettlement(id)
  OBVIOUS
<1>7. /\ new \in Settlement /\ new.id = first /\ new.txs = batch
      /\ settlements' = Append(settlements, new)
  BY <1>2, <1>4, <1>5, <1>6 DEF NewSettlement, Settlement
<1>8. SettledTxs' = SettledTxs \o batch
  <2>1. SettledTxs' = SettledTxs \o new.txs
    BY <1>7, SettledGrow
  <2> QED BY <1>7, <2>1
<1>9. UNCHANGED AllExecuted
  BY DEF AllExecuted
\* Its execution is one of those made.
<1>10. Len(executions) = first
  <2>1. new \in Range(settlements')
    <3>1. settlements \in Seq(Settlement)
      BY DEF SettlementsOK
    <3>2. settlements' \in Seq(Settlement) /\ Len(settlements') = Len(settlements) + 1
          /\ settlements'[Len(settlements) + 1] = new /\ Len(settlements) \in Nat
      BY <1>7, <3>1, AppendProperties, LenProperties
    <3>3. Len(settlements) + 1 \in DOMAIN settlements'
      BY <3>2
    <3> QED BY <3>2, <3>3 DEF Range
  <2>2. PICK x \in Range(executions) : x.nonce = first
    BY <1>7, <2>1 DEF SettlementsOK, SettledAsExecuted
  <2>3. PICK k \in 1 .. Len(executions) : x = executions[k]
    BY <2>2 DEF Range, ExecutionsOK
  <2>4. k = first
    BY <2>2, <2>3 DEF WholeInv
  <2> QED BY <1>2, <1>5, <2>4 DEF WholeInv
<1>11. AllExecuted = Asked(SettledTxs \o batch)
  BY <1>2, <1>5, <1>10 DEF WholeInv
<1>12. WholeInv'
  <2>1. \A n \in 1 .. Len(executions') : executions'[n].nonce = n
    BY DEF WholeInv
  <2>2. Len(executions') + 1 = safe'.firstBatchId /\ AllExecuted' = Asked(SettledTxs')
    BY <1>4, <1>8, <1>9, <1>10, <1>11
  <2> QED BY <2>1, <2>2 DEF WholeInv, Asked
<1>13. PICK rest \in Seq(SafeTx) : rest = Queue(safe') /\ Queue(safe) = batch \o rest
  <2>1. /\ ClearFirstBatch(safe) \in BatchesOf(SafeTx)
        /\ Window(ClearFirstBatch(safe), safe.lastTxNonce)
        /\ Queue(safe) = FirstBatch(safe) \o Queue(ClearFirstBatch(safe))
    BY <1>2, <1>3, <1>4, ClearingFirst
  <2>2. Queue(ClearFirstBatch(safe)) \in Seq(SafeTx)
    BY <1>3, <2>1, WindowIsSeq
  <2> QED BY <1>2, <1>4, <2>1, <2>2
<1>14. AllAsked = Asked(SettledTxs \o (batch \o rest))
  BY <1>13 DEF AllAsked, SettledTxs
<1>15. AllAsked' = Asked((SettledTxs \o batch) \o rest)
  <2>1. AllAsked' = Asked(SettledTxs' \o Queue(safe'))
    BY DEF AllAsked, SettledTxs, Asked, Queue
  <2> QED BY <1>8, <1>13, <2>1, Zenon
<1>16. (SettledTxs \o batch) \o rest = SettledTxs \o (batch \o rest)
  BY <1>5, ConcatAssociative, SMTT(20)
<1> QED BY <1>9, <1>12, <1>14, <1>15, <1>16

\* Ethereum pays the first batch, whole: the next transfers asked for.
LEMMA PaymentHandsOut ==
    ASSUME SettingsFixed, SafeInv, SettlementsOK, ExecutionsOK, WholeInv,
           Paid, UNCHANGED <<safe, settlements>>
    PROVE  WholeInv' /\ Half!HandOut
<1>1. PICK x \in Execution :
         /\ AskedFor(x.nonce, x.transfers) /\ x.nonce \notin executedBatches
         /\ executions' = Append(executions, x)
  BY DEF Paid
<1>2. PICK first, batch, paid, transfers :
         /\ first = safe.firstBatchId /\ batch = FirstBatch(safe) /\ paid = Len(executions)
         /\ transfers = x.transfers
  OBVIOUS
<1>3. /\ first \in Nat /\ paid \in Nat /\ batch \in Seq(SafeTx) /\ Queue(safe) \in Seq(SafeTx)
      /\ BatchOf(first) = batch
  BY <1>2, WholeMeans, BatchesAreTyped
<1>4. PICK txs \in Seq(SafeTx) : txs = SettledTxs
  BY WholeMeans
<1>5. x.nonce \in 1 .. first /\ ~(x.nonce \in 1 .. paid)
  BY <1>1, <1>2, PaidNonces DEF AskedFor
<1>6. paid + 1 = first /\ x.nonce = first /\ AllExecuted = Asked(txs)
  BY <1>2, <1>3, <1>4, <1>5 DEF WholeInv
<1>7. FirstIsFull(safe) /\ batch # <<>>
  <2>1. Closed(first)
    BY <1>1, <1>6 DEF AskedFor
  <2> QED BY <1>2, <1>3, <2>1 DEF Closed, FirstIsFull, IsBatchFull, FirstBatch
<1>8. /\ transfers \in Seq(TransferType) /\ Len(transfers) = Len(batch)
      /\ \A i \in 1 .. Len(transfers) : transfers[i] = AskedBy(batch[i])
  BY <1>1, <1>2, <1>3, <1>6 DEF AskedFor
<1>9. transfers = Asked(batch)
  <2>1. PICK asked : asked = Asked(batch)
    OBVIOUS
  <2>2. /\ asked \in Seq(Askable) /\ Len(asked) = Len(batch)
        /\ \A i \in 1 .. Len(batch) : asked[i] = AskedBy(batch[i])
    BY <1>3, <2>1, AskedIs
  <2>3. asked = [i \in 1 .. Len(batch) |-> asked[i]]
        /\ transfers = [i \in 1 .. Len(batch) |-> transfers[i]]
    BY <1>8, <2>2
  <2> QED BY <1>8, <2>1, <2>2, <2>3
<1>10. PICK more \in Seq(SafeTx) : more = txs \o batch
  BY <1>3, ConcatProperties
<1>11. AllExecuted' = Asked(more)
  <2>1. AllExecuted' = AllExecuted \o transfers
    BY <1>1, <1>2, ExecutedGrow
  <2> QED BY <1>3, <1>6, <1>9, <1>10, <2>1, AskedConcat
<1>12. WholeInv'
  <2>1. /\ Len(executions') = paid + 1 /\ executions'[paid + 1] = x
        /\ \A n \in 1 .. paid : executions'[n] = executions[n]
    BY <1>1, <1>2, AppendProperties DEF ExecutionsOK
  <2>2. ASSUME NEW n \in 1 .. Len(executions') PROVE executions'[n].nonce = n
    <3>1. n \in 1 .. paid \/ n = paid + 1
      BY <1>3, <2>1
    <3> QED BY <1>2, <1>6, <2>1, <3>1 DEF WholeInv
  <2>3. SettledTxs' = SettledTxs
    BY DEF SettledTxs
  <2>4. Len(executions') = safe'.firstBatchId
        /\ AllExecuted' = Asked(SettledTxs' \o FirstBatch(safe'))
    BY <1>2, <1>4, <1>6, <1>10, <1>11, <2>1, <2>3
  <2> QED BY <2>2, <2>4 DEF WholeInv, Asked, FirstBatch
<1>13. PICK rest \in Seq(SafeTx) : Queue(safe) = batch \o rest
  <2>1. safe \in BatchesOf(SafeTx) /\ Window(safe, safe.lastTxNonce)
        /\ safe.lastTxNonce \in Nat /\ safe.lastTxNonce <= MaxTx
    BY SafeInvTypes, SafeInvMeans DEF SafeInv, SafeBatchesOK, SafeTypeOK, InOrder, SafeOrder
  <2>2. /\ ClearFirstBatch(safe) \in BatchesOf(SafeTx)
        /\ Window(ClearFirstBatch(safe), safe.lastTxNonce)
        /\ Queue(safe) = FirstBatch(safe) \o Queue(ClearFirstBatch(safe))
    BY <1>2, <1>7, <2>1, ClearingFirst
  <2>3. Queue(ClearFirstBatch(safe)) \in Seq(SafeTx)
    BY <2>1, <2>2, WindowIsSeq
  <2> QED BY <1>2, <2>2, <2>3
<1>14. UNCHANGED AllAsked
  BY DEF AllAsked, Asked, Queue
<1>15. PICK before, after, last, all :
          before = Asked(txs) /\ after = Asked(more) /\ last = Asked(rest) /\ all = AllAsked
  OBVIOUS
<1>16. all = after \o last
  <2>1. AllAsked = Asked(txs \o (batch \o rest))
    BY <1>4, <1>13 DEF AllAsked, SettledTxs
  <2>2. txs \o (batch \o rest) = more \o rest
    BY <1>3, <1>10, ConcatAssociative, SMTT(20)
  <2>3. Asked(more \o rest) = Asked(more) \o Asked(rest)
    BY AskedConcat
  <2> QED BY <1>15, <2>1, <2>2, <2>3
<1>17. /\ after \in Seq(Askable) /\ last \in Seq(Askable)
       /\ Len(before) = Len(txs) /\ Len(after) = Len(txs) + Len(batch)
  <2>1. Len(more) = Len(txs) + Len(batch)
    BY <1>3, <1>10, ConcatProperties
  <2> QED BY <1>15, <2>1, AskedIs
<1>18. Len(batch) \in Nat \ {0} /\ Len(txs) \in Nat /\ Len(last) \in Nat
  BY <1>3, <1>7, <1>17
<1>19. /\ all \in Seq(Askable) /\ Len(all) = Len(after) + Len(last)
       /\ \A i \in 1 .. Len(after) : all[i] = after[i]
  <2>1. /\ after \o last \in Seq(Askable) /\ Len(after \o last) = Len(after) + Len(last)
        /\ \A i \in 1 .. Len(after) + Len(last) :
              (after \o last)[i] = IF i <= Len(after) THEN after[i] ELSE last[i - Len(after)]
    <3>1. after \in Seq(Askable) /\ last \in Seq(Askable)
      BY <1>17
    <3> QED BY <3>1, ConcatProperties, Zenon
  <2>2. \A i \in 1 .. Len(after) : i \in 1 .. Len(after) + Len(last) /\ i <= Len(after)
    BY <1>17, <1>18
  <2> QED BY <1>16, <2>1, <2>2
<1>20. Len(after) \in Len(before) + 1 .. Len(all)
  BY <1>17, <1>18, <1>19
<1>21. after = SubSeq(all, 1, Len(after))
  <2>1. Len(after) \in Nat /\ Len(after) <= Len(all) /\ Len(all) \in Nat
    BY <1>17, <1>18, <1>19
  <2>2. SubSeq(all, 1, Len(after)) = [i \in 1 .. Len(after) |-> all[i]]
    BY <1>19, <2>1
  <2>3. after = [i \in 1 .. Len(after) |-> after[i]]
    BY <1>17
  <2>4. [i \in 1 .. Len(after) |-> all[i]] = [i \in 1 .. Len(after) |-> after[i]]
    BY <1>19, ZenonT(30)
  <2> QED BY <2>2, <2>3, <2>4
<1>22. Half!HandOut
  BY <1>6, <1>11, <1>14, <1>15, <1>20, <1>21 DEF Half!HandOut
<1> QED BY <1>12, <1>22

\* Nothing is asked for and nothing is paid when the bridge starts.
LEMMA WholeStarts ==
    ASSUME HalfBridgeInit
    PROVE  WholeInv /\ Half!HalfInit
<1>1. settlements = <<>> /\ executions = <<>> /\ SafeDeployed(TRUE)
  BY DEF HalfBridgeInit, BridgeInit, BridgeDeployed
<1>2. PICK size \in BatchSizes, duration \in BatchDurations : safe = EmptyBatches(size, duration)
  BY <1>1 DEF SafeDeployed
<1>3. size \in Nat /\ duration \in Nat
  BY EsdtSafeAssumption
<1>4. Queue(safe) = <<>> /\ safe.firstBatchId = 1
  BY <1>2, <1>3, NoBatches
<1>5. SettledTxs = <<>> /\ AllExecuted = <<>>
  <2>1. [n \in DOMAIN settlements |-> settlements[n].txs] = <<>>
    BY <1>1
  <2>2. [n \in DOMAIN executions |-> executions[n].transfers] = <<>>
    BY <1>1
  <2>3. FlattenSeq(<<>>) = <<>>
    BY FlattenNone
  <2> QED BY <2>1, <2>2, <2>3 DEF SettledTxs, AllExecuted
<1>6. Asked(<<>>) = <<>>
  BY DEF Asked
<1>7. AllAsked = <<>>
  <2>1. AllAsked = Asked(SettledTxs \o Queue(safe))
    BY DEF AllAsked, SettledTxs
  <2>2. <<>> \o <<>> = <<>>
    OBVIOUS
  <2> QED BY <1>4, <1>5, <1>6, <2>1, <2>2
<1>8. WholeInv
  <2>1. Len(executions) = 0
    BY <1>1
  <2> QED BY <1>1, <1>4, <1>5, <1>6, <2>1 DEF WholeInv
<1> QED BY <1>5, <1>7, <1>8 DEF Half!HalfInit

\* Every step hands transfers in, or hands out the next ones, or is a stutter.
LEMMA WholeStep ==
    ASSUME SettingsFixed, EsdtToken \in DOMAIN Erc20ForToken,
           HalfBridgeInv, HalfBridgeInv', WholeInv, ChainStep
    PROVE  WholeInv' /\ [Half!HalfNext]_<<AllAsked, AllExecuted>>
<1>1. /\ ContractsInv /\ SafeInv /\ ShortIfFixed /\ SettlementsOK /\ ExecutionsOK
      /\ SettlementsOK'
  BY DEF HalfBridgeInv, ContractsInv, EthereumInv
<1>2. CASE UNCHANGED <<safe, settlements, executions>>
  <2>1. WholeInv' /\ UNCHANGED <<AllAsked, AllExecuted>>
    <3>1. SettledTxs' = SettledTxs /\ UNCHANGED <<AllAsked, AllExecuted>>
      BY <1>2 DEF SettledTxs, AllAsked, AllExecuted, Asked, Queue
    <3>2. Asked(SettledTxs)' = Asked(SettledTxs)
          /\ Asked(SettledTxs \o FirstBatch(safe))' = Asked(SettledTxs \o FirstBatch(safe))
      BY <1>2, <3>1 DEF Asked, FirstBatch
    <3> QED BY <1>2, <3>1, <3>2 DEF WholeInv
  <2> QED BY <2>1
<1>3. CASE UserCall /\ UNCHANGED <<block, settlements, executions>>
  <2>1. WholeInv' /\ UNCHANGED AllExecuted /\ (Half!HandIn \/ UNCHANGED AllAsked)
    BY <1>1, <1>3, UserHandsIn
  <2> QED BY <2>1 DEF Half!HalfNext
<1>4. CASE Settles /\ UNCHANGED executions
  <2>1. WholeInv' /\ UNCHANGED <<AllAsked, AllExecuted>>
    BY <1>1, <1>4, SettlingHandsNothing
  <2> QED BY <2>1
<1>5. CASE Paid /\ UNCHANGED <<safe, settlements>>
  <2>1. WholeInv' /\ Half!HandOut
    BY <1>1, <1>5, PaymentHandsOut
  <2> QED BY <2>1 DEF Half!HalfNext
<1> QED BY <1>2, <1>3, <1>4, <1>5 DEF ChainStep

(***************************************************************************)
(* The half bridge implements what HalfBridge promises, when the settings  *)
(* of the batches stay and the token is mapped: in every behaviour what    *)
(* the Ethereum bridge was made to pay is a prefix of what users have      *)
(* asked for on MultiversX, each transaction once and in order, with its   *)
(* amount and recipient, for any number of relayers of which fewer than    *)
(* the two quorums are faulty (createTransaction, the steps 1 to 10,       *)
(* ExecuteTransfer, executedBatches, clear_first_batch).                   *)
(***************************************************************************)
THEOREM HalfBridgeKept ==
    ASSUME SettingsFixed, EsdtToken \in DOMAIN Erc20ForToken
    PROVE  HalfBridgeSpec => ImplementsHalfBridge
<1>1. HalfBridgeInit => WholeInv /\ Half!HalfInit
  BY WholeStarts
<1>2. HalfBridgeInv /\ WholeInv /\ [HalfBridgeNext]_halfVars
         => WholeInv' /\ [Half!HalfNext]_<<AllAsked, AllExecuted>>
  BY HalfBridgeStep, WholeStep
<1> QED BY <1>1, <1>2, HalfBridgeAlways, PTL DEF HalfBridgeSpec, ImplementsHalfBridge, Half!HalfSpec
==============================================================================
