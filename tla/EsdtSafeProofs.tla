--------------------------- MODULE EsdtSafeProofs ---------------------------
(***************************************************************************)
(* Theorems about the safe on MultiversX and the transaction batches it    *)
(* and the multi-transfer contract keep: for any number of users,          *)
(* transactions and batches, any limits, fees and statuses.                *)
(***************************************************************************)
EXTENDS EsdtSafe, DataLemmas

------------------------------------------------------------------------------
(* Batches of the tx-batch module *)

\* Storage of the module with transactions from S.
BatchesOf(S) ==
    [firstBatchId : Nat, lastBatchId : Nat, pendingBatches : [BatchIds -> Seq(S)],
     maxTxBatchSize : Nat, maxTxBatchBlockDuration : Nat, lastTxNonce : Nat]

\* The window of batches after n transactions: nothing waits behind it, and it moves by
\* at most one batch per transaction.
Window(b, n) ==
    /\ 1 <= b.firstBatchId /\ b.firstBatchId <= b.lastBatchId /\ b.lastBatchId <= n + 1
    /\ b.pendingBatches[b.lastBatchId] # <<>> => b.lastBatchId <= n
    /\ \A id \in BatchIds : id > b.lastBatchId => b.pendingBatches[id] = <<>>

\* The batches in the window.
InWindow(b) ==
    [i \in 1 .. (b.lastBatchId - b.firstBatchId + 1) |-> b.pendingBatches[b.firstBatchId + i - 1]]

LEMMA WindowIsSeq ==
    ASSUME NEW S, NEW b \in BatchesOf(S), NEW n \in Nat, n <= MaxTx, Window(b, n)
    PROVE  /\ InWindow(b) \in Seq(Seq(S))
           /\ Len(InWindow(b)) = b.lastBatchId - b.firstBatchId + 1
           /\ Queue(b) = FlattenSeq(InWindow(b))
           /\ Queue(b) \in Seq(S)
<1>1. b.firstBatchId \in Nat /\ b.lastBatchId \in Nat /\ b.pendingBatches \in [BatchIds -> Seq(S)]
  BY DEF BatchesOf
<1> DEFINE k == b.lastBatchId - b.firstBatchId + 1
<1>2. k \in Nat
  BY <1>1 DEF Window
<1>3. \A i \in 1 .. k : b.firstBatchId + i - 1 \in BatchIds
  <2>1. /\ 1 <= b.firstBatchId /\ b.firstBatchId <= b.lastBatchId /\ b.lastBatchId <= n + 1
        /\ BatchIds = 1 .. MaxTx + 1
    BY Zenon DEF Window, BatchIds
  <2>2. ASSUME NEW first \in Nat, NEW last \in Nat, 1 <= first, first <= last, last <= n + 1,
               NEW i \in 1 .. (last - first + 1)
        PROVE  first + i - 1 \in 1 .. MaxTx + 1
    BY <2>2, TxBatchAssumption
  <2> QED BY <1>1, <2>1, <2>2
<1>4. \A i \in 1 .. k : b.pendingBatches[b.firstBatchId + i - 1] \in Seq(S)
  BY <1>1, <1>3
<1>5. InWindow(b) = [i \in 1 .. k |-> b.pendingBatches[b.firstBatchId + i - 1]]
  BY DEF InWindow
<1> HIDE DEF k
<1>6. InWindow(b) \in Seq(Seq(S)) /\ Len(InWindow(b)) = k
  BY <1>2, <1>4, <1>5
<1>7. Queue(b) = FlattenSeq(InWindow(b))
  BY DEF Queue, InWindow
<1> QED BY <1>6, <1>7, FlattenType DEF k

\* Only the window matters.
LEMMA QueueSame ==
    ASSUME NEW b, NEW c, c.firstBatchId = b.firstBatchId, c.lastBatchId = b.lastBatchId,
           c.pendingBatches = b.pendingBatches, NEW n
    PROVE  Queue(c) = Queue(b) /\ (Window(b, n) => Window(c, n))
BY DEF Queue, Window

\* The batch that takes the next transaction, and the batches with it.
NextId(b) == IF IsBatchFull(b, b.lastBatchId) THEN b.lastBatchId + 1 ELSE b.lastBatchId
Extended(b, tx) == [b.pendingBatches EXCEPT ![NextId(b)] = Append(b.pendingBatches[NextId(b)], tx)]

\* The fields after a transaction is added.
LEMMA AddToBatchFields ==
    ASSUME NEW S, NEW b \in BatchesOf(S), NEW tx \in S
    PROVE  /\ AddToBatch(b, tx) \in BatchesOf(S)
           /\ AddToBatch(b, tx).firstBatchId = b.firstBatchId
           /\ AddToBatch(b, tx).lastBatchId = NextId(b)
           /\ AddToBatch(b, tx).pendingBatches = Extended(b, tx)
           /\ AddToBatch(b, tx).maxTxBatchSize = b.maxTxBatchSize
           /\ AddToBatch(b, tx).maxTxBatchBlockDuration = b.maxTxBatchBlockDuration
           /\ AddToBatch(b, tx).lastTxNonce = b.lastTxNonce
<1> DEFINE id == NextId(b)
           pending == [b.pendingBatches EXCEPT ![id] = Append(b.pendingBatches[id], tx)]
<1>1. id \in Nat
  BY DEF BatchesOf, NextId
<1>2. AddToBatch(b, tx) = [b EXCEPT !.lastBatchId = id, !.pendingBatches[id] = Append(@, tx)]
  BY DEF AddToBatch, NextId
<1> HIDE DEF id
<1>3. b.pendingBatches \in [BatchIds -> Seq(S)]
  BY DEF BatchesOf
<1>4. pending \in [BatchIds -> Seq(S)]
  <2>1. \A i \in BatchIds : pending[i] \in Seq(S)
    <3> TAKE i \in BatchIds
    <3>1. CASE i = id
      <4>1. b.pendingBatches[id] \in Seq(S)
        BY <1>3, <3>1
      <4>2. Append(b.pendingBatches[id], tx) \in Seq(S)
        BY <4>1, AppendProperties
      <4> QED BY <1>3, <3>1, <4>2
    <3>2. CASE i # id
      BY <1>3, <3>2
    <3> QED BY <3>1, <3>2
  <2> QED BY <1>3, <2>1
<1>5. AddToBatch(b, tx) = [b EXCEPT !.lastBatchId = id, !.pendingBatches = pending]
  BY <1>2
<1> HIDE DEF pending
<1>6. /\ AddToBatch(b, tx) \in BatchesOf(S)
      /\ AddToBatch(b, tx).firstBatchId = b.firstBatchId
      /\ AddToBatch(b, tx).lastBatchId = id
      /\ AddToBatch(b, tx).pendingBatches = pending
      /\ AddToBatch(b, tx).maxTxBatchSize = b.maxTxBatchSize
      /\ AddToBatch(b, tx).maxTxBatchBlockDuration = b.maxTxBatchBlockDuration
      /\ AddToBatch(b, tx).lastTxNonce = b.lastTxNonce
  BY <1>1, <1>4, <1>5 DEF BatchesOf
<1> QED BY <1>6 DEF id, pending, Extended

LEMMA AppendConcat ==
    ASSUME NEW S, NEW s \in Seq(S), NEW q \in Seq(S), NEW x \in S
    PROVE  s \o Append(q, x) = Append(s \o q, x)
<1>1. s \o Append(q, x) \in Seq(S) /\ Append(s \o q, x) \in Seq(S)
  OBVIOUS
<1>2. Len(s \o Append(q, x)) = Len(Append(s \o q, x))
  OBVIOUS
<1>3. \A i \in 1 .. Len(s \o Append(q, x)) : (s \o Append(q, x))[i] = Append(s \o q, x)[i]
  OBVIOUS
<1> QED BY <1>1, <1>2, <1>3, SeqEqual


\* add_to_batch: the transaction is the last that waits, in this batch or a new one.
LEMMA AddingOne ==
    ASSUME NEW S, NEW b \in BatchesOf(S), NEW n \in Nat, n < MaxTx, Window(b, n), NEW tx \in S
    PROVE  /\ Window(AddToBatch(b, tx), n + 1)
           /\ Queue(AddToBatch(b, tx)) = Append(Queue(b), tx)
<1> DEFINE c == AddToBatch(b, tx)
           last == b.lastBatchId
           first == b.firstBatchId
           id == IF IsBatchFull(b, last) THEN last + 1 ELSE last
<1>1. /\ c \in BatchesOf(S) /\ c.firstBatchId = first /\ c.lastBatchId = id
      /\ c.pendingBatches = [b.pendingBatches EXCEPT ![id] = Append(b.pendingBatches[id], tx)]
  <2>1. /\ c \in BatchesOf(S) /\ c.firstBatchId = first /\ c.lastBatchId = NextId(b)
        /\ c.pendingBatches = Extended(b, tx)
    BY AddToBatchFields
  <2>2. NextId(b) = id
    BY DEF NextId
  <2> HIDE DEF id, c
  <2> QED BY <2>1, <2>2 DEF Extended
<1>2. /\ first \in Nat /\ last \in Nat /\ b.pendingBatches \in [BatchIds -> Seq(S)]
      /\ c.pendingBatches \in [BatchIds -> Seq(S)]
  BY <1>1 DEF BatchesOf
<1>3. /\ 1 <= first /\ first <= last /\ last <= n + 1
      /\ b.pendingBatches[last] # <<>> => last <= n
      /\ \A i \in BatchIds : i > last => b.pendingBatches[i] = <<>>
  BY DEF Window
<1>0. n <= MaxTx /\ MaxTx \in Nat /\ BatchIds = 1 .. MaxTx + 1
  BY TxBatchAssumption DEF BatchIds
<1> HIDE DEF first, last
<1>a. first \in Nat /\ last \in Nat /\ 1 <= first /\ first <= last /\ last <= n + 1
  BY <1>2, <1>3, Zenon
<1>4. last \in BatchIds
  <2>1. last \in 1 .. MaxTx + 1
    BY <1>0, <1>a
  <2> QED BY <1>0, <2>1, Zenon
<1>5. IsBatchFull(b, last) => last <= n
  BY <1>3 DEF IsBatchFull
<1>6. /\ id \in Nat /\ id <= n + 1 /\ id \in BatchIds
      /\ IsBatchFull(b, last) => id = last + 1
      /\ ~IsBatchFull(b, last) => id = last
  <2>1. CASE IsBatchFull(b, last)
    <3>1. id = last + 1 /\ last <= n
      BY <1>5, <2>1
    <3>2. last + 1 \in Nat /\ last + 1 <= n + 1 /\ last + 1 \in 1 .. MaxTx + 1
      BY <1>0, <1>a, <3>1
    <3> QED BY <1>0, <2>1, <3>1, <3>2
  <2>2. CASE ~IsBatchFull(b, last)
    <3>1. id = last
      BY <2>2
    <3> QED BY <1>4, <1>a, <2>2, <3>1
  <2> QED BY <2>1, <2>2
<1> HIDE DEF id, c
<1>7. b.pendingBatches[id] \in Seq(S)
  BY <1>2, <1>6
<1>8. /\ c.pendingBatches[id] = Append(b.pendingBatches[id], tx)
      /\ \A i \in BatchIds : i # id => c.pendingBatches[i] = b.pendingBatches[i]
  BY <1>1, <1>2, <1>6
<1>9. Window(c, n + 1)
  <2>1. first <= id
    BY <1>2, <1>3, <1>6
  <2>2. ASSUME NEW i \in BatchIds, i > id PROVE c.pendingBatches[i] = <<>>
    <3>0. i \in Nat /\ last \in Nat /\ id \in Nat /\ last <= id
      BY <1>0, <1>a, <1>6
    <3>1. i > last /\ i # id
      BY <2>2, <3>0
    <3> QED BY <1>3, <1>8, <3>1
  <2>3. /\ 1 <= c.firstBatchId /\ c.firstBatchId <= c.lastBatchId
        /\ c.lastBatchId <= n + 1
    BY <1>1, <1>3, <1>6, <2>1
  <2>4. c.lastBatchId <= (n + 1) + 1
    BY <1>6, <2>3, <1>1
  <2>5. \A i \in BatchIds : i > c.lastBatchId => c.pendingBatches[i] = <<>>
    BY <1>1, <2>2
  <2> QED BY <2>3, <2>4, <2>5 DEF Window
<1>10. /\ InWindow(b) \in Seq(Seq(S)) /\ Len(InWindow(b)) = last - first + 1
       /\ Queue(b) = FlattenSeq(InWindow(b)) /\ Queue(b) \in Seq(S)
  BY <1>0, WindowIsSeq DEF first, last
<1>11. /\ InWindow(c) \in Seq(Seq(S)) /\ Len(InWindow(c)) = id - first + 1
       /\ Queue(c) = FlattenSeq(InWindow(c))
  BY <1>0, <1>1, <1>9, WindowIsSeq
<1>12. ASSUME NEW i \in 1 .. last - first + 1
       PROVE  /\ InWindow(b)[i] = b.pendingBatches[first + i - 1]
              /\ InWindow(c)[i] = c.pendingBatches[first + i - 1]
              /\ first + i - 1 \in BatchIds
  <2>0. id \in Nat /\ last <= id
    BY <1>2, <1>6
  <2>1. i \in 1 .. id - first + 1 /\ first + i - 1 \in BatchIds
    <3>1. i \in 1 .. id - first + 1 /\ first + i - 1 \in 1 .. MaxTx + 1
      BY <1>0, <1>a, <2>0
    <3> QED BY <1>0, <3>1, Zenon
  <2>2. InWindow(b)[i] = b.pendingBatches[first + i - 1]
    BY DEF InWindow, first, last
  <2>3. InWindow(c)[i] = c.pendingBatches[first + i - 1]
    BY <1>1, <2>1 DEF InWindow
  <2> QED BY <2>1, <2>2, <2>3
<1>13. CASE IsBatchFull(b, last)
  <2>1. id = last + 1 /\ b.pendingBatches[id] = <<>>
    BY <1>2, <1>3, <1>6, <1>13
  <2>2. InWindow(c)[last - first + 2] = Append(<<>>, tx)
    <3>1. /\ last - first + 2 \in 1 .. id - first + 1
          /\ first + (last - first + 2) - 1 = id
      BY <1>2, <1>3, <2>1
    <3>2. InWindow(c)[last - first + 2] = c.pendingBatches[first + (last - first + 2) - 1]
      BY <1>1, <3>1 DEF InWindow
    <3> QED BY <1>8, <2>1, <3>1, <3>2
  <2>3. \A i \in 1 .. last - first + 1 : InWindow(c)[i] = InWindow(b)[i]
    <3> TAKE i \in 1 .. last - first + 1
    <3>1. first + i - 1 # id
      BY <1>2, <1>3, <2>1
    <3> QED BY <1>8, <1>12, <3>1
  <2>4. Append(<<>>, tx) \in Seq(S)
    BY EmptySeq, AppendProperties
  <2>5. InWindow(c) = Append(InWindow(b), Append(<<>>, tx))
    <3> DEFINE u == InWindow(b)
               v == InWindow(c)
               e == Append(<<>>, tx)
               k == last - first + 1
    <3>0. k \in Nat /\ id - first + 1 = k + 1 /\ last - first + 2 = k + 1
      BY <1>2, <1>3, <2>1
    <3>1. /\ k \in Nat /\ u \in Seq(Seq(S)) /\ Len(u) = k /\ v \in Seq(Seq(S)) /\ Len(v) = k + 1
          /\ v[k + 1] = e /\ e \in Seq(S) /\ \A i \in 1 .. k : v[i] = u[i]
      BY <3>0, <1>10, <1>11, <2>2, <2>3, <2>4
    <3> HIDE DEF u, v, e, k
    <3>2. /\ Append(u, e) \in Seq(Seq(S)) /\ Len(Append(u, e)) = k + 1
          /\ Append(u, e)[k + 1] = e /\ \A i \in 1 .. k : Append(u, e)[i] = u[i]
      BY <3>1, AppendProperties
    <3>3. \A i \in 1 .. k + 1 : v[i] = Append(u, e)[i]
      BY <3>1, <3>2
    <3>4. v = Append(u, e)
      BY <3>1, <3>2, <3>3, SeqEqual
    <3> QED BY <3>4 DEF u, v, e
  <2>6. Queue(c) = Queue(b) \o Append(<<>>, tx)
    BY <1>10, <1>11, <2>4, <2>5, FlattenAppend
  <2>7. Queue(b) \o Append(<<>>, tx) = Append(Queue(b) \o <<>>, tx)
    BY <1>10, EmptySeq, AppendConcat
  <2>8. Queue(b) \o <<>> = Queue(b)
    BY <1>10, ConcatEmptySeq
  <2> QED BY <1>9, <2>6, <2>7, <2>8 DEF c
<1>14. CASE ~IsBatchFull(b, last)
  <2>1. id = last
    BY <1>6, <1>14
  <2>2. Len(InWindow(b)) # 0 /\ Len(InWindow(c)) = Len(InWindow(b))
    BY <1>2, <1>3, <1>10, <1>11, <2>1
  <2>3. \A i \in 1 .. Len(InWindow(b)) - 1 : InWindow(c)[i] = InWindow(b)[i]
    <3> SUFFICES ASSUME NEW i \in 1 .. last - first PROVE InWindow(c)[i] = InWindow(b)[i]
      BY <1>2, <1>3, <1>10
    <3>1. i \in 1 .. last - first + 1 /\ first + i - 1 # id
      BY <1>2, <1>3, <2>1
    <3> QED BY <1>8, <1>12, <3>1
  <2>4. InWindow(c)[Len(InWindow(b))] = Append(InWindow(b)[Len(InWindow(b))], tx)
    <3>1. last - first + 1 \in 1 .. last - first + 1 /\ first + (last - first + 1) - 1 = id
      BY <1>2, <1>3, <2>1
    <3> QED BY <1>8, <1>10, <1>12, <3>1
  <2>5. FlattenSeq(InWindow(c)) = Append(FlattenSeq(InWindow(b)), tx)
    BY <1>10, <1>11, <2>2, <2>3, <2>4, FlattenExtend
  <2> QED BY <1>9, <1>10, <1>11, <2>5 DEF c
<1> QED BY <1>13, <1>14

\* clear_first_batch: the first batch, and only it, waits no longer.
LEMMA ClearingFirst ==
    ASSUME NEW S, NEW b \in BatchesOf(S), NEW n \in Nat, n <= MaxTx, Window(b, n),
           FirstBatch(b) # <<>>
    PROVE  LET c == ClearFirstBatch(b) IN
           /\ c \in BatchesOf(S)
           /\ Window(c, n)
           /\ FirstBatch(b) \in Seq(S)
           /\ Queue(b) = FirstBatch(b) \o Queue(c)
           /\ c.maxTxBatchSize = b.maxTxBatchSize
           /\ c.maxTxBatchBlockDuration = b.maxTxBatchBlockDuration
           /\ c.lastTxNonce = b.lastTxNonce
<1> DEFINE c == ClearFirstBatch(b)
           last == b.lastBatchId
           first == b.firstBatchId
           moved == IF last = first THEN first + 1 ELSE last
           pending == [b.pendingBatches EXCEPT ![first] = <<>>]
<1>1. /\ first \in Nat /\ last \in Nat /\ b.pendingBatches \in [BatchIds -> Seq(S)]
  BY DEF BatchesOf
<1>2. /\ 1 <= first /\ first <= last /\ last <= n + 1
      /\ b.pendingBatches[last] # <<>> => last <= n
      /\ \A i \in BatchIds : i > last => b.pendingBatches[i] = <<>>
  BY DEF Window
<1>3. last \in BatchIds /\ first \in BatchIds
  BY <1>1, <1>2, TxBatchAssumption DEF BatchIds
<1>4. FirstBatch(b) = b.pendingBatches[first] /\ FirstBatch(b) \in Seq(S)
  BY <1>1, <1>3 DEF FirstBatch
<1>5. c = [b EXCEPT !.firstBatchId = first + 1, !.lastBatchId = moved, !.pendingBatches = pending]
  BY DEF ClearFirstBatch
<1>6. pending \in [BatchIds -> Seq(S)] /\ moved \in Nat
  <2>1. <<>> \in Seq(S)
    BY EmptySeq
  <2>2. moved \in Nat
    BY <1>1
  <2> HIDE DEF moved
  <2> QED BY <1>1, <2>1, <2>2
<1>7. /\ pending[first] = <<>> /\ \A i \in BatchIds : i # first => pending[i] = b.pendingBatches[i]
      /\ last = first => moved = first + 1
      /\ last # first => moved = last
  BY <1>1, <1>3
<1>0. MaxTx \in Nat /\ BatchIds = 1 .. MaxTx + 1
  BY TxBatchAssumption DEF BatchIds
<1>a. /\ first \in Nat /\ last \in Nat /\ 1 <= first /\ first <= last
  BY <1>1, <1>2, Zenon
<1> HIDE DEF moved, pending, c, first, last
<1>8. /\ c \in BatchesOf(S) /\ c.firstBatchId = first + 1 /\ c.lastBatchId = moved
      /\ c.pendingBatches = pending
      /\ c.maxTxBatchSize = b.maxTxBatchSize
      /\ c.maxTxBatchBlockDuration = b.maxTxBatchBlockDuration
      /\ c.lastTxNonce = b.lastTxNonce
  <2>1. first + 1 \in Nat
    BY <1>a
  <2> DEFINE start == first + 1
  <2>2. start \in Nat /\ c = [b EXCEPT !.firstBatchId = start, !.lastBatchId = moved, !.pendingBatches = pending]
    BY <1>5, <2>1
  <2> HIDE DEF start
  <2>3. c \in BatchesOf(S)
    BY <1>6, <2>2 DEF BatchesOf
  <2>4. c.firstBatchId = start /\ c.lastBatchId = moved /\ c.pendingBatches = pending
    BY <1>6, <2>2 DEF BatchesOf
  <2>5. /\ c.maxTxBatchSize = b.maxTxBatchSize
        /\ c.maxTxBatchBlockDuration = b.maxTxBatchBlockDuration
        /\ c.lastTxNonce = b.lastTxNonce
    BY <1>6, <2>2 DEF BatchesOf
  <2> QED BY <2>3, <2>4, <2>5 DEF start
<1>9. moved \in BatchIds /\ first + 1 <= moved /\ last <= moved /\ moved <= n + 1
  <2>1. last <= n + 1 /\ (b.pendingBatches[last] # <<>> => last <= n)
    BY <1>2, Zenon
  <2>2. CASE last = first
    <3>1. moved = first + 1 /\ first <= n
      BY <1>4, <1>7, <2>1, <2>2
    <3>2. first + 1 \in 1 .. MaxTx + 1 /\ first + 1 <= n + 1 /\ last <= first + 1
      BY <1>0, <1>a, <2>2, <3>1
    <3> QED BY <1>0, <1>a, <3>1, <3>2
  <2>3. CASE last # first
    <3>1. moved = last
      BY <1>7, <2>3
    <3>2. first + 1 <= last
      BY <1>a, <2>3
    <3> QED BY <1>3, <1>a, <2>1, <3>1, <3>2
  <2> QED BY <2>2, <2>3
<1>10. pending[moved] # <<>> => moved <= n
  <2>1. CASE last = first
    <3>1. moved > last
      BY <1>1, <1>7, <2>1
    <3>2. b.pendingBatches[moved] = <<>> /\ moved # first
      BY <1>1, <1>2, <1>9, <3>1, <2>1
    <3> QED BY <1>7, <1>9, <3>2
  <2>2. CASE last # first
    BY <1>2, <1>3, <1>7, <2>2
  <2> QED BY <2>1, <2>2
<1>11. \A i \in BatchIds : i > moved => pending[i] = <<>>
  <2> SUFFICES ASSUME NEW i \in BatchIds, i > moved PROVE pending[i] = <<>>
    OBVIOUS
  <2>1. i > last /\ i # first
    <3>1. i \in Nat /\ moved \in Nat /\ last <= moved
      BY <1>0, <1>6, <1>9
    <3> QED BY <1>a, <3>1
  <2> QED BY <1>2, <1>7, <2>1
<1>12. Window(c, n)
  <2>1. 1 <= c.firstBatchId /\ c.firstBatchId <= c.lastBatchId /\ c.lastBatchId <= n + 1
    BY <1>1, <1>2, <1>8, <1>9
  <2> QED BY <1>8, <1>10, <1>11, <2>1 DEF Window
<1>13. /\ InWindow(b) \in Seq(Seq(S)) /\ Len(InWindow(b)) = last - first + 1
       /\ Queue(b) = FlattenSeq(InWindow(b))
  BY <1>0, WindowIsSeq DEF first, last
<1>14. /\ InWindow(c) \in Seq(Seq(S)) /\ Len(InWindow(c)) = moved - (first + 1) + 1
       /\ Queue(c) = FlattenSeq(InWindow(c)) /\ Queue(c) \in Seq(S)
  BY <1>8, <1>12, WindowIsSeq
<1>15. InWindow(b) # <<>> /\ Head(InWindow(b)) = FirstBatch(b)
  <2>1. Len(InWindow(b)) # 0 /\ InWindow(b)[1] = b.pendingBatches[first]
    BY <1>1, <1>2, <1>13 DEF InWindow, first, last
  <2>2. InWindow(b) # <<>>
    BY <2>1, EmptySeq
  <2>3. Head(InWindow(b)) = InWindow(b)[1]
    BY <1>13, <2>2
  <2> QED BY <1>4, <2>1, <2>2, <2>3
<1>16. Queue(b) = FirstBatch(b) \o FlattenSeq(Tail(InWindow(b)))
  BY <1>13, <1>15, FlattenFirst
<1>17. /\ Tail(InWindow(b)) \in Seq(Seq(S)) /\ Len(Tail(InWindow(b))) = last - first
       /\ \A i \in 1 .. last - first : Tail(InWindow(b))[i] = InWindow(b)[i + 1]
  BY <1>1, <1>2, <1>13, <1>15, HeadTailProperties
<1>18. FlattenSeq(Tail(InWindow(b))) = Queue(c)
  <2>1. CASE last = first
    <3>1. FlattenSeq(Tail(InWindow(b))) = <<>>
      <4>0. Tail(InWindow(b)) \in Seq(Seq(S)) /\ Len(Tail(InWindow(b))) = 0
        <5>1. last - first = 0
          BY <1>a, <2>1
        <5> QED BY <1>17, <5>1, Zenon
      <4>1. Tail(InWindow(b)) = <<>>
        BY <4>0, EmptySeq
      <4> QED BY <4>1, EmptySeq, FlattenNone
    <3>2. Len(InWindow(c)) = 1 /\ InWindow(c)[1] = pending[first + 1]
      BY <1>1, <1>7, <1>8, <1>14, <2>1 DEF InWindow
    <3>3. pending[first + 1] = <<>>
      <4>1. first + 1 \in BatchIds /\ first + 1 > last /\ first + 1 # first
        BY <1>1, <1>7, <1>9, <2>1
      <4> QED BY <1>2, <1>7, <4>1
    <3>4. InWindow(c) # <<>>
      BY <3>2, EmptySeq
    <3>5. Head(InWindow(c)) = <<>> /\ Tail(InWindow(c)) = <<>>
      <4>1. Head(InWindow(c)) = InWindow(c)[1]
        BY <1>14, <3>4
      <4>2. Tail(InWindow(c)) \in Seq(Seq(S)) /\ Len(Tail(InWindow(c))) = 0
        <5>1. /\ Tail(InWindow(c)) \in Seq(Seq(S))
              /\ Len(Tail(InWindow(c))) = Len(InWindow(c)) - 1
          BY <1>14, <3>4, HeadTailProperties
        <5> QED BY <3>2, <5>1
      <4>3. Tail(InWindow(c)) = <<>>
        BY <4>2, EmptySeq
      <4> QED BY <3>2, <3>3, <4>1, <4>3
    <3>6. Queue(c) = <<>> \o FlattenSeq(<<>>)
      BY <1>14, <3>4, <3>5, FlattenFirst
    <3>7. FlattenSeq(<<>>) = <<>> /\ <<>> \o <<>> = <<>>
      BY EmptySeq, FlattenNone, ConcatEmptySeq
    <3> QED BY <3>1, <3>6, <3>7
  <2>2. CASE last # first
    <3>1. moved = last /\ Len(InWindow(c)) = last - first
      BY <1>1, <1>7, <1>14, <2>2
    <3>2. ASSUME NEW i \in 1 .. last - first PROVE Tail(InWindow(b))[i] = InWindow(c)[i]
      <4>1. InWindow(b)[i + 1] = b.pendingBatches[first + i]
        <5>1. i + 1 \in 1 .. last - first + 1 /\ first + (i + 1) - 1 = first + i
          BY <1>a
        <5>2. InWindow(b)[i + 1] = b.pendingBatches[first + (i + 1) - 1]
          BY <5>1, Zenon DEF InWindow, first, last
        <5> QED BY <5>1, <5>2
      <4>2. InWindow(c)[i] = pending[first + i]
        <5>1. i \in 1 .. moved - (first + 1) + 1 /\ (first + 1) + i - 1 = first + i
          BY <1>1, <1>2, <3>1
        <5> QED BY <1>8, <5>1 DEF InWindow
      <4>3. first + i \in BatchIds /\ first + i # first
        BY <1>0, <1>1, <1>2
      <4> QED BY <1>7, <1>17, <4>1, <4>2, <4>3
    <3>3. Tail(InWindow(b)) = InWindow(c)
      BY <1>14, <1>17, <3>1, <3>2, SeqEqual
    <3> QED BY <1>14, <3>3
  <2> QED BY <2>1, <2>2
<1> QED BY <1>4, <1>8, <1>12, <1>16, <1>18 DEF c


\* The storage after each transaction of a list.
IsAdding(g, b, txs) ==
    g = [k \in 0 .. Len(txs) |-> IF k = 0 THEN b ELSE AddToBatch(g[k - 1], txs[k])]

\* Adding a list, one transaction after the other.
LEMMA AddingEach ==
    ASSUME NEW S, NEW b \in BatchesOf(S), NEW n \in Nat, NEW txs \in Seq(S),
           n + Len(txs) <= MaxTx, Window(b, n), NEW g, IsAdding(g, b, txs)
    PROVE  /\ g[Len(txs)] \in BatchesOf(S)
           /\ g[Len(txs)].firstBatchId = b.firstBatchId
           /\ Window(g[Len(txs)], n + Len(txs))
           /\ Queue(g[Len(txs)]) = Queue(b) \o txs
<1> DEFINE N == Len(txs)
           prefix(k) == [i \in 1 .. k |-> txs[i]]
           Added(k) == /\ g[k] \in BatchesOf(S)
                       /\ g[k].firstBatchId = b.firstBatchId
                       /\ Window(g[k], n + k)
                       /\ Queue(g[k]) = Queue(b) \o prefix(k)
           T == {k \in Nat : k <= N => Added(k)}
<1>1. N \in Nat /\ \A i \in 1 .. N : txs[i] \in S
  OBVIOUS
<1>2. n + N <= MaxTx /\ MaxTx \in Nat /\ n <= MaxTx
  BY <1>1, TxBatchAssumption
<1>3. Queue(b) \in Seq(S)
  BY <1>2, WindowIsSeq
<1>4. ASSUME NEW k \in 0 .. N
      PROVE  g[k] = IF k = 0 THEN b ELSE AddToBatch(g[k - 1], txs[k])
  BY Zenon DEF IsAdding
<1> HIDE DEF N
<1>5. 0 \in T
  <2>1. g[0] = b
    BY <1>1, <1>4
  <2>2. prefix(0) = <<>>
    OBVIOUS
  <2>3. Queue(b) \o <<>> = Queue(b)
    BY <1>3, ConcatEmptySeq
  <2>4. n + 0 = n
    OBVIOUS
  <2>5. Added(0)
    BY <2>1, <2>2, <2>3, <2>4
  <2> QED BY <2>5
<1>6. ASSUME NEW k \in Nat, k \in T PROVE k + 1 \in T
  <2> SUFFICES ASSUME k + 1 <= N PROVE Added(k + 1)
    <3> HIDE DEF Added
    <3> QED OBVIOUS
  <2>1. k <= N /\ k + 1 \in 0 .. N /\ (k + 1) - 1 = k /\ k + 1 # 0 /\ k + 1 \in 1 .. N
    BY <1>1
  <2>2. Added(k)
    <3> HIDE DEF Added
    <3> QED BY <1>6, <2>1
  <2>3. g[k + 1] = AddToBatch(g[k], txs[k + 1])
    BY <1>4, <2>1
  <2>4. txs[k + 1] \in S
    BY <1>1, <2>1
  <2>5. n + k \in Nat /\ n + k < MaxTx /\ (n + k) + 1 = n + (k + 1)
    BY <1>1, <1>2, <2>1
  <2>6. g[k + 1] \in BatchesOf(S) /\ g[k + 1].firstBatchId = b.firstBatchId
    <3>1. g[k] \in BatchesOf(S) /\ g[k].firstBatchId = b.firstBatchId
      BY <2>2
    <3>2. /\ AddToBatch(g[k], txs[k + 1]) \in BatchesOf(S)
          /\ AddToBatch(g[k], txs[k + 1]).firstBatchId = g[k].firstBatchId
      BY <2>4, <3>1, AddToBatchFields
    <3> QED BY <2>3, <3>1, <3>2
  <2>7. /\ Window(g[k + 1], n + (k + 1))
        /\ Queue(g[k + 1]) = Append(Queue(g[k]), txs[k + 1])
    <3>1. /\ Window(AddToBatch(g[k], txs[k + 1]), (n + k) + 1)
          /\ Queue(AddToBatch(g[k], txs[k + 1])) = Append(Queue(g[k]), txs[k + 1])
      BY <2>2, <2>4, <2>5, AddingOne
    <3> QED BY <2>3, <2>5, <3>1
  <2>8. prefix(k) \in Seq(S) /\ prefix(k + 1) = Append(prefix(k), txs[k + 1])
    <3>1. \A i \in 1 .. k + 1 : txs[i] \in S
      BY <1>1, <2>1
    <3>2. prefix(k) \in Seq(S) /\ Len(prefix(k)) = k
      BY <3>1
    <3>3. prefix(k + 1) \in Seq(S) /\ Len(prefix(k + 1)) = k + 1
      BY <3>1
    <3>4. /\ Append(prefix(k), txs[k + 1]) \in Seq(S)
          /\ Len(Append(prefix(k), txs[k + 1])) = k + 1
          /\ \A i \in 1 .. k : Append(prefix(k), txs[k + 1])[i] = txs[i]
          /\ Append(prefix(k), txs[k + 1])[k + 1] = txs[k + 1]
      BY <2>4, <3>2, AppendProperties
    <3>5. \A i \in 1 .. k + 1 : prefix(k + 1)[i] = Append(prefix(k), txs[k + 1])[i]
      BY <3>4
    <3> QED BY <3>2, <3>3, <3>4, <3>5, SeqEqual
  <2>9. Queue(b) \o prefix(k + 1) = Append(Queue(b) \o prefix(k), txs[k + 1])
    <3>1. prefix(k) \in Seq(S)
      BY <2>8
    <3> HIDE DEF prefix
    <3>2. Queue(b) \o Append(prefix(k), txs[k + 1]) = Append(Queue(b) \o prefix(k), txs[k + 1])
      BY <1>3, <2>4, <3>1, AppendConcat
    <3> QED BY <2>8, <3>2
  <2> HIDE DEF prefix
  <2> QED BY <2>2, <2>6, <2>7, <2>9
<1>7. Nat \subseteq T
  <2> HIDE DEF T
  <2> QED BY <1>5, <1>6, NatSetInduction
<1>8. Added(N)
  <2> HIDE DEF Added
  <2> QED BY <1>1, <1>7
<1>9. prefix(N) = txs
  BY <1>1 DEF N
<1> QED BY <1>8, <1>9 DEF N

\* The loop of add_multiple_tx_to_batch, step by step.
LEMMA AddingSteps ==
    ASSUME NEW S, NEW b \in BatchesOf(S), NEW txs \in Seq(S)
    PROVE  \E g : IsAdding(g, b, txs) /\ AddedOneByOne(b, txs) = g[Len(txs)]
<1> DEFINE size == Len(txs)
           all == BatchesOf(S)
           steps == [k \in 1 .. size |-> [a \in all |-> AddToBatch(a, txs[k])]]
           added == CHOOSE g : IsAdding(g, b, txs)
<1>1. size \in Nat /\ \A i \in 1 .. size : txs[i] \in S
  OBVIOUS
<1>2. steps \in [1 .. size -> [all -> all]]
  <2>1. \A k \in 1 .. size, a \in all : AddToBatch(a, txs[k]) \in all
    BY <1>1, AddToBatchFields
  <2> HIDE DEF all, size
  <2> QED BY <2>1
<1>3. \E g : IsAdding(g, b, txs)
  <2>1. PICK g \in [0 .. size -> all] :
              \A k \in 0 .. size : g[k] = IF k = 0 THEN b ELSE steps[k][g[k - 1]]
    <3> HIDE DEF all, size, steps
    <3>1. b \in all
      BY DEF all
    <3>2. PICK g : IsRun(g, all, b, steps, size)
      BY <1>1, <1>2, <3>1, RecursionExists
    <3> QED BY <3>2 DEF IsRun
  <2>2. ASSUME NEW k \in 0 .. size, k # 0 PROVE steps[k][g[k - 1]] = AddToBatch(g[k - 1], txs[k])
    <3>1. k \in 1 .. size /\ k - 1 \in 0 .. size
      BY <1>1, <2>2
    <3>2. g[k - 1] \in all
      BY <2>1, <3>1
    <3> HIDE DEF all, size
    <3> QED BY <3>1, <3>2
  <2>3. \A k \in 0 .. size : g[k] = IF k = 0 THEN b ELSE AddToBatch(g[k - 1], txs[k])
    <3> HIDE DEF all, size, steps
    <3> QED BY <2>1, <2>2
  <2>4. IsAdding(g, b, txs)
    <3> HIDE DEF all, steps
    <3> QED BY <2>1, <2>3 DEF IsAdding
  <2> QED BY <2>4
<1>4. AddedOneByOne(b, txs) = added[size]
  BY DEF AddedOneByOne, IsAdding
<1>5. IsAdding(added, b, txs)
  BY <1>3
<1> HIDE DEF added
<1> QED BY <1>4, <1>5 DEF size

\* add_multiple_tx_to_batch: the transactions wait in their order behind the others.
LEMMA AddingMany ==
    ASSUME NEW S, NEW b \in BatchesOf(S), NEW m \in Nat, NEW txs \in Seq(S),
           m + Len(txs) <= MaxTx, Window(b, m)
    PROVE  LET c == AddMultipleTxToBatch(b, txs) IN
           /\ c \in BatchesOf(S)
           /\ Window(c, m + Len(txs))
           /\ Queue(c) = Queue(b) \o txs
           /\ c.maxTxBatchSize = b.maxTxBatchSize
           /\ c.maxTxBatchBlockDuration = b.maxTxBatchBlockDuration
           /\ c.lastTxNonce = b.lastTxNonce
<1> DEFINE size == Len(txs)
           c == AddMultipleTxToBatch(b, txs)
<1>1. PICK added : IsAdding(added, b, txs) /\ AddedOneByOne(b, txs) = added[size]
  BY AddingSteps
<1>4. AddedOneByOne(b, txs) = added[size]
  BY <1>1
<1>5. IsAdding(added, b, txs)
  BY <1>1
<1> HIDE DEF size
<1>6. /\ added[size] \in BatchesOf(S)
      /\ added[size].firstBatchId = b.firstBatchId
      /\ Window(added[size], m + Len(txs))
      /\ Queue(added[size]) = Queue(b) \o txs
  BY <1>5, AddingEach DEF size
<1> DEFINE d == added[size]
<1>7. c = [b EXCEPT !.lastBatchId = d.lastBatchId, !.pendingBatches = d.pendingBatches]
  BY <1>4 DEF AddMultipleTxToBatch
<1>8. /\ d.lastBatchId \in Nat /\ d.pendingBatches \in [BatchIds -> Seq(S)]
  BY <1>6 DEF BatchesOf
<1> HIDE DEF d, c
<1>9. /\ c \in BatchesOf(S)
      /\ c.firstBatchId = b.firstBatchId /\ c.lastBatchId = d.lastBatchId
      /\ c.pendingBatches = d.pendingBatches
      /\ c.maxTxBatchSize = b.maxTxBatchSize
      /\ c.maxTxBatchBlockDuration = b.maxTxBatchBlockDuration
      /\ c.lastTxNonce = b.lastTxNonce
  BY <1>7, <1>8 DEF BatchesOf
<1>10. /\ d.firstBatchId = b.firstBatchId /\ Window(d, m + Len(txs))
       /\ Queue(d) = Queue(b) \o txs
  BY <1>6 DEF d
<1>11. c.firstBatchId = d.firstBatchId
  BY <1>9, <1>10
<1>12. Queue(c) = Queue(d) /\ Window(c, m + Len(txs))
  BY <1>9, <1>10, <1>11, QueueSame
<1> QED BY <1>9, <1>10, <1>12 DEF c


------------------------------------------------------------------------------
(* Parts of a list *)

\* What has been picked after each position.
IsPicking(g, txs, positions) ==
    g = [k \in 0 .. Len(txs) |->
            IF k = 0 THEN <<>>
            ELSE IF k \in positions THEN Append(g[k - 1], txs[k])
            ELSE g[k - 1]]

\* Picking some transactions of a list, step by step.
LEMMA PickingSteps ==
    ASSUME NEW R, NEW txs \in Seq(R), NEW positions
    PROVE  \E g \in [0 .. Len(txs) -> Seq(R)] :
              /\ Picked(txs, positions) = g[Len(txs)]
              /\ g[0] = <<>>
              /\ \A k \in 1 .. Len(txs) :
                    g[k] = IF k \in positions THEN Append(g[k - 1], txs[k]) ELSE g[k - 1]
<1> DEFINE size == Len(txs)
           all == Seq(R)
           steps == [k \in 1 .. size |-> [a \in all |->
                        IF k \in positions THEN Append(a, txs[k]) ELSE a]]
           picked == CHOOSE g : IsPicking(g, txs, positions)
           T == {k \in Nat : k <= size => picked[k] \in all}
<1>1. size \in Nat /\ \A i \in 1 .. size : txs[i] \in R
  OBVIOUS
<1>3. <<>> \in all
  BY EmptySeq
<1>4. \A a \in all, r \in R : Append(a, r) \in all
  BY AppendProperties
<1>5. Picked(txs, positions) = picked[size]
  BY DEF Picked, IsPicking
<1>6. steps \in [1 .. size -> [all -> all]]
  <2> HIDE DEF all, size
  <2> QED BY <1>1, <1>4
<1>7. IsPicking(picked, txs, positions)
  <2>1. PICK g : IsRun(g, all, <<>>, steps, size)
    <3> HIDE DEF all, size, steps
    <3> QED BY <1>1, <1>3, <1>6, RecursionExists
  <2>2. ASSUME NEW k \in 0 .. size
        PROVE  g[k] = IF k = 0 THEN <<>>
                      ELSE IF k \in positions THEN Append(g[k - 1], txs[k])
                      ELSE g[k - 1]
    <3>1. CASE k = 0
      BY <2>1, <3>1 DEF IsRun
    <3>2. CASE k # 0
      <4>1. k \in 1 .. size /\ k - 1 \in 0 .. size
        BY <1>1, <3>2
      <4>2. g[k] = steps[k][g[k - 1]] /\ g[k - 1] \in all
        BY <2>1, <3>2, <4>1 DEF IsRun
      <4> HIDE DEF all, size
      <4>3. steps[k][g[k - 1]] = IF k \in positions THEN Append(g[k - 1], txs[k]) ELSE g[k - 1]
        BY <4>1, <4>2
      <4> QED BY <3>2, <4>2, <4>3
    <3> QED BY <3>1, <3>2
  <2>3. DOMAIN g = 0 .. size /\ g = [k \in DOMAIN g |-> g[k]]
    BY <2>1 DEF IsRun
  <2>4. IsPicking(g, txs, positions)
    BY <2>2, <2>3 DEF IsPicking
  <2>5. \E h : IsPicking(h, txs, positions)
    BY <2>4
  <2> QED BY <2>5
<1> HIDE DEF picked
<1>8. /\ DOMAIN picked = 0 .. size /\ picked = [k \in DOMAIN picked |-> picked[k]]
      /\ \A k \in 0 .. size :
            picked[k] = IF k = 0 THEN <<>>
                        ELSE IF k \in positions THEN Append(picked[k - 1], txs[k])
                        ELSE picked[k - 1]
  BY <1>7, Zenon DEF IsPicking
<1> HIDE DEF size, all
<1>9. 0 \in T
  BY <1>1, <1>3, <1>8
<1>10. ASSUME NEW k \in Nat, k \in T PROVE k + 1 \in T
  <2> SUFFICES ASSUME k + 1 <= size PROVE picked[k + 1] \in all
    OBVIOUS
  <2>1. picked[k] \in all
    BY <1>1, <1>10
  <2>2. k + 1 \in 1 .. size /\ k + 1 \in 0 .. size /\ k + 1 # 0 /\ (k + 1) - 1 = k
    BY <1>1
  <2>3. picked[k + 1] = IF k + 1 \in positions THEN Append(picked[k], txs[k + 1]) ELSE picked[k]
    BY <1>8, <2>2
  <2> QED BY <1>1, <1>4, <2>1, <2>2, <2>3
<1>11. Nat \subseteq T
  <2> HIDE DEF T
  <2> QED BY <1>9, <1>10, NatSetInduction
<1>12. \A k \in 0 .. size : picked[k] \in all
  BY <1>1, <1>11
<1>13. picked \in [0 .. size -> all]
  BY <1>8, <1>12
<1>14. \A k \in 1 .. size :
          picked[k] = IF k \in positions THEN Append(picked[k - 1], txs[k]) ELSE picked[k - 1]
  <2>1. \A k \in 1 .. size : k \in 0 .. size /\ k # 0
    BY <1>1
  <2> QED BY <1>8, <2>1, Zenon
<1>15. picked[0] = <<>>
  BY <1>1, <1>8
<1> QED BY <1>5, <1>13, <1>14, <1>15 DEF size, all

\* add_refund_batch keeps only refunds that cover the fee.
LEMMA PayingOnes ==
    ASSUME NEW R, NEW refundTxs \in Seq(R), NEW fee
    PROVE  PayingRefunds(refundTxs, fee) \in Seq({r \in R : r.amount > fee})
<1> DEFINE size == Len(refundTxs)
           P == {r \in R : r.amount > fee}
           all == Seq(P)
           paid == {i \in DOMAIN refundTxs : refundTxs[i].amount > fee}
<1>1. size \in Nat /\ DOMAIN refundTxs = 1 .. size /\ \A i \in 1 .. size : refundTxs[i] \in R
  OBVIOUS
<1>2. \A i \in paid : refundTxs[i] \in P
  BY <1>1
<1>3. <<>> \in all
  BY EmptySeq
<1>4. \A a \in all, r \in P : Append(a, r) \in all
  <2> HIDE DEF P
  <2> QED BY AppendProperties
<1> HIDE DEF P, paid
<1>5. PICK g \in [0 .. size -> Seq(R)] :
              /\ Picked(refundTxs, paid) = g[size]
              /\ g[0] = <<>>
              /\ \A k \in 1 .. size :
                    g[k] = IF k \in paid THEN Append(g[k - 1], refundTxs[k]) ELSE g[k - 1]
  BY PickingSteps
<1> DEFINE T == {k \in Nat : k <= size => g[k] \in all}
<1> HIDE DEF size, all
<1>9. 0 \in T
  BY <1>1, <1>3, <1>5
<1>10. ASSUME NEW k \in Nat, k \in T PROVE k + 1 \in T
  <2> SUFFICES ASSUME k + 1 <= size PROVE g[k + 1] \in all
    OBVIOUS
  <2>1. g[k] \in all
    BY <1>1, <1>10
  <2>2. k + 1 \in 1 .. size /\ (k + 1) - 1 = k
    BY <1>1
  <2>3. g[k + 1] = IF k + 1 \in paid THEN Append(g[k], refundTxs[k + 1]) ELSE g[k]
    BY <1>5, <2>2
  <2> QED BY <1>2, <1>4, <2>1, <2>2, <2>3
<1>11. Nat \subseteq T
  <2> HIDE DEF T
  <2> QED BY <1>9, <1>10, NatSetInduction
<1>12. g[size] \in all
  BY <1>1, <1>11
<1> QED BY <1>5, <1>12 DEF all, P, paid, PayingRefunds

\* Every transaction is picked once or left out once.
LEMMA PickedOrNot ==
    ASSUME NEW R, NEW txs \in Seq(R), NEW positions
    PROVE  /\ Picked(txs, positions) \in Seq(R)
           /\ Picked(txs, DOMAIN txs \ positions) \in Seq(R)
           /\ Len(Picked(txs, positions)) + Len(Picked(txs, DOMAIN txs \ positions)) = Len(txs)
           /\ Range(Picked(txs, positions)) \cup Range(Picked(txs, DOMAIN txs \ positions))
                 = Range(txs)
<1> DEFINE size == Len(txs)
           rest == DOMAIN txs \ positions
<1>1. size \in Nat /\ DOMAIN txs = 1 .. size /\ \A i \in 1 .. size : txs[i] \in R
  OBVIOUS
<1>2. \A k \in 1 .. size : k \in rest <=> k \notin positions
  BY <1>1
<1> HIDE DEF rest
<1>3. PICK g \in [0 .. size -> Seq(R)] :
              /\ Picked(txs, positions) = g[size]
              /\ g[0] = <<>>
              /\ \A k \in 1 .. size :
                    g[k] = IF k \in positions THEN Append(g[k - 1], txs[k]) ELSE g[k - 1]
  BY PickingSteps
<1>4. PICK h \in [0 .. size -> Seq(R)] :
              /\ Picked(txs, rest) = h[size]
              /\ h[0] = <<>>
              /\ \A k \in 1 .. size :
                    h[k] = IF k \in rest THEN Append(h[k - 1], txs[k]) ELSE h[k - 1]
  BY PickingSteps
<1> DEFINE first(k) == {txs[i] : i \in 1 .. k}
           Shared(k) == /\ Len(g[k]) + Len(h[k]) = k
                        /\ Range(g[k]) \cup Range(h[k]) = first(k)
           T == {k \in Nat : k <= size => Shared(k)}
<1> HIDE DEF size
<1>5. 0 \in T
  <2>1. Len(<<>>) = 0 /\ Range(<<>>) = {} /\ first(0) = {}
    BY DEF Range
  <2> QED BY <1>3, <1>4, <2>1
<1>6. ASSUME NEW k \in Nat, k \in T PROVE k + 1 \in T
  <2> SUFFICES ASSUME k + 1 <= size PROVE Shared(k + 1)
    OBVIOUS
  <2>1. Shared(k)
    BY <1>1, <1>6
  <2>2. k + 1 \in 1 .. size /\ (k + 1) - 1 = k /\ k \in 0 .. size
    BY <1>1
  <2>3. g[k] \in Seq(R) /\ h[k] \in Seq(R) /\ txs[k + 1] \in R
    BY <1>1, <2>2
  <2>4. ASSUME NEW s \in Seq(R), NEW e \in R
        PROVE  Len(Append(s, e)) = Len(s) + 1 /\ Range(Append(s, e)) = Range(s) \cup {e}
    <3>1. /\ Len(s) \in Nat /\ DOMAIN s = 1 .. Len(s)
          /\ DOMAIN Append(s, e) = 1 .. Len(s) + 1 /\ Len(Append(s, e)) = Len(s) + 1
          /\ Append(s, e)[Len(s) + 1] = e
          /\ \A i \in 1 .. Len(s) : Append(s, e)[i] = s[i]
      OBVIOUS
    <3>2. 1 .. Len(s) + 1 = (1 .. Len(s)) \cup {Len(s) + 1}
      BY <3>1
    <3> QED BY <3>1, <3>2 DEF Range
  <2>5. first(k + 1) = first(k) \cup {txs[k + 1]}
    <3>1. 1 .. k + 1 = (1 .. k) \cup {k + 1}
      OBVIOUS
    <3> QED BY <3>1
  <2>6. /\ (Len(g[k]) + 1) + Len(h[k]) = k + 1
        /\ Len(g[k]) + (Len(h[k]) + 1) = k + 1
    <3>1. Len(g[k]) \in Nat /\ Len(h[k]) \in Nat
      BY <2>3, LenProperties
    <3>2. Len(g[k]) + Len(h[k]) = k
      BY <2>1
    <3>3. \A a, b \in Nat : a + b = k => (a + 1) + b = k + 1 /\ a + (b + 1) = k + 1
      OBVIOUS
    <3> QED BY <3>1, <3>2, <3>3, Zenon
  <2> HIDE DEF first
  <2>7. CASE k + 1 \in positions
    <3>1. g[k + 1] = Append(g[k], txs[k + 1]) /\ h[k + 1] = h[k]
      BY <1>2, <1>3, <1>4, <2>2, <2>7
    <3>2. /\ Len(g[k + 1]) = Len(g[k]) + 1
          /\ Range(g[k + 1]) = Range(g[k]) \cup {txs[k + 1]}
      BY <2>3, <2>4, <3>1
    <3>3. Len(g[k + 1]) + Len(h[k + 1]) = k + 1
      BY <2>6, <3>1, <3>2, Zenon
    <3>4. Range(g[k + 1]) \cup Range(h[k + 1]) = first(k + 1)
      BY <2>1, <2>5, <3>1, <3>2
    <3> QED BY <3>3, <3>4
  <2>8. CASE k + 1 \notin positions
    <3>1. g[k + 1] = g[k] /\ h[k + 1] = Append(h[k], txs[k + 1])
      BY <1>2, <1>3, <1>4, <2>2, <2>8
    <3>2. /\ Len(h[k + 1]) = Len(h[k]) + 1
          /\ Range(h[k + 1]) = Range(h[k]) \cup {txs[k + 1]}
      BY <2>3, <2>4, <3>1
    <3>3. Len(g[k + 1]) + Len(h[k + 1]) = k + 1
      BY <2>6, <3>1, <3>2, Zenon
    <3>4. Range(g[k + 1]) \cup Range(h[k + 1]) = first(k + 1)
      BY <2>1, <2>5, <3>1, <3>2
    <3> QED BY <3>3, <3>4
  <2> QED BY <2>7, <2>8
<1>7. Nat \subseteq T
  <2> HIDE DEF T
  <2> QED BY <1>5, <1>6, NatSetInduction
<1>8. Shared(size) /\ g[size] \in Seq(R) /\ h[size] \in Seq(R)
  <2>1. size \in 0 .. size /\ size <= size
    BY <1>1
  <2>2. g[size] \in Seq(R) /\ h[size] \in Seq(R)
    BY <2>1
  <2> HIDE DEF Shared
  <2>3. Shared(size)
    BY <1>1, <1>7, <2>1
  <2> QED BY <2>2, <2>3
<1>9. first(size) = Range(txs)
  BY <1>1 DEF Range
<1> QED BY <1>3, <1>4, <1>8, <1>9 DEF size, rest


------------------------------------------------------------------------------
(* The tokens that transactions hold *)

\* The transactions of a sequence that hold tokens, and what they hold together.
Waiting(q) == {i \in DOMAIN q : ~q[i].isRefundTx}
HeldWaiting(q) == HeldBy(q, Waiting(q))

LEMMA HeldIsNat ==
    ASSUME NEW tx \in SafeTx
    PROVE  Held(tx) \in Nat
BY DEF Held, SafeTx

\* What some transactions of a sequence hold, and that only they matter.
LEMMA HeldByThem ==
    ASSUME NEW q \in Seq(SafeTx), NEW I \in SUBSET (DOMAIN q)
    PROVE  /\ IsFiniteSet(I)
           /\ HeldBy(q, I) \in Nat
           /\ \A i \in DOMAIN q \ I : HeldBy(q, I \cup {i}) = HeldBy(q, I) + Held(q[i])
           /\ \A r \in Seq(SafeTx) :
                 I \subseteq DOMAIN r /\ (\A i \in I : r[i] = q[i]) => HeldBy(r, I) = HeldBy(q, I)
<1> DEFINE w(r) == [i \in DOMAIN r |-> Held(r[i])]
<1>1. ASSUME NEW r \in Seq(SafeTx) PROVE \A i \in DOMAIN r : w(r)[i] \in Nat /\ w(r)[i] = Held(r[i])
  <2>1. \A i \in DOMAIN r : r[i] \in SafeTx
    OBVIOUS
  <2> QED BY <2>1, HeldIsNat
<1>2. \A r : HeldBy(r, I) = SumFunctionOnSet(w(r), I)
  BY DEF HeldBy
<1>3. IsFiniteSet(I)
  <2>1. DOMAIN q = 1 .. Len(q) /\ Len(q) \in Nat
    OBVIOUS
  <2>2. IsFiniteSet(1 .. Len(q))
    BY <2>1, FS_Interval
  <2> QED BY <2>1, <2>2, FS_Subset
<1>4. SumFunctionOnSet(w(q), I) \in Nat
  <2>1. \A i \in I : w(q)[i] \in Nat
    BY <1>1
  <2> HIDE DEF w
  <2> QED BY <1>3, <2>1, SumNat
<1>5. ASSUME NEW i \in DOMAIN q \ I PROVE HeldBy(q, I \cup {i}) = HeldBy(q, I) + Held(q[i])
  <2>1. (\A j \in I : w(q)[j] \in Int) /\ w(q)[i] \in Int /\ w(q)[i] = Held(q[i]) /\ i \notin I
    BY <1>1
  <2>2. HeldBy(q, I \cup {i}) = SumFunctionOnSet(w(q), I \cup {i})
    BY DEF HeldBy
  <2> HIDE DEF w
  <2>3. SumFunctionOnSet(w(q), I \cup {i}) = w(q)[i] + SumFunctionOnSet(w(q), I)
    BY <1>3, <2>1, SumAdd
  <2> QED BY <1>2, <1>4, <2>1, <2>2, <2>3
<1>6. ASSUME NEW r \in Seq(SafeTx), I \subseteq DOMAIN r, \A i \in I : r[i] = q[i]
      PROVE  HeldBy(r, I) = HeldBy(q, I)
  <2>1. \A i \in I : w(q)[i] \in Int /\ w(r)[i] = w(q)[i]
    BY <1>1, <1>6
  <2> HIDE DEF w
  <2>2. SumFunctionOnSet(w(r), I) = SumFunctionOnSet(w(q), I)
    BY <1>3, <2>1, SumSame
  <2> QED BY <1>2, <2>2
<1> QED BY <1>2, <1>3, <1>4, <1>5, <1>6

\* One more transaction at the end.
LEMMA HeldAppend ==
    ASSUME NEW q \in Seq(SafeTx), NEW tx \in SafeTx
    PROVE  /\ HeldWaiting(q) \in Nat
           /\ HeldWaiting(Append(q, tx))
                = HeldWaiting(q) + (IF tx.isRefundTx THEN 0 ELSE Held(tx))
<1> DEFINE r == Append(q, tx)
           m == Len(q) + 1
<1>1. /\ r \in Seq(SafeTx) /\ DOMAIN q = 1 .. Len(q) /\ DOMAIN r = 1 .. m /\ Len(q) \in Nat
      /\ r[m] = tx /\ \A i \in 1 .. Len(q) : r[i] = q[i]
  BY AppendProperties
<1> HIDE DEF r
<1>2. Waiting(q) \subseteq DOMAIN q /\ Waiting(q) \subseteq DOMAIN r /\ m \in DOMAIN r \ Waiting(q)
  BY <1>1 DEF Waiting
<1>3. HeldBy(q, Waiting(q)) \in Nat
  BY <1>2, HeldByThem
<1>4. HeldBy(r, Waiting(q)) = HeldBy(q, Waiting(q))
  <2>1. \A i \in Waiting(q) : r[i] = q[i]
    BY <1>1, <1>2
  <2> QED BY <1>1, <1>2, <2>1, HeldByThem
<1>5. CASE tx.isRefundTx
  <2>1. Waiting(r) = Waiting(q)
    BY <1>1, <1>5 DEF Waiting
  <2> QED BY <1>3, <1>4, <1>5, <2>1 DEF HeldWaiting, r
<1>6. CASE ~tx.isRefundTx
  <2>1. Waiting(r) = Waiting(q) \cup {m}
    BY <1>1, <1>6 DEF Waiting
  <2>2. HeldBy(r, Waiting(q) \cup {m}) = HeldBy(r, Waiting(q)) + Held(r[m])
    BY <1>1, <1>2, HeldByThem
  <2> QED BY <1>1, <1>3, <1>4, <1>6, <2>1, <2>2 DEF HeldWaiting, r
<1> QED BY <1>5, <1>6

\* Transactions that follow each other hold what they hold apart.
LEMMA HeldConcat ==
    ASSUME NEW q \in Seq(SafeTx), NEW r \in Seq(SafeTx)
    PROVE  HeldWaiting(q \o r) = HeldWaiting(q) + HeldWaiting(r)
<1> DEFINE T == {t \in Seq(SafeTx) : HeldWaiting(q \o t) = HeldWaiting(q) + HeldWaiting(t)}
<1>1. <<>> \in T
  <2>1. Waiting(<<>>) = {}
    BY DEF Waiting
  <2>2. HeldWaiting(<<>>) = 0
    BY <2>1, SumOfNone DEF HeldWaiting, HeldBy
  <2>3. q \o <<>> = q
    BY ConcatEmptySeq
  <2>4. HeldWaiting(q) \in Nat
    BY HeldByThem DEF HeldWaiting, Waiting
  <2> QED BY <2>2, <2>3, <2>4, EmptySeq
<1>2. ASSUME NEW t \in Seq(SafeTx), NEW e \in SafeTx, t \in T PROVE Append(t, e) \in T
  <2> DEFINE x == IF e.isRefundTx THEN 0 ELSE Held(e)
  <2>1. x \in Nat
    BY HeldIsNat
  <2>2. HeldWaiting(t) \in Nat /\ HeldWaiting(Append(t, e)) = HeldWaiting(t) + x
    BY HeldAppend
  <2>3. q \o t \in Seq(SafeTx) /\ q \o Append(t, e) = Append(q \o t, e)
    BY ConcatProperties, AppendConcat
  <2>4. HeldWaiting(Append(q \o t, e)) = HeldWaiting(q \o t) + x
    BY <2>3, HeldAppend
  <2>5. HeldWaiting(q) \in Nat
    BY HeldAppend
  <2> HIDE DEF x
  <2>6. HeldWaiting(q \o Append(t, e)) = HeldWaiting(q) + HeldWaiting(Append(t, e))
    BY <1>2, <2>1, <2>2, <2>3, <2>4, <2>5
  <2> QED BY <2>6, AppendProperties
<1>3. Seq(SafeTx) \subseteq T
  <2> HIDE DEF T
  <2> QED BY <1>1, <1>2, SeqInduction
<1> QED BY <1>3

\* Refund transactions hold nothing.
LEMMA RefundsHoldNone ==
    ASSUME NEW q, \A i \in DOMAIN q : q[i].isRefundTx
    PROVE  HeldWaiting(q) = 0
<1>1. Waiting(q) = {}
  BY DEF Waiting
<1> QED BY <1>1, SumOfNone DEF HeldWaiting, HeldBy


\* Every transaction of a settled batch that holds tokens is executed or rejected.
LEMMA HeldSplit ==
    ASSUME NEW q \in Seq(SafeTx), NEW statuses,
           \A i \in DOMAIN q : q[i].isRefundTx \/ statuses[i] \in {"Executed", "Rejected"}
    PROVE  HeldWaiting(q) = HeldBy(q, WithStatus(q, statuses, "Executed"))
                            + HeldBy(q, WithStatus(q, statuses, "Rejected"))
<1> DEFINE done == WithStatus(q, statuses, "Executed")
           undone == WithStatus(q, statuses, "Rejected")
           w == [i \in DOMAIN q |-> Held(q[i])]
<1>1. /\ Waiting(q) = done \cup undone /\ done \cap undone = {}
      /\ done \subseteq DOMAIN q /\ undone \subseteq DOMAIN q
  BY DEF Waiting, WithStatus
<1>2. IsFiniteSet(done) /\ IsFiniteSet(undone)
  BY <1>1, HeldByThem
<1>3. \A i \in done \cup undone : w[i] \in Int
  <2>1. \A i \in DOMAIN q : q[i] \in SafeTx
    OBVIOUS
  <2>2. \A i \in DOMAIN q : w[i] \in Int
    BY <2>1, HeldIsNat
  <2> HIDE DEF w, done, undone
  <2> QED BY <1>1, <2>2
<1>4. HeldWaiting(q) = SumFunctionOnSet(w, done \cup undone)
  BY <1>1 DEF HeldWaiting, HeldBy
<1>5. HeldBy(q, done) = SumFunctionOnSet(w, done) /\ HeldBy(q, undone) = SumFunctionOnSet(w, undone)
  BY DEF HeldBy
<1> HIDE DEF w, done, undone
<1>6. SumFunctionOnSet(w, done \cup undone) = SumFunctionOnSet(w, done) + SumFunctionOnSet(w, undone)
  BY <1>1, <1>2, <1>3, SumUnion
<1> QED BY <1>4, <1>5, <1>6 DEF done, undone

\* The transactions of a user, and what the users are owed with them.
From(q, I, u) == {i \in I : q[i].from = u}
Credited(owed, q, I) == [u \in Users |-> owed[u] + HeldBy(q, From(q, I, u))]

\* What is credited to the users is what the transactions hold.
LEMMA CreditedIsHeld ==
    ASSUME NEW q \in Seq(SafeTx), NEW I \in SUBSET (DOMAIN q), NEW owed \in [Users -> Nat]
    PROVE  /\ Credited(owed, q, I) \in [Users -> Nat]
           /\ SumFunction(owed) \in Nat
           /\ SumFunction(Credited(owed, q, I)) = SumFunction(owed) + HeldBy(q, I)
<1>0. IsFiniteSet(Users)
  BY EsdtSafeAssumption
<1>1. ASSUME NEW J \in SUBSET (DOMAIN q), NEW u \in Users
      PROVE  HeldBy(q, From(q, J, u)) \in Nat
  <2>1. From(q, J, u) \in SUBSET (DOMAIN q)
    BY DEF From
  <2> QED BY <2>1, HeldByThem
<1>2. ASSUME NEW J \in SUBSET (DOMAIN q)
      PROVE  /\ Credited(owed, q, J) \in [Users -> Nat]
             /\ DOMAIN Credited(owed, q, J) = Users
             /\ \A u \in Users : Credited(owed, q, J)[u]
                                    = owed[u] + HeldBy(q, From(q, J, u))
  <2>1. \A u \in Users : owed[u] + HeldBy(q, From(q, J, u)) \in Nat
    BY <1>1
  <2> QED BY <2>1 DEF Credited
<1>3. SumFunction(owed) \in Nat
  <2>1. SumFunctionOnSet(owed, Users) \in Nat
    BY <1>0, SumNat
  <2> QED BY <2>1 DEF SumFunction
<1> DEFINE T == {J \in SUBSET I : SumFunction(Credited(owed, q, J)) = SumFunction(owed) + HeldBy(q, J)}
<1>4. {} \in T
  <2>1. \A u \in Users : From(q, {}, u) = {}
    BY DEF From
  <2>2. HeldBy(q, {}) = 0
    BY SumOfNone DEF HeldBy
  <2>3. {} \in SUBSET (DOMAIN q)
    OBVIOUS
  <2>4. \A u \in Users : Credited(owed, q, {})[u] = owed[u] + 0
    BY <1>2, <2>1, <2>2, <2>3
  <2>5. Credited(owed, q, {}) \in [Users -> Nat]
    BY <1>2, <2>3
  <2>6. Credited(owed, q, {}) = owed
    BY <2>4, <2>5
  <2> QED BY <1>3, <2>2, <2>6
<1>5. ASSUME NEW J \in SUBSET I, NEW x \in I, J \in T, x \notin J PROVE J \cup {x} \in T
  <2> DEFINE v == q[x].from
             old == Credited(owed, q, J)
             new == Credited(owed, q, J \cup {x})
  <2>1. q[x] \in SafeTx /\ v \in Users /\ x \in DOMAIN q /\ J \in SUBSET (DOMAIN q)
        /\ J \cup {x} \in SUBSET (DOMAIN q)
    <3>1. x \in DOMAIN q /\ J \in SUBSET (DOMAIN q) /\ J \cup {x} \in SUBSET (DOMAIN q)
      OBVIOUS
    <3>2. q[x] \in SafeTx
      BY <3>1
    <3> QED BY <3>1, <3>2 DEF SafeTx
  <2>2. Held(q[x]) \in Nat
    BY <2>1, HeldIsNat
  <2>3. HeldBy(q, J) \in Nat /\ HeldBy(q, J \cup {x}) = HeldBy(q, J) + Held(q[x])
    BY <1>5, <2>1, HeldByThem
  <2>4. ASSUME NEW u \in Users, u # v PROVE new[u] = old[u]
    <3>1. From(q, J \cup {x}, u) = From(q, J, u)
      BY <2>4 DEF From
    <3> QED BY <1>2, <2>1, <3>1
  <2>5. new[v] = old[v] + Held(q[x])
    <3> DEFINE mine == From(q, J, v)
    <3>1. From(q, J \cup {x}, v) = mine \cup {x}
      BY DEF From
    <3>2. mine \in SUBSET (DOMAIN q) /\ x \in DOMAIN q \ mine
      BY <1>5, <2>1 DEF From
    <3> HIDE DEF mine
    <3>3. HeldBy(q, mine) \in Nat /\ HeldBy(q, mine \cup {x}) = HeldBy(q, mine) + Held(q[x])
      BY <3>2, HeldByThem
    <3>4. old[v] = owed[v] + HeldBy(q, mine)
      BY <1>2, <2>1 DEF mine
    <3>5. new[v] = owed[v] + HeldBy(q, mine \cup {x})
      BY <1>2, <2>1, <3>1
    <3>6. owed[v] \in Nat
      BY <2>1
    <3> QED BY <2>2, <3>3, <3>4, <3>5, <3>6
  <2>6. /\ old \in [Users -> Nat] /\ new \in [Users -> Nat]
        /\ DOMAIN old = Users /\ DOMAIN new = Users
    BY <1>2, <2>1
  <2> HIDE DEF old, new, v
  <2>7. /\ SumFunction(old) \in Int
        /\ SumFunction(new) = SumFunction(old) + (new[v] - old[v])
    <3>1. (\A u \in DOMAIN old : old[u] \in Int) /\ new[v] \in Int
      BY <2>1, <2>6
    <3> QED BY <1>0, <2>1, <2>4, <2>6, <3>1, SumChange
  <2>8. old[v] \in Nat /\ new[v] \in Nat
    BY <2>1, <2>6
  <2>9. SumFunction(old) = SumFunction(owed) + HeldBy(q, J)
    BY <1>5 DEF old
  <2>10. SumFunction(new) = SumFunction(owed) + HeldBy(q, J \cup {x})
    BY <1>3, <2>2, <2>3, <2>5, <2>7, <2>8, <2>9
  <2> QED BY <2>10 DEF new
<1>6. I \in T
  <2>1. IsFiniteSet(I)
    BY HeldByThem
  <2> HIDE DEF T
  <2> QED BY <1>4, <1>5, <2>1, SetInduction
<1> QED BY <1>2, <1>3, <1>6

------------------------------------------------------------------------------
(* Distribution of the collected fees *)

\* The shares of a split that adds up to MAX_PERCENTAGE never exceed the fees.
LEMMA SharesAreCovered ==
    ASSUME NEW fees \in Nat, NEW split \in Seq(Nat), SplitTotal(split) = MaxPercentage
    PROVE  SharesOf(fees, split) \in Nat /\ SharesOf(fees, split) <= fees
<1> DEFINE m == MaxPercentage
           D == DOMAIN split
           share == [i \in D |-> (fees * split[i]) \div m]
           total == SumFunctionOnSet(split, D)
           sent == SumFunctionOnSet(share, D)
<1>1. m \in Nat /\ m > 0
  BY EsdtSafeAssumption
<1>2. IsFiniteSet(D)
  <2>1. D = 1 .. Len(split) /\ Len(split) \in Nat
    OBVIOUS
  <2>2. IsFiniteSet(1 .. Len(split))
    BY <2>1, FS_Interval
  <2> QED BY <2>1, <2>2
<1> HIDE DEF m
<1>3. ASSUME NEW i \in D
      PROVE  split[i] \in Nat /\ share[i] \in Nat /\ m * share[i] <= fees * split[i]
  <2>1. split[i] \in Nat
    OBVIOUS
  <2>2. fees * split[i] \in Nat
    BY <2>1
  <2>3. ASSUME NEW a \in Nat PROVE a \div m \in Nat /\ m * (a \div m) <= a
    BY <1>1
  <2>4. share[i] = (fees * split[i]) \div m
    OBVIOUS
  <2> QED BY <2>1, <2>2, <2>3, <2>4
<1>4. total = m /\ sent = SharesOf(fees, split)
  BY DEF SplitTotal, SharesOf, SumFunction, m
<1> HIDE DEF share, D
<1>5. sent \in Nat
  BY <1>2, <1>3, SumNat
<1>6. m * sent <= fees * total
  BY <1>1, <1>2, <1>3, SumScale
<1> HIDE DEF sent, total
<1>7. sent <= fees
  <2>1. m * sent <= fees * m
    BY <1>4, <1>6
  <2>2. ASSUME NEW a \in Nat, NEW k \in Nat, k > 0, k * a <= fees * k PROVE a <= fees
    BY <2>2
  <2> QED BY <1>1, <1>5, <2>1, <2>2
<1> QED BY <1>4, <1>5, <1>7


------------------------------------------------------------------------------
(* The order of the transactions *)

\* The n transactions numbered so far: the nonces in s are settled, those of q wait.
InOrder(s, q, n) ==
    /\ s \in Seq(Nat)
    /\ Len(s) + Len(q) = n
    /\ \A i \in 1 .. Len(s) : s[i] = i
    /\ \A i \in 1 .. Len(q) : q[i].nonce = Len(s) + i

\* The nonces of a sequence of transactions.
NoncesOf(q) == [i \in DOMAIN q |-> q[i].nonce]

LEMMA NoncesSeq ==
    ASSUME NEW q \in Seq(SafeTx)
    PROVE  /\ NoncesOf(q) \in Seq(Nat) /\ Len(NoncesOf(q)) = Len(q)
           /\ \A i \in 1 .. Len(q) : NoncesOf(q)[i] = q[i].nonce
<1>1. DOMAIN q = 1 .. Len(q) /\ Len(q) \in Nat
  OBVIOUS
<1>2. \A i \in 1 .. Len(q) : q[i] \in SafeTx
  OBVIOUS
<1>3. \A i \in 1 .. Len(q) : q[i].nonce \in Nat
  BY <1>2 DEF SafeTx
<1>4. NoncesOf(q) = [i \in 1 .. Len(q) |-> q[i].nonce]
  BY <1>1 DEF NoncesOf
<1> QED BY <1>1, <1>3, <1>4

\* Positions behind a first part of length b.
LEMMA BehindFirst ==
    ASSUME NEW a \in Nat, NEW b \in Nat, NEW c \in Nat, NEW n, a + b = n
    PROVE  /\ \A i \in Int : n + (i - b) = a + i
           /\ a + (b + c) = n + c
  OBVIOUS

\* New transactions are numbered from the last one on.
LEMMA OrderConcat ==
    ASSUME NEW s, NEW q \in Seq(SafeTx), NEW n \in Nat, InOrder(s, q, n),
           NEW r \in Seq(SafeTx), \A i \in 1 .. Len(r) : r[i].nonce = n + i
    PROVE  InOrder(s, q \o r, n + Len(r))
<1>0. s \in Seq(Nat) /\ Len(s) + Len(q) = n
  BY DEF InOrder
<1>a. /\ \A i \in 1 .. Len(s) : s[i] = i
      /\ \A i \in 1 .. Len(q) : q[i].nonce = Len(s) + i
  BY DEF InOrder
<1>1. Len(s) \in Nat /\ Len(q) \in Nat /\ Len(r) \in Nat
  BY <1>0, LenProperties
<1>b. /\ \A i \in Int : n + (i - Len(q)) = Len(s) + i
      /\ Len(s) + (Len(q) + Len(r)) = n + Len(r)
  <2>1. \A a, b, c \in Nat : a + b = n => /\ \A i \in Int : n + (i - b) = a + i
                                          /\ a + (b + c) = n + c
    BY BehindFirst
  <2>2. Len(s) + Len(q) = n
    BY <1>0
  <2> QED BY <1>1, <2>1, <2>2, Zenon
<1>2. q \o r \in Seq(SafeTx) /\ Len(q \o r) = Len(q) + Len(r)
  BY ConcatProperties
<1>3. ASSUME NEW i \in 1 .. Len(q) + Len(r) PROVE (q \o r)[i].nonce = Len(s) + i
  <2>1. CASE i <= Len(q)
    <3>1. (q \o r)[i] = q[i] /\ i \in 1 .. Len(q)
      BY <1>1, <2>1, ConcatProperties
    <3> QED BY <1>a, <3>1
  <2>2. CASE ~(i <= Len(q))
    <3>1. (q \o r)[i] = r[i - Len(q)] /\ i - Len(q) \in 1 .. Len(r)
      BY <1>1, <2>2, ConcatProperties
    <3>2. r[i - Len(q)].nonce = n + (i - Len(q))
      BY <3>1
    <3>3. n + (i - Len(q)) = Len(s) + i
      BY <1>b
    <3> QED BY <3>1, <3>2, <3>3
  <2> QED BY <2>1, <2>2
<1>4. Len(s) + Len(q \o r) = n + Len(r)
  BY <1>b, <1>2
<1> QED BY <1>0, <1>a, <1>2, <1>3, <1>4 DEF InOrder

\* Settling the first ones moves their nonces.
LEMMA OrderSettle ==
    ASSUME NEW s, NEW q \in Seq(SafeTx), NEW r \in Seq(SafeTx), NEW n \in Nat, InOrder(s, r \o q, n)
    PROVE  InOrder(s \o NoncesOf(r), q, n)
<1>0. s \in Seq(Nat) /\ Len(s) + Len(r \o q) = n
  BY DEF InOrder
<1>a. /\ \A i \in 1 .. Len(s) : s[i] = i
      /\ \A i \in 1 .. Len(r \o q) : (r \o q)[i].nonce = Len(s) + i
  BY DEF InOrder
<1> DEFINE t == s \o NoncesOf(r)
<1>1. /\ s \in Seq(Nat) /\ Len(s) \in Nat /\ Len(q) \in Nat /\ Len(r) \in Nat
      /\ NoncesOf(r) \in Seq(Nat) /\ Len(NoncesOf(r)) = Len(r)
  BY <1>0, LenProperties, NoncesSeq
<1>2. r \o q \in Seq(SafeTx) /\ Len(r \o q) = Len(r) + Len(q)
  BY ConcatProperties
<1>3. t \in Seq(Nat) /\ Len(t) = Len(s) + Len(r)
  <2>1. ASSUME NEW x \in Seq(Nat), NEW y \in Seq(Nat)
        PROVE  x \o y \in Seq(Nat) /\ Len(x \o y) = Len(x) + Len(y)
    BY ConcatProperties
  <2> QED BY <1>1, <2>1
<1>4. Len(t) + Len(q) = n
  BY <1>0, <1>1, <1>2, <1>3
<1>5. ASSUME NEW i \in 1 .. Len(s) + Len(r) PROVE t[i] = i
  <2>1. CASE i <= Len(s)
    <3>1. t[i] = s[i] /\ i \in 1 .. Len(s)
      BY <1>1, <2>1, ConcatProperties
    <3> QED BY <1>a, <3>1
  <2>2. CASE ~(i <= Len(s))
    <3> DEFINE j == i - Len(s)
    <3>1. t[i] = NoncesOf(r)[j] /\ j \in 1 .. Len(r)
      BY <1>1, <2>2, ConcatProperties
    <3>2. NoncesOf(r)[j] = r[j].nonce
      BY <3>1, NoncesSeq
    <3>3. j \in 1 .. Len(r) + Len(q) /\ (r \o q)[j] = r[j]
      BY <1>1, <3>1, ConcatProperties
    <3>4. (r \o q)[j].nonce = Len(s) + j
      BY <1>a, <1>2, <3>3
    <3>5. Len(s) + j = i
      BY <1>1
    <3> QED BY <3>1, <3>2, <3>3, <3>4, <3>5
  <2> QED BY <2>1, <2>2
<1>6. ASSUME NEW i \in 1 .. Len(q) PROVE q[i].nonce = Len(t) + i
  <2> DEFINE j == Len(r) + i
  <2>1. /\ j \in 1 .. Len(r) + Len(q) /\ ~(j <= Len(r)) /\ j - Len(r) = i
        /\ Len(s) + j = (Len(s) + Len(r)) + i
    BY <1>1
  <2>2. (r \o q)[j] = q[i]
    <3>1. (r \o q)[j] = q[j - Len(r)]
      BY <1>1, <2>1, ConcatProperties
    <3> QED BY <2>1, <3>1
  <2>3. (r \o q)[j].nonce = Len(s) + j
    BY <1>a, <1>2, <2>1
  <2> QED BY <1>3, <2>1, <2>2, <2>3
<1> HIDE DEF t
<1>7. InOrder(t, q, n)
  BY <1>3, <1>4, <1>5, <1>6 DEF InOrder
<1> QED BY <1>7 DEF t

\* The nonces in order.
LEMMA OrderMeans ==
    ASSUME NEW s, NEW q \in Seq(SafeTx), NEW n \in Nat, InOrder(s, q, n), n <= MaxTx
    PROVE  /\ s \in Seq(1 .. MaxTx)
           /\ s \o NoncesOf(q) = [k \in 1 .. n |-> k]
<1>0. s \in Seq(Nat) /\ Len(s) + Len(q) = n
  BY DEF InOrder
<1>a. /\ \A i \in 1 .. Len(s) : s[i] = i
      /\ \A i \in 1 .. Len(q) : q[i].nonce = Len(s) + i
  BY DEF InOrder
<1> DEFINE t == s \o NoncesOf(q)
           all == [k \in 1 .. n |-> k]
<1>1. /\ s \in Seq(Nat) /\ Len(s) \in Nat /\ Len(q) \in Nat /\ Len(s) + Len(q) = n
      /\ NoncesOf(q) \in Seq(Nat) /\ Len(NoncesOf(q)) = Len(q) /\ MaxTx \in Nat
  BY <1>0, LenProperties, NoncesSeq, TxBatchAssumption
<1>2. s \in Seq(1 .. MaxTx)
  <2>1. ASSUME NEW i \in 1 .. Len(s) PROVE s[i] \in 1 .. MaxTx
    <3>1. i <= n
      BY <1>1
    <3>2. i \in 1 .. MaxTx
      BY <1>1, <3>1
    <3> QED BY <1>a, <3>2
  <2>2. s \in [1 .. Len(s) -> Nat]
    BY <1>1
  <2>3. s \in [1 .. Len(s) -> 1 .. MaxTx]
    BY <2>1, <2>2
  <2>4. ASSUME NEW T, NEW m \in Nat, NEW f \in [1 .. m -> T] PROVE f \in Seq(T)
    OBVIOUS
  <2> QED BY <1>1, <2>3, <2>4, Zenon
<1>3. t \in Seq(Nat) /\ Len(t) = n
  BY <1>1, ConcatProperties
<1>4. all \in Seq(Nat) /\ Len(all) = n /\ \A i \in 1 .. n : all[i] = i
  OBVIOUS
<1>5. ASSUME NEW i \in 1 .. n PROVE t[i] = i
  <2>1. CASE i <= Len(s)
    <3>1. t[i] = s[i] /\ i \in 1 .. Len(s)
      BY <1>1, <2>1, ConcatProperties
    <3> QED BY <1>a, <3>1
  <2>2. CASE ~(i <= Len(s))
    <3> DEFINE j == i - Len(s)
    <3>1. t[i] = NoncesOf(q)[j] /\ j \in 1 .. Len(q)
      BY <1>1, <2>2, ConcatProperties
    <3>2. NoncesOf(q)[j] = q[j].nonce
      BY <3>1, NoncesSeq
    <3>3. q[j].nonce = Len(s) + j
      BY <1>a, <3>1
    <3>4. Len(s) + j = i
      BY <1>1
    <3> QED BY <3>1, <3>2, <3>3, <3>4
  <2> QED BY <2>1, <2>2
<1> HIDE DEF t, all
<1>6. t = all
  BY <1>3, <1>4, <1>5, SeqEqual
<1> QED BY <1>2, <1>6 DEF t, all


------------------------------------------------------------------------------
(* The inductive invariant *)

SafeSettingsOK ==
    /\ block \in Nat
    /\ safePaused \in BOOLEAN /\ whitelisted \in BOOLEAN /\ burnRole \in BOOLEAN
    /\ serviceFeeConfig \in ServiceFeeConfigs
    /\ maxBridgedAmount \in Nat

SafeBatchesOK ==
    /\ safe \in BatchesOf(SafeTx)
    /\ safe.maxTxBatchSize \in BatchSizes
    /\ safe.maxTxBatchBlockDuration \in BatchDurations
    /\ safe.lastTxNonce <= MaxTx
    /\ Window(safe, safe.lastTxNonce)

SafeTokensOK ==
    /\ refundAmount \in [Users -> Nat]
    /\ accumulatedFees \in Nat
    /\ lockedForever \in Nat

SafeOrder == InOrder(settled, Queue(safe), safe.lastTxNonce)

SafeBalanced ==
    safeBalance = accumulatedFees + SumFunction(refundAmount) + lockedForever
                  + HeldWaiting(Queue(safe))

SafeInv == SafeSettingsOK /\ SafeBatchesOK /\ SafeTokensOK /\ SafeOrder /\ SafeBalanced


\* The batches of a contract as deployed.
LEMMA NoBatches ==
    ASSUME NEW S, NEW size \in Nat, NEW duration \in Nat, NEW b, b = EmptyBatches(size, duration)
    PROVE  /\ b \in BatchesOf(S) /\ Window(b, 0) /\ Queue(b) = <<>>
           /\ b.firstBatchId = 1 /\ b.lastBatchId = 1 /\ b.lastTxNonce = 0
           /\ b.maxTxBatchSize = size /\ b.maxTxBatchBlockDuration = duration
<1>2. MaxTx \in Nat /\ 1 \in BatchIds /\ BatchIds = 1 .. MaxTx + 1
  BY TxBatchAssumption DEF BatchIds
<1>3. <<>> \in Seq(S)
  BY EmptySeq
<1>4. /\ b.firstBatchId = 1 /\ b.lastBatchId = 1 /\ b.lastTxNonce = 0
      /\ b.maxTxBatchSize = size /\ b.maxTxBatchBlockDuration = duration
      /\ b.pendingBatches = [id \in BatchIds |-> <<>>]
      /\ b \in BatchesOf(S)
  BY <1>2, <1>3 DEF EmptyBatches, BatchesOf
<1>5. Window(b, 0)
  BY <1>2, <1>4 DEF Window
<1>6. Queue(b) = <<>>
  <2>1. InWindow(b) \in Seq(Seq(S)) /\ Len(InWindow(b)) = 1 /\ Queue(b) = FlattenSeq(InWindow(b))
    <3>1. 0 \in Nat /\ 0 <= MaxTx
      BY <1>2
    <3>2. b \in BatchesOf(S)
      BY <1>4
    <3>3. /\ InWindow(b) \in Seq(Seq(S)) /\ Queue(b) = FlattenSeq(InWindow(b))
          /\ Len(InWindow(b)) = b.lastBatchId - b.firstBatchId + 1
      BY <1>5, <3>1, <3>2, WindowIsSeq, Zenon
    <3>4. b.lastBatchId - b.firstBatchId + 1 = 1
      BY <1>4
    <3> QED BY <3>3, <3>4
  <2>2. InWindow(b)[1] = <<>>
    BY <1>2, <1>4 DEF InWindow
  <2> DEFINE e == <<>>
             one == Append(<<>>, e)
  <2>3. e \in Seq(S) /\ one \in Seq(Seq(S)) /\ Len(one) = 1 /\ one[1] = e
    BY <1>3, EmptySeq, AppendProperties
  <2>4. InWindow(b) = one
    <3> HIDE DEF one, e
    <3>1. InWindow(b)[1] = e
      BY <2>2 DEF e
    <3> QED BY <2>1, <2>3, <3>1, SeqEqual
  <2>5. FlattenSeq(one) = FlattenSeq(<<>>) \o e
    <3>1. <<>> \in Seq(Seq(S))
      BY EmptySeq
    <3> QED BY <1>3, <3>1, FlattenAppend
  <2>6. FlattenSeq(<<>>) = <<>> /\ <<>> \o <<>> = <<>>
    BY EmptySeq, FlattenNone, ConcatEmptySeq
  <2> QED BY <2>1, <2>4, <2>5, <2>6
<1> QED BY <1>4, <1>5, <1>6

\* The safe as deployed, in operation or not.
LEMMA SafeInvInit ==
    ASSUME block = 0, NEW ready \in BOOLEAN, SafeDeployed(ready)
    PROVE  SafeInv
<1>1. PICK size \in BatchSizes, duration \in BatchDurations : safe = EmptyBatches(size, duration)
  BY DEF SafeDeployed
<1>2. MaxTx \in Nat /\ size \in Nat /\ duration \in Nat
  BY TxBatchAssumption, EsdtSafeAssumption
<1>4. /\ safe \in BatchesOf(SafeTx) /\ Window(safe, 0) /\ Queue(safe) = <<>>
      /\ safe.lastTxNonce = 0
      /\ safe.maxTxBatchSize = size /\ safe.maxTxBatchBlockDuration = duration
  BY <1>1, <1>2, NoBatches
<1>7. SafeBatchesOK
  BY <1>1, <1>2, <1>4 DEF SafeBatchesOK
<1>8. SafeSettingsOK /\ SafeTokensOK
  <2>1. 0 \in Nat /\ (~ready) \in BOOLEAN
    OBVIOUS
  <2> QED BY <2>1 DEF SafeDeployed, SafeSettingsOK, SafeTokensOK
<1>9. SafeOrder
  <2>1. settled = <<>> /\ <<>> \in Seq(Nat) /\ Len(<<>>) = 0
    BY EmptySeq DEF SafeDeployed
  <2> QED BY <1>4, <2>1 DEF SafeOrder, InOrder
<1>10. SafeBalanced
  <2>1. SumFunction(refundAmount) = 0
    <3>1. refundAmount = [u \in Users |-> 0]
      BY DEF SafeDeployed
    <3>2. IsFiniteSet(Users) /\ \A u \in Users : refundAmount[u] \in Nat /\ 1 * refundAmount[u] <= 0 * refundAmount[u]
      BY <3>1, EsdtSafeAssumption
    <3>3. SumFunctionOnSet(refundAmount, Users) \in Nat
      BY <3>2, SumNat
    <3>4. 1 * SumFunctionOnSet(refundAmount, Users) <= 0 * SumFunctionOnSet(refundAmount, Users)
      BY <3>2, SumScale
    <3>5. SumFunctionOnSet(refundAmount, Users) = 0
      BY <3>3, <3>4
    <3> QED BY <3>1, <3>5 DEF SumFunction
  <2>2. HeldWaiting(Queue(safe)) = 0
    BY <1>4, RefundsHoldNone
  <2>3. accumulatedFees = 0 /\ safeBalance = 0 /\ lockedForever = 0
    BY DEF SafeDeployed
  <2> QED BY <2>1, <2>2, <2>3 DEF SafeBalanced
<1> QED BY <1>7, <1>8, <1>9, <1>10 DEF SafeInv

\* The types of what the invariant speaks about.
LEMMA SafeInvTypes ==
    ASSUME SafeInv
    PROVE  /\ Queue(safe) \in Seq(SafeTx)
           /\ HeldWaiting(Queue(safe)) \in Nat
           /\ SumFunction(refundAmount) \in Nat
           /\ safe.lastTxNonce \in Nat
           /\ safeBalance \in Nat
<1>1. safe \in BatchesOf(SafeTx) /\ safe.lastTxNonce <= MaxTx /\ Window(safe, safe.lastTxNonce)
  BY DEF SafeInv, SafeBatchesOK
<1>2. safe.lastTxNonce \in Nat
  BY <1>1 DEF BatchesOf
<1>3. Queue(safe) \in Seq(SafeTx)
  BY <1>1, <1>2, WindowIsSeq
<1>4. HeldWaiting(Queue(safe)) \in Nat
  BY <1>3, HeldByThem DEF HeldWaiting, Waiting
<1>5. refundAmount \in [Users -> Nat] /\ accumulatedFees \in Nat /\ lockedForever \in Nat
  BY DEF SafeInv, SafeTokensOK
<1>6. SumFunction(refundAmount) \in Nat
  <2>1. SumFunctionOnSet(refundAmount, Users) \in Nat
    BY <1>5, EsdtSafeAssumption, SumNat
  <2> QED BY <1>5, <2>1 DEF SumFunction
<1>7. safeBalance \in Nat
  BY <1>4, <1>5, <1>6 DEF SafeInv, SafeBalanced
<1> QED BY <1>2, <1>3, <1>4, <1>6, <1>7


------------------------------------------------------------------------------
(* One lemma per operation of the safe *)

\* Only the nonce changes.
LEMMA NextNonce ==
    ASSUME NEW S, NEW b \in BatchesOf(S), NEW nonce \in Nat, NEW n, Window(b, n)
    PROVE  LET c == [b EXCEPT !.lastTxNonce = nonce] IN
           /\ c \in BatchesOf(S) /\ Window(c, n) /\ Queue(c) = Queue(b)
           /\ c.maxTxBatchSize = b.maxTxBatchSize
           /\ c.maxTxBatchBlockDuration = b.maxTxBatchBlockDuration
           /\ c.lastTxNonce = nonce
<1> DEFINE c == [b EXCEPT !.lastTxNonce = nonce]
<1>1. /\ c \in BatchesOf(S)
      /\ c.firstBatchId = b.firstBatchId /\ c.lastBatchId = b.lastBatchId
      /\ c.pendingBatches = b.pendingBatches
      /\ c.maxTxBatchSize = b.maxTxBatchSize
      /\ c.maxTxBatchBlockDuration = b.maxTxBatchBlockDuration
      /\ c.lastTxNonce = nonce
  BY DEF BatchesOf
<1> HIDE DEF c
<1>2. Queue(c) = Queue(b) /\ Window(c, n)
  BY <1>1, QueueSame
<1> QED BY <1>1, <1>2 DEF c

\* The fee is a natural number.
LEMMA ServiceFeeNat ==
    ASSUME SafeSettingsOK, NEW amount \in Nat
    PROVE  ServiceFee(amount) \in Nat
<1>1. serviceFeeConfig.pct \in Nat /\ serviceFeeConfig.max \in Nat /\ MaxPercentage \in Nat /\ MaxPercentage > 0
  BY EsdtSafeAssumption DEF SafeSettingsOK
<1>2. ASSUME NEW a \in Nat, NEW k \in Nat, NEW m \in Nat, m > 0 PROVE (a * k) \div m \in Nat
  <2>1. a * k \in Nat
    OBVIOUS
  <2>2. ASSUME NEW x \in Nat PROVE x \div m \in Nat
    BY <1>2
  <2> QED BY <2>1, <2>2
<1>3. (amount * serviceFeeConfig.pct) \div MaxPercentage \in Nat
  BY <1>1, <1>2
<1> QED BY <1>1, <1>3 DEF ServiceFee

\* create_transaction
LEMMA CreateTransactionKeeps ==
    ASSUME SafeInv, NEW from \in Users, NEW payment \in Payments, NEW fee \in RequiredFees,
           CreateTransaction(from, payment, fee), UNCHANGED block
    PROVE  SafeInv'
<1> DEFINE net == payment - fee
           serviceFee == ServiceFee(net)
           nonce == safe.lastTxNonce + 1
           tx == [block |-> block, nonce |-> nonce, from |-> from,
                  amount |-> net - serviceFee, serviceFee |-> serviceFee,
                  isRefundTx |-> FALSE]
           b == [safe EXCEPT !.lastTxNonce = nonce]
           q == Queue(safe)
<1>1. /\ fee < payment /\ serviceFee <= net /\ nonce <= MaxTx
      /\ safe' = AddToBatch(b, tx)
      /\ accumulatedFees' = accumulatedFees + fee
      /\ safeBalance' = safeBalance + payment
      /\ UNCHANGED <<safePaused, whitelisted, burnRole, serviceFeeConfig, maxBridgedAmount>>
      /\ UNCHANGED <<refundAmount, lockedForever, settled>>
  BY DEF CreateTransaction, safeConfigVars
<1>2. /\ q \in Seq(SafeTx) /\ HeldWaiting(q) \in Nat /\ SumFunction(refundAmount) \in Nat
      /\ safe.lastTxNonce \in Nat /\ safeBalance \in Nat
  BY SafeInvTypes
<1>3. payment \in Nat /\ fee \in Nat /\ net \in Nat /\ MaxTx \in Nat
  BY <1>1, EsdtSafeAssumption, TxBatchAssumption
<1>4. SafeSettingsOK /\ SafeBatchesOK /\ SafeTokensOK /\ SafeOrder /\ SafeBalanced
  BY DEF SafeInv
<1> HIDE DEF net, q
<1>5. serviceFee \in Nat
  BY <1>3, <1>4, ServiceFeeNat
<1> HIDE DEF serviceFee
<1>6. nonce \in Nat /\ safe.lastTxNonce < MaxTx
  BY <1>1, <1>2, <1>3
<1>7. net - serviceFee \in Nat /\ block \in Nat
  BY <1>1, <1>3, <1>4, <1>5 DEF SafeSettingsOK
<1>8. tx \in SafeTx /\ ~tx.isRefundTx /\ tx.nonce = nonce /\ Held(tx) = net
  <2>1. tx \in SafeTx /\ ~tx.isRefundTx /\ tx.nonce = nonce
    BY <1>5, <1>6, <1>7 DEF SafeTx
  <2>2. Held(tx) = (net - serviceFee) + serviceFee
    BY DEF Held
  <2>3. (net - serviceFee) + serviceFee = net
    BY <1>3, <1>5
  <2> QED BY <2>1, <2>2, <2>3
<1>9. safe \in BatchesOf(SafeTx) /\ Window(safe, safe.lastTxNonce)
  BY <1>4 DEF SafeBatchesOK
<1>10. /\ b \in BatchesOf(SafeTx) /\ Window(b, safe.lastTxNonce) /\ Queue(b) = q
       /\ b.maxTxBatchSize = safe.maxTxBatchSize
       /\ b.maxTxBatchBlockDuration = safe.maxTxBatchBlockDuration
       /\ b.lastTxNonce = nonce
  BY <1>6, <1>9, NextNonce DEF q
<1> HIDE DEF b, tx
<1>11. Window(safe', safe.lastTxNonce + 1) /\ Queue(safe') = Append(q, tx)
  BY <1>1, <1>2, <1>6, <1>8, <1>10, AddingOne
<1>12. /\ safe' \in BatchesOf(SafeTx)
       /\ safe'.maxTxBatchSize = safe.maxTxBatchSize
       /\ safe'.maxTxBatchBlockDuration = safe.maxTxBatchBlockDuration
       /\ safe'.lastTxNonce = nonce
  <2>1. /\ AddToBatch(b, tx) \in BatchesOf(SafeTx)
        /\ AddToBatch(b, tx).maxTxBatchSize = b.maxTxBatchSize
        /\ AddToBatch(b, tx).maxTxBatchBlockDuration = b.maxTxBatchBlockDuration
        /\ AddToBatch(b, tx).lastTxNonce = b.lastTxNonce
    BY <1>8, <1>10, AddToBatchFields
  <2> QED BY <1>1, <1>10, <2>1
<1>13. SafeBatchesOK'
  BY <1>1, <1>4, <1>11, <1>12 DEF SafeBatchesOK
<1>14. SafeSettingsOK' /\ SafeTokensOK'
  BY <1>1, <1>3, <1>4 DEF SafeSettingsOK, SafeTokensOK
<1>15. SafeOrder'
  <2> DEFINE r == Append(<<>>, tx)
  <2>1. r \in Seq(SafeTx) /\ Len(r) = 1 /\ r[1] = tx
    BY <1>8, EmptySeq, AppendProperties
  <2>2. q \o r = Append(q, tx)
    <3>1. q \o r = Append(q \o <<>>, tx)
      BY <1>2, <1>8, EmptySeq, AppendConcat
    <3>2. q \o <<>> = q
      BY <1>2, ConcatEmptySeq
    <3> QED BY <3>1, <3>2
  <2> HIDE DEF r
  <2>3. InOrder(settled, q \o r, safe.lastTxNonce + Len(r))
    <3>1. InOrder(settled, q, safe.lastTxNonce)
      BY <1>4 DEF SafeOrder, q
    <3>2. \A i \in 1 .. Len(r) : r[i].nonce = safe.lastTxNonce + i
      BY <1>2, <1>8, <2>1
    <3> QED BY <1>2, <2>1, <3>1, <3>2, OrderConcat
  <2> QED BY <1>1, <1>11, <1>12, <2>1, <2>2, <2>3 DEF SafeOrder
<1>16. SafeBalanced'
  <2>1. HeldWaiting(Append(q, tx)) = HeldWaiting(q) + net
    BY <1>2, <1>8, HeldAppend
  <2>2. safeBalance = accumulatedFees + SumFunction(refundAmount) + lockedForever + HeldWaiting(q)
    BY <1>4 DEF SafeBalanced, q
  <2>3. accumulatedFees \in Nat /\ lockedForever \in Nat /\ payment = fee + net
    BY <1>3, <1>4 DEF SafeTokensOK, net
  <2>0. safeBalance' = safeBalance + payment /\ accumulatedFees' = accumulatedFees + fee
    BY <1>1
  <2> DEFINE held == HeldWaiting(q)
             owed == SumFunction(refundAmount)
             more == HeldWaiting(Append(q, tx))
  <2>4. safeBalance' = accumulatedFees' + owed + lockedForever + more
    <3>1. held \in Nat /\ owed \in Nat /\ more = held + net
      BY <1>2, <2>1
    <3>2. safeBalance = accumulatedFees + owed + lockedForever + held
      BY <2>2
    <3> HIDE DEF held, owed, more
    <3> QED BY <1>3, <2>0, <2>3, <3>1, <3>2
  <2> QED BY <1>1, <1>11, <2>4 DEF SafeBalanced
<1> QED BY <1>13, <1>14, <1>15, <1>16 DEF SafeInv


\* claim_refund
LEMMA ClaimRefundKeeps ==
    ASSUME SafeInv, NEW user \in Users, ClaimRefund(user), UNCHANGED block
    PROVE  SafeInv'
<1>1. /\ refundAmount' = [refundAmount EXCEPT ![user] = 0]
      /\ safeBalance' = safeBalance - refundAmount[user]
      /\ UNCHANGED <<safePaused, whitelisted, burnRole, serviceFeeConfig, maxBridgedAmount>>
      /\ UNCHANGED <<safe, accumulatedFees, lockedForever, settled>>
  BY DEF ClaimRefund, safeConfigVars
<1>2. HeldWaiting(Queue(safe)) \in Nat /\ SumFunction(refundAmount) \in Nat
  BY SafeInvTypes
<1>3. SafeSettingsOK /\ SafeBatchesOK /\ SafeTokensOK /\ SafeOrder /\ SafeBalanced
  BY DEF SafeInv
<1>4. refundAmount \in [Users -> Nat] /\ refundAmount' \in [Users -> Nat]
  BY <1>1, <1>3 DEF SafeTokensOK
<1>5. SafeSettingsOK' /\ SafeBatchesOK' /\ SafeTokensOK' /\ SafeOrder'
  <2>1. SafeSettingsOK'
    BY <1>1, <1>3 DEF SafeSettingsOK
  <2>2. SafeBatchesOK' /\ SafeOrder'
    BY <1>1, <1>3 DEF SafeBatchesOK, SafeOrder
  <2>3. SafeTokensOK'
    BY <1>1, <1>3, <1>4 DEF SafeTokensOK
  <2> QED BY <2>1, <2>2, <2>3
<1>6. SumFunction(refundAmount') = SumFunction(refundAmount) + (0 - refundAmount[user])
  <2>1. /\ DOMAIN refundAmount = Users /\ DOMAIN refundAmount' = Users
        /\ \A u \in Users : refundAmount[u] \in Int
        /\ refundAmount'[user] = 0
        /\ \A u \in Users : u # user => refundAmount'[u] = refundAmount[u]
    BY <1>1, <1>4
  <2>2. IsFiniteSet(Users)
    BY EsdtSafeAssumption
  <2>3. SumFunction(refundAmount') = SumFunction(refundAmount) + (refundAmount'[user] - refundAmount[user])
    <3>1. refundAmount'[user] \in Int
      BY <2>1
    <3> QED BY <2>1, <2>2, <3>1, SumChange
  <2> QED BY <2>1, <2>3
<1>7. SafeBalanced'
  <2>1. safeBalance = accumulatedFees + SumFunction(refundAmount) + lockedForever + HeldWaiting(Queue(safe))
    BY <1>3 DEF SafeBalanced
  <2>2. accumulatedFees \in Nat /\ lockedForever \in Nat /\ refundAmount[user] \in Nat
    BY <1>3, <1>4 DEF SafeTokensOK
  <2>3. safeBalance' = accumulatedFees + SumFunction(refundAmount') + lockedForever + HeldWaiting(Queue(safe))
    BY <1>1, <1>2, <1>6, <2>1, <2>2
  <2> QED BY <1>1, <2>3 DEF SafeBalanced
<1> QED BY <1>5, <1>7 DEF SafeInv

\* set_transaction_batch_status
LEMMA SetTransactionBatchStatusKeeps ==
    ASSUME SafeInv, FirstBatch(safe) # <<>>, NEW statuses,
           SetTransactionBatchStatus(safe.firstBatchId, statuses), UNCHANGED block
    PROVE  SafeInv'
<1> DEFINE batch == FirstBatch(safe)
           done == WithStatus(batch, statuses, "Executed")
           undone == WithStatus(batch, statuses, "Rejected")
           executed == HeldBy(batch, done)
           rejected == HeldBy(batch, undone)
           q == Queue(safe)
<1>1. /\ \A i \in DOMAIN batch : batch[i].isRefundTx \/ statuses[i] \in {"Executed", "Rejected"}
      /\ safeBalance' = IF burnRole THEN safeBalance - executed ELSE safeBalance
      /\ lockedForever' = IF burnRole THEN lockedForever ELSE lockedForever + executed
      /\ refundAmount' = Credited(refundAmount, batch, undone)
      /\ safe' = ClearFirstBatch(safe)
      /\ settled' = settled \o NoncesOf(batch)
      /\ UNCHANGED <<safePaused, whitelisted, burnRole, serviceFeeConfig, maxBridgedAmount>>
      /\ UNCHANGED accumulatedFees
  BY DEF SetTransactionBatchStatus, safeConfigVars, Credited, From, NoncesOf
<1>2. /\ q \in Seq(SafeTx) /\ HeldWaiting(q) \in Nat /\ SumFunction(refundAmount) \in Nat
      /\ safe.lastTxNonce \in Nat /\ safeBalance \in Nat
  BY SafeInvTypes
<1>3. SafeSettingsOK /\ SafeBatchesOK /\ SafeTokensOK /\ SafeOrder /\ SafeBalanced
  BY DEF SafeInv
<1>4. /\ safe \in BatchesOf(SafeTx) /\ Window(safe, safe.lastTxNonce) /\ safe.lastTxNonce <= MaxTx
      /\ safe.maxTxBatchSize \in BatchSizes
      /\ safe.maxTxBatchBlockDuration \in BatchDurations
  BY <1>3 DEF SafeBatchesOK
<1>5. /\ safe' \in BatchesOf(SafeTx) /\ Window(safe', safe.lastTxNonce)
      /\ batch \in Seq(SafeTx) /\ q = batch \o Queue(safe')
      /\ safe'.maxTxBatchSize = safe.maxTxBatchSize
      /\ safe'.maxTxBatchBlockDuration = safe.maxTxBatchBlockDuration
      /\ safe'.lastTxNonce = safe.lastTxNonce
  BY <1>1, <1>2, <1>4, ClearingFirst
<1>6. Queue(safe') \in Seq(SafeTx)
  BY <1>2, <1>4, <1>5, WindowIsSeq
<1>7. SafeBatchesOK'
  BY <1>4, <1>5 DEF SafeBatchesOK
<1>8. done \in SUBSET (DOMAIN batch) /\ undone \in SUBSET (DOMAIN batch)
  BY DEF WithStatus
<1>9. executed \in Nat /\ rejected \in Nat
  BY <1>5, <1>8, HeldByThem
<1>10. HeldWaiting(batch) = executed + rejected
  BY <1>1, <1>5, HeldSplit
<1> HIDE DEF batch, done, undone, q
<1>11. HeldWaiting(q) = HeldWaiting(batch) + HeldWaiting(Queue(safe')) /\ HeldWaiting(Queue(safe')) \in Nat
  <2>1. HeldWaiting(Queue(safe')) \in Nat
    BY <1>6, HeldByThem DEF HeldWaiting, Waiting
  <2> QED BY <1>5, <1>6, <2>1, HeldConcat
<1>12. refundAmount' \in [Users -> Nat] /\ SumFunction(refundAmount') = SumFunction(refundAmount) + rejected
  <2>1. refundAmount \in [Users -> Nat]
    BY <1>3 DEF SafeTokensOK
  <2> QED BY <1>1, <1>5, <1>8, <2>1, CreditedIsHeld
<1> HIDE DEF executed, rejected
<1>13. SafeSettingsOK' /\ SafeTokensOK'
  BY <1>1, <1>3, <1>9, <1>12 DEF SafeSettingsOK, SafeTokensOK
<1>14. SafeOrder'
  <2>1. InOrder(settled, batch \o Queue(safe'), safe.lastTxNonce)
    BY <1>3, <1>5 DEF SafeOrder, q
  <2>2. InOrder(settled \o NoncesOf(batch), Queue(safe'), safe.lastTxNonce)
    BY <1>2, <1>5, <1>6, <2>1, OrderSettle
  <2> QED BY <1>1, <1>5, <2>2 DEF SafeOrder
<1>15. SafeBalanced'
  <2>1. safeBalance = accumulatedFees + SumFunction(refundAmount) + lockedForever + HeldWaiting(q)
    BY <1>3 DEF SafeBalanced, q
  <2>2. accumulatedFees \in Nat /\ lockedForever \in Nat
    BY <1>3 DEF SafeTokensOK
  <2> DEFINE rest == HeldWaiting(Queue(safe'))
             owed == SumFunction(refundAmount)
  <2>3. HeldWaiting(q) = (executed + rejected) + rest /\ rest \in Nat /\ owed \in Nat
        /\ SumFunction(refundAmount') = owed + rejected
    BY <1>2, <1>10, <1>11, <1>12
  <2> HIDE DEF rest, owed
  <2>4. safeBalance' = accumulatedFees + (owed + rejected) + lockedForever' + rest
    <3>1. safeBalance = accumulatedFees + owed + lockedForever + ((executed + rejected) + rest)
      BY <2>1, <2>3 DEF owed
    <3>2. CASE burnRole
      <4>1. safeBalance' = safeBalance - executed /\ lockedForever' = lockedForever
        BY <1>1, <3>2
      <4> QED BY <1>9, <2>2, <2>3, <3>1, <4>1
    <3>3. CASE ~burnRole
      <4>1. safeBalance' = safeBalance /\ lockedForever' = lockedForever + executed
        BY <1>1, <3>3
      <4> QED BY <1>9, <2>2, <2>3, <3>1, <4>1
    <3> QED BY <3>2, <3>3
  <2> QED BY <1>1, <2>3, <2>4 DEF SafeBalanced, rest
<1> QED BY <1>7, <1>13, <1>14, <1>15 DEF SafeInv


\* Refunds as the multi-transfer contract hands them over.
RefundTx == [to : Users, amount : Nat, serviceFee : Nat]

\* add_refund_batch
LEMMA AddRefundBatchKeeps ==
    ASSUME SafeInv, NEW R,
           \A r \in R : r.to \in Users /\ r.amount \in Nat /\ r.serviceFee \in Nat,
           NEW refundTxs \in Seq(R), NEW fee \in Nat, AddRefundBatch(refundTxs, fee), UNCHANGED block
    PROVE  SafeInv'
<1> DEFINE paying == PayingRefunds(refundTxs, fee)
           size == Len(paying)
           last == safe.lastTxNonce
           new(i) == [block |-> block, nonce |-> last + i,
                      from |-> paying[i].to, amount |-> paying[i].amount - fee,
                      serviceFee |-> paying[i].serviceFee, isRefundTx |-> TRUE]
           newTxs == [i \in 1 .. size |-> new(i)]
           b == [safe EXCEPT !.lastTxNonce = last + size]
           q == Queue(safe)
<1>1. paying \in Seq({r \in R : r.amount > fee})
  BY PayingOnes
<1>2. size \in Nat /\ DOMAIN paying = 1 .. size
      /\ \A i \in 1 .. size : paying[i] \in R /\ paying[i].amount > fee
  BY <1>1
<1>3. /\ last + size <= MaxTx
      /\ safe' = AddMultipleTxToBatch(b, newTxs)
      /\ UNCHANGED <<safePaused, whitelisted, burnRole, serviceFeeConfig, maxBridgedAmount>>
      /\ UNCHANGED <<refundAmount, accumulatedFees, safeBalance, lockedForever, settled>>
  BY <1>2 DEF AddRefundBatch, safeConfigVars, safeTokenVars
<1>4. q \in Seq(SafeTx) /\ HeldWaiting(q) \in Nat /\ last \in Nat
  BY SafeInvTypes
<1>5. SafeSettingsOK /\ SafeBatchesOK /\ SafeTokensOK /\ SafeOrder /\ SafeBalanced
  BY DEF SafeInv
<1>6. /\ safe \in BatchesOf(SafeTx) /\ Window(safe, last)
      /\ safe.maxTxBatchSize \in BatchSizes
      /\ safe.maxTxBatchBlockDuration \in BatchDurations
  BY <1>5 DEF SafeBatchesOK
<1> HIDE DEF paying, size, last, q
<1>7. ASSUME NEW i \in 1 .. size PROVE new(i) \in SafeTx
  <2>1. block \in Nat /\ last + i \in Nat
    BY <1>2, <1>4, <1>5 DEF SafeSettingsOK
  <2>2. /\ paying[i].to \in Users /\ paying[i].amount \in Nat /\ paying[i].serviceFee \in Nat
        /\ paying[i].amount > fee
    BY <1>2
  <2>3. paying[i].amount - fee \in Nat
    BY <2>2
  <2> QED BY <2>1, <2>2, <2>3 DEF SafeTx
<1>8. ASSUME NEW i \in 1 .. size PROVE new(i).isRefundTx /\ new(i).nonce = last + i
  OBVIOUS
<1> HIDE DEF new
<1>9. /\ newTxs \in Seq(SafeTx) /\ Len(newTxs) = size /\ DOMAIN newTxs = 1 .. size
      /\ \A i \in 1 .. size : newTxs[i].isRefundTx /\ newTxs[i].nonce = last + i
  <2>1. newTxs \in Seq(SafeTx) /\ Len(newTxs) = size /\ DOMAIN newTxs = 1 .. size
    BY <1>2, <1>7
  <2>2. \A i \in 1 .. size : newTxs[i] = new(i)
    OBVIOUS
  <2> QED BY <1>8, <2>1, <2>2
<1> HIDE DEF newTxs
<1>10. last + size \in Nat
  BY <1>2, <1>4
<1>11. /\ b \in BatchesOf(SafeTx) /\ Window(b, last) /\ Queue(b) = q
       /\ b.maxTxBatchSize = safe.maxTxBatchSize
       /\ b.maxTxBatchBlockDuration = safe.maxTxBatchBlockDuration
       /\ b.lastTxNonce = last + size
  BY <1>6, <1>10, NextNonce DEF q
<1> HIDE DEF b
<1>12. /\ safe' \in BatchesOf(SafeTx)
       /\ Window(safe', last + size)
       /\ Queue(safe') = q \o newTxs
       /\ safe'.maxTxBatchSize = safe.maxTxBatchSize
       /\ safe'.maxTxBatchBlockDuration = safe.maxTxBatchBlockDuration
       /\ safe'.lastTxNonce = last + size
  <2>1. last + Len(newTxs) <= MaxTx /\ last + Len(newTxs) = last + size
    BY <1>3, <1>9
  <2> DEFINE d == AddMultipleTxToBatch(b, newTxs)
  <2>2. /\ d \in BatchesOf(SafeTx)
        /\ Window(d, last + Len(newTxs))
        /\ Queue(d) = Queue(b) \o newTxs
        /\ d.maxTxBatchSize = b.maxTxBatchSize
        /\ d.maxTxBatchBlockDuration = b.maxTxBatchBlockDuration
        /\ d.lastTxNonce = b.lastTxNonce
    BY <1>4, <1>9, <1>11, <2>1, AddingMany
  <2>3. safe' = d
    BY <1>3
  <2> HIDE DEF d
  <2> QED BY <1>11, <2>1, <2>2, <2>3
<1>13. SafeBatchesOK'
  BY <1>3, <1>6, <1>12 DEF SafeBatchesOK
<1>14. SafeSettingsOK' /\ SafeTokensOK'
  BY <1>3, <1>5 DEF SafeSettingsOK, SafeTokensOK
<1>15. SafeOrder'
  <2>1. InOrder(settled, q, last)
    BY <1>5 DEF SafeOrder, q, last
  <2>2. InOrder(settled, q \o newTxs, last + size)
    BY <1>4, <1>9, <2>1, OrderConcat
  <2> QED BY <1>3, <1>12, <2>2 DEF SafeOrder
<1>16. SafeBalanced'
  <2>1. HeldWaiting(newTxs) = 0
    BY <1>9, RefundsHoldNone
  <2>2. HeldWaiting(q \o newTxs) = HeldWaiting(q) + HeldWaiting(newTxs)
    BY <1>4, <1>9, HeldConcat
  <2>3. HeldWaiting(Queue(safe')) = HeldWaiting(q)
    BY <1>4, <1>12, <2>1, <2>2
  <2> QED BY <1>3, <1>5, <2>3 DEF SafeBalanced, q
<1> QED BY <1>13, <1>14, <1>15, <1>16 DEF SafeInv

\* distribute_fees
LEMMA DistributeFeesKeeps ==
    ASSUME SafeInv, NEW split \in FeeSplits, DistributeFees(split), UNCHANGED block
    PROVE  SafeInv'
<1> DEFINE sent == SharesOf(accumulatedFees, split)
<1>1. /\ SplitTotal(split) = MaxPercentage
      /\ accumulatedFees' = accumulatedFees - sent
      /\ safeBalance' = safeBalance - sent
      /\ UNCHANGED <<safePaused, whitelisted, burnRole, serviceFeeConfig, maxBridgedAmount>>
      /\ UNCHANGED <<safe, refundAmount, lockedForever, settled>>
  BY DEF DistributeFees, safeConfigVars
<1>2. HeldWaiting(Queue(safe)) \in Nat /\ SumFunction(refundAmount) \in Nat
  BY SafeInvTypes
<1>3. SafeSettingsOK /\ SafeBatchesOK /\ SafeTokensOK /\ SafeOrder /\ SafeBalanced
  BY DEF SafeInv
<1>4. accumulatedFees \in Nat /\ lockedForever \in Nat
  BY <1>3 DEF SafeTokensOK
<1>5. sent \in Nat /\ sent <= accumulatedFees
  BY <1>1, <1>4, EsdtSafeAssumption, SharesAreCovered
<1> HIDE DEF sent
<1>6. SafeSettingsOK' /\ SafeBatchesOK' /\ SafeOrder'
  BY <1>1, <1>3 DEF SafeSettingsOK, SafeBatchesOK, SafeOrder
<1>7. SafeTokensOK'
  <2>1. accumulatedFees' \in Nat
    BY <1>1, <1>4, <1>5
  <2> QED BY <1>1, <1>3, <2>1 DEF SafeTokensOK
<1>8. SafeBalanced'
  <2>1. safeBalance = accumulatedFees + SumFunction(refundAmount) + lockedForever + HeldWaiting(Queue(safe))
    BY <1>3 DEF SafeBalanced
  <2>2. safeBalance' = (accumulatedFees - sent) + SumFunction(refundAmount) + lockedForever + HeldWaiting(Queue(safe))
    BY <1>1, <1>2, <1>4, <1>5, <2>1
  <2> QED BY <1>1, <2>2 DEF SafeBalanced
<1> QED BY <1>6, <1>7, <1>8 DEF SafeInv

\* The settings of the batches.
LEMMA BatchSettingsKeep ==
    ASSUME SafeInv, NEW size \in BatchSizes, NEW duration \in BatchDurations,
           SafeSetMaxTxBatchSize(size) \/ SafeSetMaxTxBatchBlockDuration(duration), UNCHANGED block
    PROVE  SafeInv'
<1>1. SafeSettingsOK /\ SafeBatchesOK /\ SafeTokensOK /\ SafeOrder /\ SafeBalanced
  BY DEF SafeInv
<1>2. /\ \/ safe' = [safe EXCEPT !.maxTxBatchSize = size]
         \/ safe' = [safe EXCEPT !.maxTxBatchBlockDuration = duration]
      /\ UNCHANGED <<safePaused, whitelisted, burnRole, serviceFeeConfig, maxBridgedAmount>>
      /\ UNCHANGED <<refundAmount, accumulatedFees, safeBalance, lockedForever, settled>>
  BY DEF SafeSetMaxTxBatchSize, SafeSetMaxTxBatchBlockDuration, SetMaxTxBatchSize,
         SetMaxTxBatchBlockDuration, safeConfigVars, safeTokenVars
<1>3. safe \in BatchesOf(SafeTx) /\ size \in Nat /\ duration \in Nat
  BY <1>1, EsdtSafeAssumption DEF SafeBatchesOK
<1>4. /\ safe' \in BatchesOf(SafeTx)
      /\ safe'.firstBatchId = safe.firstBatchId /\ safe'.lastBatchId = safe.lastBatchId
      /\ safe'.pendingBatches = safe.pendingBatches /\ safe'.lastTxNonce = safe.lastTxNonce
      /\ safe'.maxTxBatchSize = size \/ safe'.maxTxBatchSize = safe.maxTxBatchSize
      /\ \/ safe'.maxTxBatchBlockDuration = duration
         \/ safe'.maxTxBatchBlockDuration = safe.maxTxBatchBlockDuration
  BY <1>2, <1>3 DEF BatchesOf
<1>5. Queue(safe') = Queue(safe) /\ Window(safe', safe.lastTxNonce)
  BY <1>1, <1>4, QueueSame DEF SafeBatchesOK
<1>6. SafeBatchesOK'
  BY <1>1, <1>4, <1>5 DEF SafeBatchesOK
<1>7. SafeSettingsOK' /\ SafeTokensOK'
  BY <1>1, <1>2 DEF SafeSettingsOK, SafeTokensOK
<1>8. SafeOrder' /\ SafeBalanced'
  BY <1>1, <1>2, <1>4, <1>5 DEF SafeOrder, SafeBalanced
<1> QED BY <1>6, <1>7, <1>8 DEF SafeInv


\* Switches and limits touch no token and no transaction.
LEMMA SettingsKeep ==
    ASSUME SafeInv,
           \/ /\ \/ SafeSetPaused \/ SafeSetWhitelisted \/ SafeSetBurnRole
                 \/ \E config \in ServiceFeeConfigs : SafeSetServiceFee(config)
                 \/ \E limit \in MaxBridgedAmounts : SafeSetMaxBridgedAmount(limit)
              /\ UNCHANGED block
           \/ NextBlock /\ UNCHANGED safeVars
           \/ UNCHANGED <<block, safeVars>>
    PROVE  SafeInv'
<1>1. SafeSettingsOK /\ SafeBatchesOK /\ SafeTokensOK /\ SafeOrder /\ SafeBalanced
  BY DEF SafeInv
<1>2. UNCHANGED <<safe, refundAmount, accumulatedFees, safeBalance, lockedForever, settled>>
  BY DEF SafeSetPaused, SafeSetWhitelisted, SafeSetBurnRole, SafeSetServiceFee,
         SafeSetMaxBridgedAmount, safeVars, safeTokenVars
<1>3. SafeBatchesOK' /\ SafeTokensOK'
  BY <1>1, <1>2 DEF SafeBatchesOK, SafeTokensOK
<1>4. SafeOrder' /\ SafeBalanced'
  BY <1>1, <1>2 DEF SafeOrder, SafeBalanced
<1>5. SafeSettingsOK'
  <2>1. CASE SafeSetPaused /\ UNCHANGED block
    BY <1>1, <2>1 DEF SafeSettingsOK, SafeSetPaused
  <2>2. CASE SafeSetWhitelisted /\ UNCHANGED block
    BY <1>1, <2>2 DEF SafeSettingsOK, SafeSetWhitelisted
  <2>3. CASE SafeSetBurnRole /\ UNCHANGED block
    BY <1>1, <2>3 DEF SafeSettingsOK, SafeSetBurnRole
  <2>4. CASE (\E config \in ServiceFeeConfigs : SafeSetServiceFee(config)) /\ UNCHANGED block
    BY <1>1, <2>4 DEF SafeSettingsOK, SafeSetServiceFee
  <2>5. CASE (\E limit \in MaxBridgedAmounts : SafeSetMaxBridgedAmount(limit)) /\ UNCHANGED block
    BY <1>1, <2>5, EsdtSafeAssumption DEF SafeSettingsOK, SafeSetMaxBridgedAmount
  <2>6. CASE NextBlock /\ UNCHANGED safeVars
    BY <1>1, <2>6 DEF SafeSettingsOK, NextBlock, safeVars, safeConfigVars
  <2>7. CASE UNCHANGED <<block, safeVars>>
    BY <1>1, <2>7 DEF SafeSettingsOK, safeVars, safeConfigVars
  <2> QED BY <2>1, <2>2, <2>3, <2>4, <2>5, <2>6, <2>7
<1> QED BY <1>1, <1>3, <1>4, <1>5 DEF SafeInv

\* What users do and what the owner sets keeps the invariant.
LEMMA SafeContractKeeps ==
    ASSUME SafeInv, SafeUserNext \/ SafeConfigNext, UNCHANGED block
    PROVE  SafeInv'
<1>1. CASE SafeUserNext
  <2>1. CASE \E from \in Users, payment \in Payments, fee \in RequiredFees :
               CreateTransaction(from, payment, fee)
    BY <1>1, <2>1, CreateTransactionKeeps
  <2>2. CASE \E user \in Users : ClaimRefund(user)
    BY <1>1, <2>2, ClaimRefundKeeps
  <2> QED BY <1>1, <2>1, <2>2 DEF SafeUserNext
<1>2. CASE SafeConfigNext
  <2>1. CASE \/ SafeSetPaused \/ SafeSetWhitelisted \/ SafeSetBurnRole
             \/ \E config \in ServiceFeeConfigs : SafeSetServiceFee(config)
             \/ \E limit \in MaxBridgedAmounts : SafeSetMaxBridgedAmount(limit)
    BY <1>2, <2>1, SettingsKeep
  <2>2. safe.maxTxBatchSize \in BatchSizes /\ safe.maxTxBatchBlockDuration \in BatchDurations
    BY DEF SafeInv, SafeBatchesOK
  <2>3. CASE \E size \in BatchSizes : SafeSetMaxTxBatchSize(size)
    BY <1>2, <2>2, <2>3, BatchSettingsKeep
  <2>4. CASE \E duration \in BatchDurations : SafeSetMaxTxBatchBlockDuration(duration)
    BY <1>2, <2>2, <2>4, BatchSettingsKeep
  <2>5. CASE \E split \in FeeSplits : DistributeFees(split)
    BY <1>2, <2>5, DistributeFeesKeeps
  <2> QED BY <1>2, <2>1, <2>3, <2>4, <2>5 DEF SafeConfigNext
<1> QED BY <1>1, <1>2

\* Every step of the safe keeps the invariant.
LEMMA SafeInvStep ==
    SafeInv /\ [SafeNext]_<<block, safeVars>> => SafeInv'
<1> SUFFICES ASSUME SafeInv, [SafeNext]_<<block, safeVars>> PROVE SafeInv'
  OBVIOUS
<1>1. CASE (SafeUserNext \/ SafeConfigNext) /\ UNCHANGED block
  BY <1>1, SafeContractKeeps
<1>3. CASE SafeOwnerNext /\ UNCHANGED block
  <2>1. CASE /\ FirstBatch(safe) # <<>>
             /\ \E statuses \in [DOMAIN FirstBatch(safe) -> TransactionStatuses] :
                   SetTransactionBatchStatus(safe.firstBatchId, statuses)
    BY <1>3, <2>1, SetTransactionBatchStatusKeeps
  <2>2. CASE \E n \in 1 .. 2, fee \in RequiredFees, to \in Users :
               \E amounts \in [1 .. n -> Payments] :
                  AddRefundBatch([i \in 1 .. n |->
                      [to |-> to, amount |-> amounts[i], serviceFee |-> 0]], fee)
    <3>0. PICK n \in 1 .. 2, fee \in RequiredFees, to \in Users :
               \E amounts \in [1 .. n -> Payments] :
                  AddRefundBatch([i \in 1 .. n |->
                      [to |-> to, amount |-> amounts[i], serviceFee |-> 0]], fee)
      BY <2>2
    <3>1. PICK amounts \in [1 .. n -> Payments] :
                  AddRefundBatch([i \in 1 .. n |->
                      [to |-> to, amount |-> amounts[i], serviceFee |-> 0]], fee)
      BY <3>0
    <3> DEFINE refundTxs == [i \in 1 .. n |-> [to |-> to, amount |-> amounts[i], serviceFee |-> 0]]
    <3>2. \A i \in 1 .. n : amounts[i] \in Nat
      BY EsdtSafeAssumption
    <3>3. \A i \in 1 .. n : [to |-> to, amount |-> amounts[i], serviceFee |-> 0] \in RefundTx
      BY <3>2 DEF RefundTx
    <3>4. refundTxs \in Seq(RefundTx) /\ fee \in Nat
      BY <3>3, EsdtSafeAssumption
    <3>5. AddRefundBatch(refundTxs, fee)
      BY <3>1
    <3>6. \A r \in RefundTx : r.to \in Users /\ r.amount \in Nat /\ r.serviceFee \in Nat
      BY DEF RefundTx
    <3> HIDE DEF refundTxs
    <3> QED BY <1>3, <3>4, <3>5, <3>6, AddRefundBatchKeeps
  <2> QED BY <1>3, <2>1, <2>2 DEF SafeOwnerNext
<1>4. CASE NextBlock /\ UNCHANGED safeVars
  BY <1>4, SettingsKeep
<1>5. CASE UNCHANGED <<block, safeVars>>
  BY <1>5, SettingsKeep
<1> QED BY <1>1, <1>3, <1>4, <1>5 DEF SafeNext

\* What the invariant says of the storage, the tokens and the order.
LEMMA SafeInvMeans ==
    SafeInv => SafeTypeOK /\ SafeConservation /\ SafeQueueInOrder
<1> SUFFICES ASSUME SafeInv PROVE SafeTypeOK /\ SafeConservation /\ SafeQueueInOrder
  OBVIOUS
<1>1. SafeSettingsOK /\ SafeBatchesOK /\ SafeTokensOK /\ SafeOrder /\ SafeBalanced
  BY DEF SafeInv
<1>2. Queue(safe) \in Seq(SafeTx) /\ safe.lastTxNonce \in Nat /\ safeBalance \in Nat /\ MaxTx \in Nat
  BY SafeInvTypes, TxBatchAssumption
<1>3. safe.lastTxNonce <= MaxTx
  BY <1>1 DEF SafeBatchesOK
<1>4. /\ settled \in Seq(1 .. MaxTx)
      /\ settled \o NoncesOf(Queue(safe)) = [k \in 1 .. safe.lastTxNonce |-> k]
  BY <1>1, <1>2, <1>3, OrderMeans DEF SafeOrder
<1>5. SafeQueueInOrder
  BY <1>4 DEF SafeQueueInOrder, NoncesOf
<1>6. SafeConservation
  BY <1>1 DEF SafeBalanced, SafeConservation, HeldWaiting, Waiting
<1>7. SafeTypeOK
  <2>1. safe.firstBatchId \in BatchIds /\ safe.lastBatchId \in BatchIds
    <3>1. /\ safe.firstBatchId \in Nat /\ safe.lastBatchId \in Nat
          /\ 1 <= safe.firstBatchId /\ safe.firstBatchId <= safe.lastBatchId
          /\ safe.lastBatchId <= safe.lastTxNonce + 1
      BY <1>1 DEF SafeBatchesOK, BatchesOf, Window
    <3> QED BY <1>2, <1>3, <3>1 DEF BatchIds
  <2>2. safe.lastTxNonce \in 0 .. MaxTx
    BY <1>2, <1>3
  <2>3. safe \in [firstBatchId : BatchIds, lastBatchId : BatchIds,
                  pendingBatches : [BatchIds -> Seq(SafeTx)],
                  maxTxBatchSize : BatchSizes,
                  maxTxBatchBlockDuration : BatchDurations,
                  lastTxNonce : 0 .. MaxTx]
    BY <1>1, <2>1, <2>2 DEF SafeBatchesOK, BatchesOf
  <2> QED BY <1>1, <1>2, <1>4, <2>3 DEF SafeTypeOK, SafeSettingsOK, SafeTokensOK
<1> QED BY <1>5, <1>6, <1>7

\* Every reachable state of the safe satisfies the invariant.
LEMMA SafeAlwaysInv ==
    SafeSpec => []SafeInv
<1>1. SafeInit => SafeInv
  BY SafeInvInit DEF SafeInit
<1> QED BY <1>1, SafeInvStep, PTL DEF SafeSpec

------------------------------------------------------------------------------
(* Theorems *)

(***************************************************************************)
(* The storage of the safe keeps its types: the window of batches stays    *)
(* within one batch more than transactions were numbered, and no counter   *)
(* of tokens (refund_amount, accumulated_transaction_fees, the balance) is *)
(* ever asked for more than it has, which would abort the call.            *)
(***************************************************************************)
THEOREM EsdtSafeTypeCorrect ==
    SafeSpec => []SafeTypeOK
BY SafeAlwaysInv, SafeInvMeans, PTL

(***************************************************************************)
(* The safe always holds exactly the collected fees, the refunds it owes,  *)
(* what waits to be bridged and what a missing burn role locked, through   *)
(* any order of create_transaction, set_transaction_batch_status,          *)
(* claim_refund, distribute_fees, add_refund_batch and changes of the      *)
(* configuration.                                                          *)
(***************************************************************************)
THEOREM SafeIsCovered ==
    SafeSpec => []SafeConservation
BY SafeAlwaysInv, SafeInvMeans, PTL

(***************************************************************************)
(* No transaction is lost, settled twice or settled out of order by        *)
(* add_to_batch, add_multiple_tx_to_batch and clear_first_batch, whatever  *)
(* the batch sizes and durations are and whenever they change.             *)
(***************************************************************************)
THEOREM SafeSettlesInOrder ==
    SafeSpec => []SafeQueueInOrder
BY SafeAlwaysInv, SafeInvMeans, PTL
==============================================================================
