---------------------------- MODULE StatusHandler ----------------------------
(***************************************************************************)
(* bridge/status: the metrics of the four status handlers, what of them is *)
(* written to the storage unit, and what a handler created after a restart *)
(* finds there.  A handler's int and string metrics have different names   *)
(* and form one function on the names that have a value.                   *)
(*                                                                         *)
(* Every change of a persisted metric writes all of them.  The changes one *)
(* step makes to a handler form a function from names to values.           *)
(*                                                                         *)
(* The storage unit is the one CreateUnitStorer opens (LvlDBSerial, with   *)
(* BatchDelaySeconds and MaxBatchSize): Put only queues a write, and the   *)
(* whole batch reaches the database later or, when that fails, never.      *)
(* Nobody closes the unit, so what is still queued when the process ends   *)
(* is lost too.                                                            *)
(***************************************************************************)
EXTENDS Integers, Functions

CONSTANT MaxCount           \* bound: counters are told apart up to this number

ASSUME StatusHandlerAssumption == MaxCount \in Nat \ {0}

VARIABLES
    statusHandlers,         \* the names known to the metrics holder
    metrics,                \* the metrics in memory, of each handler
    queued,                 \* the storage unit's batch: writes not yet in the database
    storage,                \* what the database has for each handler
    unsaved,                \* history: handlers whose last write was lost with its batch
    atFlush                 \* history: the persisted metrics as they were at the last flush,
                            \* or for a handler unsaved then at the last one before

statusVars == <<statusHandlers, metrics, queued, storage, unsaved, atFlush>>

EthClient == "eth-client"
MultiversXClient == "multiversx-client"
EthToMultiversX == "EthereumToMultiversX"
MultiversXToEth == "MultiversXToEthereum"
Handlers == {EthClient, MultiversXClient, EthToMultiversX, MultiversXToEth}

NoMetrics == <<>>
NoWrites == <<>>

PersistedMetrics ==
    {"num batches", "num ethereum client requests", "num ethereum client transactions",
     "ethereum last queried block number", "multiversx last queried block number",
     "ethereum client status", "multiversx client status",
     "ethereum client last encountered error", "multiversx client last encountered error",
     "last block nonce"}

ShouldPersistMetric(metric) == metric \in PersistedMetrics

\* convertToBuff, and loadFromBuff
Needed(m) == Restrict(m, {name \in DOMAIN m : ShouldPersistMetric(name)})

\* One metric and its value.
Metric(name, value) == [n \in {name} |-> value]

\* AddIntMetric with a delta of 1; a metric that was never set is 0.
Counted(m, name) ==
    LET value == IF name \in DOMAIN m THEN m[name] ELSE 0 IN
    Metric(name, IF value < MaxCount THEN value + 1 ELSE value)

\* SetIntMetric and SetStringMetric of every metric in updates.
Updated(m, updates) ==
    [n \in DOMAIN m \cup DOMAIN updates |-> IF n \in DOMAIN updates THEN updates[n] ELSE m[n]]

\* Mutant of Saved: only the changed metrics are written.
SavedChanges(m, updates) == Needed(updates)

\* persistChanges, after these updates of m.
Saved(m, updates) == Needed(Updated(m, updates))

Persisted(updates) == DOMAIN updates \cap PersistedMetrics # {}

\* The handlers in the domain of updates make theirs and put what is to be persisted.
SetMetrics(updates) ==
    LET writing == {h \in DOMAIN updates : Persisted(updates[h])} IN
    /\ metrics' = [h \in Handlers |-> IF h \in DOMAIN updates
                                      THEN Updated(metrics[h], updates[h]) ELSE metrics[h]]
    /\ queued' = [h \in DOMAIN queued \cup writing |->
                    IF h \in writing THEN Saved(metrics[h], updates[h]) ELSE queued[h]]
    /\ unsaved' = unsaved \ writing
    /\ UNCHANGED <<statusHandlers, storage, atFlush>>

\* External: the storage unit writes its batch, every BatchDelaySeconds or when a Put has
\* filled it.
FlushBatch ==
    /\ storage' = [h \in Handlers |-> IF h \in DOMAIN queued THEN queued[h] ELSE storage[h]]
    /\ queued' = NoWrites
    /\ atFlush' = [h \in Handlers |-> IF h \in statusHandlers \ unsaved THEN Needed(metrics[h])
                                      ELSE atFlush[h]]
    /\ UNCHANGED <<statusHandlers, metrics, unsaved>>

\* External: the batch cannot be written.  A Put that had filled it returns the error, which
\* persistChanges only logs.
FlushFails ==
    /\ queued' = NoWrites
    /\ unsaved' = unsaved \cup DOMAIN queued
    /\ UNCHANGED <<statusHandlers, metrics, storage, atFlush>>

\* NewStatusHandler with tryLoadPersistedData, then AddStatusHandler; a handler that does
\* not exist yet has no queued write, so Get finds what the database has.
NewStatusHandlers(names) ==
    /\ names \cap statusHandlers = {}
    /\ statusHandlers' = statusHandlers \cup names
    /\ metrics' = [h \in Handlers |-> IF h \in names THEN Needed(storage[h]) ELSE metrics[h]]
    /\ UNCHANGED <<queued, storage, unsaved, atFlush>>

\* The process ends: what is in memory is lost, and the batch with it.
ForgetMetrics ==
    /\ statusHandlers' = {}
    /\ metrics' = [h \in Handlers |-> NoMetrics]
    /\ queued' = NoWrites
    /\ unsaved' = {}
    /\ UNCHANGED <<storage, atFlush>>

\* The metrics holder; an unknown name is an error, here no metrics.
GetAllMetrics(name) == IF name \in statusHandlers THEN metrics[name] ELSE NoMetrics

GetAvailableStatusHandlers == statusHandlers

\* GET /node/status/list and /node/status?name=...
StatusListMetrics == GetAvailableStatusHandlers
StatusMetrics(name) == GetAllMetrics(name)

StatusInit ==
    /\ statusHandlers = {}
    /\ metrics = [h \in Handlers |-> NoMetrics]
    /\ storage = [h \in Handlers |-> NoMetrics]
    /\ queued = NoWrites
    /\ unsaved = {}
    /\ atFlush = [h \in Handlers |-> NoMetrics]
===============================================================================
