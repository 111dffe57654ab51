---------------------------- MODULE RelayerProcess ----------------------------
(***************************************************************************)
(* The process of one relayer: how cmd/bridge/main.go and                  *)
(* factory/ethMultiversXBridgeComponents.go create, start and close its    *)
(* parts, with the goroutines that run in between: the gas station, the    *)
(* polled role providers, the two state machines with the clients they     *)
(* share, and the web server that shows the metrics.                       *)
(*                                                                         *)
(* The two half bridges are modelled in modules of their own; here a step  *)
(* of a state machine is what it does to the clients' availability checks, *)
(* the metrics and the gas price.  Any part may fail to be created and the *)
(* process may be killed at any time.                                      *)
(***************************************************************************)
EXTENDS GasStation, StatusHandler, FiniteSets, Sequences, SequencesExt

CONSTANTS
    AllowDelta,             \* checks with the same block before a client counts as stuck
    MaxBlocks,              \* bound: last blocks of the two chains, added up
    GrowingChains,          \* bound: the chains, by their clients, that move at all
    MaxStarts,              \* bound: starts of the process
    MaxFaults,              \* bound: unanswered checks, lost batches, failed starts and closes
    RestApiOn               \* the REST interface is not "off"

ASSUME RelayerProcessAssumption ==
    /\ AllowDelta \in Nat \ {0}
    /\ {MaxBlocks, MaxStarts, MaxFaults} \subseteq Nat
    /\ MaxBlocks >= 2
    /\ GrowingChains \subseteq {EthClient, MultiversXClient}
    /\ RestApiOn \in BOOLEAN

VARIABLES
    phase,                  \* "down", "creating", "starting" or "running"
    todo,                   \* what the constructor or Start has still to do, in order
    closableHandlers,
    pollingHandlers,
    goroutines,             \* the loops that run
    cancelFunc,             \* Close would find the join loop's cancelFunc
    outlived,               \* history: the loops still running when startRelay returned
    result,                 \* history: what startRelay returned: the part that failed to close,
                            \* "clean", "not started", or "killed" when it did not return
    availability,           \* lastNonce and retriesAvailabilityCheck of the two clients
    chainBlock,             \* external: the latest block of the two chains
    starts,
    faults

processVars == <<phase, todo, closableHandlers, pollingHandlers, goroutines, cancelFunc,
                 outlived, result>>
clientVars == <<availability, chainBlock>>
relayerVars == <<processVars, clientVars, starts, faults, gasVars, statusVars>>

Clients == {EthClient, MultiversXClient}
Machines == {EthToMultiversX, MultiversXToEth}

NewClient == [last |-> 0, retries |-> 0]

\* n calls of this step fail.
Faults(n) == faults + n <= MaxFaults /\ faults' = faults + n

------------------------------------------------------------------------------
(* Creation: NewEthMultiversXBridgeComponents *)

ConstructorSteps ==
    <<"keys", "multiversXRoleProvider", "multiversXClient", "ethereumRoleProvider",
      "ethereumClient", "ethToMultiversXBridge", "ethToMultiversXStateMachine",
      "multiversXToEthBridge", "multiversXToEthStateMachine">>

\* startRelay up to the constructor, and the timer that the constructor adds first.
StartRelay ==
    /\ phase = "down"
    /\ starts < MaxStarts
    /\ starts' = starts + 1
    /\ phase' = "creating"
    /\ todo' = ConstructorSteps
    /\ closableHandlers' = <<"timer">>
    /\ pollingHandlers' = <<>>
    /\ cancelFunc' = FALSE
    /\ outlived' = {}
    /\ result' = "none"
    /\ NewStatusHandlers({EthClient, MultiversXClient})
    /\ UNCHANGED <<goroutines, clientVars, faults, gasVars>>

\* The next part of the constructor is this one.
Create(part) ==
    /\ phase = "creating"
    /\ todo # <<>> /\ Head(todo) = part
    /\ todo' = Tail(todo)
    /\ UNCHANGED <<phase, cancelFunc, outlived, result, chainBlock, starts,
                   faults>>

CreateKeysAndDataGetter ==
    /\ Create("keys")
    /\ UNCHANGED <<closableHandlers, pollingHandlers, goroutines, availability, gasVars,
                   statusVars>>

\* A polling handler is closable too.
AddPollingHandler(name) ==
    /\ closableHandlers' = Append(closableHandlers, name)
    /\ pollingHandlers' = Append(pollingHandlers, name)
    /\ UNCHANGED <<goroutines, availability, gasVars, statusVars>>

CreateMultiversXRoleProvider ==
    Create("multiversXRoleProvider") /\ AddPollingHandler("multiversXRoleProvider")

CreateEthereumRoleProvider ==
    Create("ethereumRoleProvider") /\ AddPollingHandler("ethereumRoleProvider")

CreateMultiversXClient ==
    /\ Create("multiversXClient")
    /\ closableHandlers' = Append(closableHandlers, MultiversXClient)
    /\ availability' = [availability EXCEPT ![MultiversXClient] = NewClient]
    /\ UNCHANGED <<pollingHandlers, goroutines, gasVars, statusVars>>

\* The gas station starts polling; neither it nor the client is closable.
CreateEthereumClient ==
    /\ Create("ethereumClient")
    /\ NewGasStation
    /\ goroutines' = goroutines \cup {"gasStation"}
    /\ availability' = [availability EXCEPT ![EthClient] = NewClient]
    /\ UNCHANGED <<closableHandlers, pollingHandlers, statusVars>>

CreateEthereumToMultiversXBridge ==
    /\ Create("ethToMultiversXBridge")
    /\ NewStatusHandlers({EthToMultiversX})
    /\ UNCHANGED <<closableHandlers, pollingHandlers, goroutines, availability, gasVars>>

CreateMultiversXToEthereumBridge ==
    /\ Create("multiversXToEthBridge")
    /\ NewStatusHandlers({MultiversXToEth})
    /\ UNCHANGED <<closableHandlers, pollingHandlers, goroutines, availability, gasVars>>

CreateEthereumToMultiversXStateMachine ==
    Create("ethToMultiversXStateMachine") /\ AddPollingHandler(EthToMultiversX)

CreateMultiversXToEthereumStateMachine ==
    Create("multiversXToEthStateMachine") /\ AddPollingHandler(MultiversXToEth)

------------------------------------------------------------------------------
(* Start *)

\* StartHttpServer; the limiter's reset loop belongs to the server.
HttpServer == IF RestApiOn THEN {"webServer"} ELSE {}

StartWebServer ==
    /\ phase = "creating" /\ todo = <<>>
    /\ phase' = "starting"
    /\ todo' = pollingHandlers
    /\ goroutines' = goroutines \cup HttpServer
    /\ UNCHANGED <<closableHandlers, pollingHandlers, cancelFunc, outlived, result,
                   clientVars, starts, faults, gasVars, statusVars>>

\* startPollingHandlers, after the messenger is up and the topics are registered.  After
\* the last one Start leaves the goroutine of the join loop behind and returns.
StartPollingHandler ==
    /\ phase = "starting"
    /\ todo # <<>>
    /\ todo' = Tail(todo)
    /\ \/ /\ todo' # <<>>
          /\ goroutines' = goroutines \cup {Head(todo)}
          /\ UNCHANGED phase
       \/ /\ todo' = <<>>
          /\ goroutines' = goroutines \cup {Head(todo), "joinLoop"}
          /\ phase' = "running"
    /\ UNCHANGED <<closableHandlers, pollingHandlers, cancelFunc, outlived, result,
                   clientVars, starts, faults, gasVars, statusVars>>

\* The join loop sets cancelFunc itself, at any time after Start.
StartBroadcastJoinRetriesLoop ==
    /\ "joinLoop" \in goroutines
    /\ ~cancelFunc
    /\ cancelFunc' = TRUE
    /\ UNCHANGED <<phase, todo, closableHandlers, pollingHandlers, goroutines, outlived,
                   result, clientVars, starts, faults, gasVars, statusVars>>

------------------------------------------------------------------------------
(* The loops *)

\* One turn of the gas station's loop.
RequestGasPrice(answer) ==
    /\ "gasStation" \in goroutines
    /\ DoRequestWithRetryMechanism(answer)
    /\ UNCHANGED <<processVars, clientVars, starts, faults, statusVars>>

\* The Ethereum chain wrapper counts every call.
Requested == Counted(metrics[EthClient], "num ethereum client requests")

\* BlockNumber of the chain wrapper, GetCurrentNonce of the data getter.
GetCurrentNonce(c) == chainBlock[c]

RetriesNow(c) ==
    IF GetCurrentNonce(c) = availability[c].last THEN availability[c].retries ELSE 0

\* Mutant of Checked: every check starts counting anew.
CheckedAnew(c) == [last |-> GetCurrentNonce(c), retries |-> 1]

\* The counter after a check that got an answer; kept within what it is compared with.
Checked(c) ==
    [last |-> GetCurrentNonce(c),
     retries |-> IF RetriesNow(c) > AllowDelta THEN RetriesNow(c) ELSE RetriesNow(c) + 1]

\* CheckClientAvailability: the metrics it sets, those of setStatusForAvailabilityCheck for
\* either client; both write the MultiversX client's names.
AvailabilityUpdates(c, answered) ==
    LET stuck == RetriesNow(c) > AllowDelta
        requested == IF c = EthClient THEN DOMAIN Requested ELSE {}
        queried == IF c = EthClient /\ answered THEN {"ethereum last queried block number"} ELSE {}
    IN  [n \in requested \cup queried \cup
               {"multiversx client status", "multiversx client last encountered error",
                "last block nonce"} |->
           CASE n \in requested -> Requested[n]
             [] n \in queried -> GetCurrentNonce(c)
             [] n = "multiversx client status" ->
                   IF answered /\ ~stuck THEN "Available" ELSE "Unavailable"
             [] n = "multiversx client last encountered error" ->
                   IF ~answered THEN "no answer" ELSE IF stuck THEN "same block" ELSE ""
             [] n = "last block nonce" -> IF answered THEN GetCurrentNonce(c) ELSE 0]

\* executeStep of machine m: before the step is executed its name is shown.
ExecuteStep(m) ==
    /\ m \in goroutines
    /\ UNCHANGED <<processVars, chainBlock, starts, gasVars>>

\* The name of the step is all one here.
CurrentStep == Metric("current state machine step", "step")

\* The first step of either machine: it checks both clients, then looks for a batch.
\* The clients in down get no answer.
CheckClients(m, down) ==
    /\ ExecuteStep(m)
    /\ availability' = [c \in Clients |-> IF c \in down THEN availability[c] ELSE Checked(c)]
    /\ \E updates \in {[h \in Clients \cup {m} |->
                           IF h = m THEN Updated(CurrentStep, Metric("num batches", 1))
                           ELSE AvailabilityUpdates(h, h \notin down)]} :
          SetMetrics(updates)

GetPending(m) ==
    \/ CheckClients(m, {}) /\ Faults(0)
    \/ \E c \in Clients : CheckClients(m, {c}) /\ Faults(1)

\* A machine begins with its first step.
PastFirstStep(m) == "current state machine step" \in DOMAIN metrics[m]

\* Any later step; the Ethereum client may be asked.
LaterStep(m) ==
    /\ ExecuteStep(m) /\ PastFirstStep(m)
    /\ \E asked \in {NoMetrics, Requested} :
          SetMetrics([h \in {EthClient, m} |-> IF h = m THEN CurrentStep ELSE asked])
    /\ UNCHANGED <<availability, faults>>

\* The step that sends executeTransfer, for which the gas station must have a price.
PerformTransfer ==
    /\ ExecuteStep(MultiversXToEth) /\ PastFirstStep(MultiversXToEth)
    /\ HasGasPrice
    /\ SetMetrics([h \in {EthClient, MultiversXToEth} |->
                     IF h = EthClient
                     THEN Counted(metrics[EthClient], "num ethereum client transactions")
                     ELSE CurrentStep])
    /\ UNCHANGED <<availability, faults>>

\* Execute of the Ethereum role provider asks the chain wrapper; the other one, of the
\* MultiversX data getter, changes nothing here.
ExecuteRoleProvider ==
    /\ "ethereumRoleProvider" \in goroutines
    /\ SetMetrics([h \in {EthClient} |-> Requested])
    /\ UNCHANGED <<processVars, clientVars, starts, faults, gasVars>>

\* The storage unit's own loop, from when CreateUnitStorer opens it.  Bound: what the last
\* of the MaxStarts processes writes is never read and need not be shown.
StorageFlushes ==
    /\ phase # "down"
    /\ starts < MaxStarts
    /\ queued # NoWrites
    /\ \/ FlushBatch /\ Faults(0)
       \/ FlushFails /\ Faults(1)
    /\ UNCHANGED <<processVars, clientVars, starts, gasVars>>

\* External: a chain moves on; what happens to it unobserved need not be shown.
ChainGrows(c) ==
    /\ Machines \subseteq goroutines
    /\ chainBlock[EthClient] + chainBlock[MultiversXClient] < MaxBlocks
    /\ chainBlock' = [chainBlock EXCEPT ![c] = @ + 1]
    /\ UNCHANGED <<processVars, availability, starts, faults, gasVars,
                   statusVars>>

------------------------------------------------------------------------------
(* The end of the process *)

\* main returns or the process dies: all that is in memory is gone.
ProcessEnds(outcome) ==
    /\ phase' = "down"
    /\ result' = outcome
    /\ todo' = <<>>
    /\ goroutines' = {}
    /\ availability' = [c \in Clients |-> NewClient]
    /\ NewGasStation
    /\ ForgetMetrics
    /\ UNCHANGED <<closableHandlers, pollingHandlers, cancelFunc, chainBlock, starts>>

\* A part cannot be created or started: startRelay returns the error.
StartFails ==
    /\ phase \in {"creating", "starting"}
    /\ Faults(1)
    /\ ProcessEnds("not started")
    /\ UNCHANGED outlived

\* Mutant of HandlersClosed: Close returns at the first error.
HandlersClosedUntilError(failed) ==
    {h \in ToSet(closableHandlers) : \A i \in DOMAIN closableHandlers :
        closableHandlers[i] = failed =>
            \E j \in DOMAIN closableHandlers : j < i /\ closableHandlers[j] = h}

\* The loop of Close over the closable handlers; an error does not stop it.  What failed
\* to close may go on.
HandlersClosed(failed) == ToSet(closableHandlers) \ {failed}

\* Close of the web server
WebServerClosed(failed) == HttpServer \ {failed}

JoinLoopCancelled == IF cancelFunc THEN {"joinLoop"} ELSE {}

\* SIGINT or SIGTERM: the join loop is cancelled if it has told how to, every handler is
\* closed, then the web server, and startRelay returns the last error; at most one fails.
CloseAll ==
    /\ phase = "running"
    /\ \E failed \in {"clean", "webServer"} \cup ToSet(closableHandlers) :
          /\ Faults(IF failed = "clean" THEN 0 ELSE 1)
          /\ outlived' = goroutines \ (HandlersClosed(failed) \cup WebServerClosed(failed)
                                      \cup JoinLoopCancelled)
          /\ ProcessEnds(failed)

Kill ==
    /\ phase # "down"
    /\ ProcessEnds("killed")
    /\ UNCHANGED <<outlived, faults>>

------------------------------------------------------------------------------
ProcessInit ==
    /\ phase = "down"
    /\ todo = <<>>
    /\ closableHandlers = <<>>
    /\ pollingHandlers = <<>>
    /\ goroutines = {}
    /\ cancelFunc = FALSE
    /\ outlived = {}
    /\ result = "none"
    /\ availability = [c \in Clients |-> NewClient]
    /\ chainBlock = [c \in Clients |-> 1]
    /\ starts = 0
    /\ faults = 0
    /\ latestGasPrice = NotFetched
    /\ fetchRetries = 0
    /\ lastAnswer = Unreadable
    /\ StatusInit

NewComponents ==
    \/ CreateKeysAndDataGetter
    \/ CreateMultiversXRoleProvider
    \/ CreateMultiversXClient
    \/ CreateEthereumRoleProvider
    \/ CreateEthereumClient
    \/ CreateEthereumToMultiversXBridge
    \/ CreateEthereumToMultiversXStateMachine
    \/ CreateMultiversXToEthereumBridge
    \/ CreateMultiversXToEthereumStateMachine

ProcessNext ==
    \/ StartRelay
    \/ NewComponents
    \/ StartWebServer
    \/ StartPollingHandler
    \/ StartBroadcastJoinRetriesLoop
    \/ \E answer \in GasPrices \cup {NoAnswer, Unreadable} : RequestGasPrice(answer)
    \/ \E m \in Machines : GetPending(m) \/ LaterStep(m)
    \/ PerformTransfer
    \/ ExecuteRoleProvider
    \/ StorageFlushes
    \/ \E c \in GrowingChains : ChainGrows(c)
    \/ StartFails
    \/ CloseAll
    \/ Kill

\* The gas station's loop keeps running and the price service answers again and again;
\* one state machine at least comes back to its first step (RelayersStartOver of the half
\* bridges), where a check without a fault is made in the end.
ProcessSpec ==
    /\ ProcessInit
    /\ [][ProcessNext]_relayerVars
    /\ WF_relayerVars(\E price \in GasPrices : RequestGasPrice(price))
    /\ WF_relayerVars(\E m \in Machines : CheckClients(m, {}) /\ Faults(0))

------------------------------------------------------------------------------
\* Every variable has values of its type (struct fields of the components and clients).
ServicesTypeOK ==
    /\ GasStationTypeOK
    /\ phase \in {"down", "creating", "starting", "running"}
    /\ ToSet(pollingHandlers) \subseteq ToSet(closableHandlers)
    /\ outlived \subseteq ToSet(pollingHandlers) \cup {"gasStation", "joinLoop", "webServer"}
    /\ goroutines \subseteq ToSet(pollingHandlers) \cup {"gasStation", "joinLoop", "webServer"}
    /\ availability \in [Clients -> [last : 0 .. MaxBlocks, retries : 0 .. AllowDelta + 1]]
    /\ DOMAIN queued \subseteq statusHandlers
    /\ \A h \in DOMAIN queued : DOMAIN queued[h] \subseteq PersistedMetrics
    /\ \A h \in Handlers : DOMAIN storage[h] \subseteq PersistedMetrics

\* A transaction can only be sent with the price the service quoted last, within the
\* maximum: never with one from before an answer that could not be read (gasStation.go:165).
NoOutdatedPrice ==
    HasGasPrice => /\ lastAnswer \in GasPrices
                   /\ lastAnswer <= MaximumGasPrice
                   /\ GetCurrentGasPrice = lastAnswer * GasPriceMultiplier

\* However many requests fail in a row, the gas station asks again: while its loop runs it
\* has a price again and again (gasStation.go:107-141).
PriceComesBack ==
    <>[]("gasStation" \in goroutines) => []<>(latestGasPrice # NotFetched)

\* A handler created after a restart has all persisted metrics as they were when the
\* storage unit last wrote its batch, or, if the handler's write before that was lost, as
\* they were at an earlier flush: the end of the process and a lost batch cost what was set
\* since the last flush and nothing else, and no mixture of old and new is ever shown
\* (statusHandler.go:111-172; the unit of storageFactory.go:12-20 is never closed).
RestartKeepsMetrics ==
    [][\A h \in StatusListMetrics' \ StatusListMetrics :
          StatusMetrics(h)' = atFlush[h]]_relayerVars

\* A chain that has stopped is reported, by both clients, whichever machine makes the
\* checks and whatever checks got no answer (CheckClientAvailability); every chain of
\* the model stops in the end.
StuckChainIsReported ==
    \A c \in Clients :
        <>[](phase = "running") =>
            <>[]("multiversx client status" \in DOMAIN StatusMetrics(c)
                 /\ StatusMetrics(c)["multiversx client status"] = "Unavailable")

\* When startRelay returns, only the gas station runs, which nothing closes, the part
\* whose own Close failed, and the join loop if it had not yet told how to cancel it:
\* another part that fails to close keeps no loop alive (Close of
\* ethMultiversXBridgeComponents, main.go:270-283).
CloseIsComplete ==
    outlived \subseteq {"gasStation", result} \cup (IF cancelFunc THEN {} ELSE {"joinLoop"})
===============================================================================
