------------------------- MODULE RelayerProcessProofs -------------------------
(***************************************************************************)
(* Theorems about the process of a relayer: its gas price, the metrics it  *)
(* keeps over restarts and what Close leaves running, for any prices,      *)
(* limits and number of faults and starts.                                 *)
(***************************************************************************)
EXTENDS RelayerProcess, SequenceTheorems, TLAPS

------------------------------------------------------------------------------
(* The gas price *)

\* The price on offer is the last answer.
PriceInv ==
    /\ GasStationTypeOK
    /\ latestGasPrice # NotFetched => latestGasPrice = lastAnswer

\* One turn of the gas station's loop.
SomeRequest ==
    \E answer \in GasPrices \cup {NoAnswer, Unreadable} : RequestGasPrice(answer)

\* Nothing else changes the price, but for a new gas station.
LEMMA GasSteps ==
    ASSUME [ProcessNext]_relayerVars
    PROVE  SomeRequest \/ NewGasStation \/ UNCHANGED gasVars
<1>1. CASE NewComponents
  BY <1>1 DEF NewComponents, CreateKeysAndDataGetter, CreateMultiversXRoleProvider,
     CreateMultiversXClient, CreateEthereumRoleProvider, CreateEthereumClient,
     CreateEthereumToMultiversXBridge, CreateEthereumToMultiversXStateMachine,
     CreateMultiversXToEthereumBridge, CreateMultiversXToEthereumStateMachine, AddPollingHandler
<1>2. CASE StartRelay \/ StartWebServer \/ StartPollingHandler \/ StartBroadcastJoinRetriesLoop
  BY <1>2 DEF StartRelay, StartWebServer, StartPollingHandler, StartBroadcastJoinRetriesLoop
<1>3. CASE SomeRequest
  BY <1>3
<1>4. CASE \E m \in Machines : GetPending(m) \/ LaterStep(m)
  BY <1>4 DEF GetPending, LaterStep, CheckClients, ExecuteStep
<1>5. CASE PerformTransfer \/ ExecuteRoleProvider \/ StorageFlushes
              \/ \E c \in GrowingChains : ChainGrows(c)
  BY <1>5 DEF PerformTransfer, ExecuteRoleProvider, StorageFlushes, ChainGrows, ExecuteStep
<1>6. CASE StartFails \/ CloseAll \/ Kill
  BY <1>6 DEF StartFails, CloseAll, Kill, ProcessEnds
<1> QED BY <1>1, <1>2, <1>3, <1>4, <1>5, <1>6 DEF ProcessNext, SomeRequest, relayerVars

LEMMA PriceInvHolds == ProcessSpec => []PriceInv
<1> USE DEF NotFetched, Unreadable, NoAnswer
<1>1. ProcessInit => PriceInv
  BY GasStationAssumption DEF ProcessInit, PriceInv, GasStationTypeOK, GasStationArgsOK
<1>2. PriceInv /\ [ProcessNext]_relayerVars => PriceInv'
  <2> SUFFICES ASSUME PriceInv, [ProcessNext]_relayerVars PROVE PriceInv'
    OBVIOUS
  <2>1. CASE SomeRequest
    <3>1. PICK answer \in GasPrices \cup {NoAnswer, Unreadable} :
             DoRequestWithRetryMechanism(answer)
      BY <2>1 DEF SomeRequest, RequestGasPrice
    <3>2. fetchRetries' \in 0 .. MaximumFetchRetries
      BY <3>1, GasStationAssumption DEF DoRequestWithRetryMechanism, PriceInv,
         GasStationTypeOK, GasStationArgsOK
    <3>3. /\ latestGasPrice' \in GasPrices \cup {NotFetched}
          /\ lastAnswer' \in GasPrices \cup {Unreadable}
          /\ latestGasPrice' # NotFetched => latestGasPrice' = lastAnswer'
      <4>1. CASE answer = NoAnswer
        BY <3>1, <4>1 DEF DoRequestWithRetryMechanism, PriceAfter, Answered, PriceInv,
           GasStationTypeOK
      <4>2. CASE answer = Unreadable
        BY <3>1, <4>2 DEF DoRequestWithRetryMechanism, PriceAfter, Answered
      <4>3. CASE answer \notin {NoAnswer, Unreadable}
        BY <3>1, <4>3 DEF DoRequestWithRetryMechanism, PriceAfter, Answered
      <4> QED BY <4>1, <4>2, <4>3
    <3> QED BY <3>2, <3>3 DEF PriceInv, GasStationTypeOK
  <2>2. CASE NewGasStation
    BY <2>2, GasStationAssumption DEF NewGasStation, PriceInv, GasStationTypeOK,
       GasStationArgsOK
  <2>3. CASE UNCHANGED gasVars
    BY <2>3 DEF gasVars, PriceInv, GasStationTypeOK
  <2> QED BY <2>1, <2>2, <2>3, GasSteps
<1> QED BY <1>1, <1>2, PTL DEF ProcessSpec

(***************************************************************************)
(* executeTransfer is only ever sent with the price the service quoted     *)
(* last, within the maximum, whatever requests failed or could not be read *)
(* since (doRequest, GetCurrentGasPrice).                                  *)
(***************************************************************************)
THEOREM PriceIsNeverOutdated == ProcessSpec => []NoOutdatedPrice
<1>1. PriceInv => NoOutdatedPrice
  BY GasStationAssumption DEF PriceInv, NoOutdatedPrice, GasStationTypeOK, HasGasPrice,
     GetCurrentGasPrice, NotFetched, Unreadable
<1> QED BY <1>1, PriceInvHolds, PTL

------------------------------------------------------------------------------
(* Starting and closing *)

\* The elements of a sequence.
LEMMA ToSetAppend ==
    ASSUME NEW S, NEW s \in Seq(S), NEW x \in S
    PROVE  ToSet(Append(s, x)) = ToSet(s) \cup {x}
<1> DEFINE l == Append(s, x)
           k == Len(s)
<1>1. /\ k \in Nat /\ DOMAIN s = 1 .. k /\ DOMAIN l = 1 .. k + 1
      /\ l[k + 1] = x /\ \A i \in 1 .. k : l[i] = s[i]
  BY AppendProperties
<1>2. 1 .. k + 1 = 1 .. k \cup {k + 1}
  BY <1>1
<1> HIDE DEF l, k
<1>3. ToSet(l) = ToSet(s) \cup {x}
  BY <1>1, <1>2 DEF ToSet
<1> QED BY <1>3 DEF l

LEMMA ToSetHeadTail ==
    ASSUME NEW S, NEW s \in Seq(S), s # <<>>
    PROVE  Head(s) \in ToSet(s) /\ ToSet(Tail(s)) \subseteq ToSet(s)
<1> DEFINE l == Tail(s)
<1>1. /\ Len(s) \in Nat /\ Len(s) > 0 /\ DOMAIN s = 1 .. Len(s) /\ Head(s) = s[1]
      /\ DOMAIN l = 1 .. Len(s) - 1 /\ \A i \in 1 .. Len(s) - 1 : l[i] = s[i + 1]
  BY EmptySeq, HeadTailProperties
<1>2. 1 \in DOMAIN s /\ \A i \in DOMAIN l : l[i] = s[i + 1] /\ i + 1 \in DOMAIN s
  BY <1>1
<1> HIDE DEF l
<1>3. Head(s) \in ToSet(s) /\ ToSet(l) \subseteq ToSet(s)
  BY <1>1, <1>2 DEF ToSet
<1> QED BY <1>3 DEF l

Phases == {"down", "creating", "starting", "running"}
OwnLoops == {"gasStation", "joinLoop", "webServer"}

\* What the constructor creates, and what it adds to the handlers.
PartNames ==
    {"timer", "keys", "multiversXRoleProvider", "multiversXClient", "ethereumRoleProvider",
     "ethereumClient", "ethToMultiversXBridge", "ethToMultiversXStateMachine",
     "multiversXToEthBridge", "multiversXToEthStateMachine",
     MultiversXClient, EthToMultiversX, MultiversXToEth}

\* This part is still to be created.
ToCreate(part) == \E i \in 1 .. Len(todo) : todo[i] = part

\* The parts that exist and the loops that run, in every phase.
LoopsInv ==
    /\ phase \in Phases
    /\ todo \in Seq(PartNames) /\ closableHandlers \in Seq(PartNames)
    /\ pollingHandlers \in Seq(PartNames)
    /\ ToSet(pollingHandlers) \subseteq ToSet(closableHandlers)
    /\ goroutines \subseteq ToSet(pollingHandlers) \cup OwnLoops
    /\ "webServer" \in goroutines => RestApiOn \/ "webServer" \in ToSet(pollingHandlers)
    /\ phase = "down" => goroutines = {}
    /\ phase = "creating" => goroutines \subseteq {"gasStation"}
    /\ phase = "starting" => ToSet(todo) \subseteq ToSet(pollingHandlers)
    /\ outlived \subseteq ToSet(pollingHandlers) \cup OwnLoops
    /\ phase # "down" => outlived = {}
    /\ CloseIsComplete

\* The status handlers exist before a loop uses them.
HandlersInv ==
    /\ statusHandlers \subseteq Handlers
    /\ phase = "creating" =>
          /\ Clients \subseteq statusHandlers
          /\ EthToMultiversX \in statusHandlers \/ ToCreate("ethToMultiversXBridge")
          /\ MultiversXToEth \in statusHandlers \/ ToCreate("multiversXToEthBridge")
    /\ phase \in {"starting", "running"} => statusHandlers = Handlers

\* A loop that writes metrics writes some.
MetricsWritten ==
    \E updates : DOMAIN updates \subseteq Handlers /\ SetMetrics(updates)

LoopMeasures ==
    /\ goroutines \cap ({"ethereumRoleProvider"} \cup Machines) # {}
    /\ MetricsWritten
    /\ UNCHANGED <<processVars, chainBlock, starts, gasVars>>
    /\ \A c \in Clients : availability'[c] = availability[c] \/ availability'[c] = Checked(c)
    /\ availability' = [c \in Clients |-> availability'[c]]

\* What a loop does is written to the metrics.
LEMMA LoopsMeasure ==
    ASSUME DOMAIN availability = Clients, availability = [c \in Clients |-> availability[c]],
           \/ \E m \in Machines : GetPending(m) \/ LaterStep(m)
           \/ PerformTransfer
           \/ ExecuteRoleProvider
    PROVE  LoopMeasures
<1> USE DEF Handlers, Clients, Machines
<1>1. ASSUME NEW updates, DOMAIN updates \subseteq Handlers, SetMetrics(updates)
      PROVE  MetricsWritten
  BY <1>1 DEF MetricsWritten
<1>2. ASSUME UNCHANGED availability
      PROVE  /\ \A c \in Clients : availability'[c] = availability[c]
             /\ availability' = [c \in Clients |-> availability'[c]]
  BY <1>2
<1>3. ASSUME NEW m \in Machines, NEW down, CheckClients(m, down)
      PROVE  LoopMeasures
  <2>1. PICK updates : /\ updates = [h \in Clients \cup {m} |->
                             IF h = m THEN Updated(CurrentStep, Metric("num batches", 1))
                             ELSE AvailabilityUpdates(h, h \notin down)]
                       /\ SetMetrics(updates)
    BY <1>3, Zenon DEF CheckClients
  <2>2. DOMAIN updates \subseteq Handlers
    BY <2>1
  <2>3. MetricsWritten
    BY <2>1, <2>2 DEF MetricsWritten
  <2>4. availability' = [c \in Clients |-> IF c \in down THEN availability[c] ELSE Checked(c)]
    BY <1>3 DEF CheckClients
  <2>5. m \in goroutines /\ UNCHANGED <<processVars, chainBlock, starts, gasVars>>
    BY <1>3 DEF CheckClients, ExecuteStep
  <2>6. \A c \in Clients : availability'[c] = availability[c] \/ availability'[c] = Checked(c)
    BY <2>4
  <2>7. availability' = [c \in Clients |-> availability'[c]]
    BY <2>4
  <2> QED BY <2>3, <2>5, <2>6, <2>7 DEF LoopMeasures
<1>4. ASSUME NEW m \in Machines, GetPending(m) PROVE LoopMeasures
  BY <1>3, <1>4 DEF GetPending
<1>5. ASSUME NEW m \in Machines, LaterStep(m) PROVE LoopMeasures
  <2>1. PICK asked : SetMetrics([h \in {EthClient, m} |-> IF h = m THEN CurrentStep ELSE asked])
    BY <1>5 DEF LaterStep
  <2>2. MetricsWritten
    BY <1>1, <2>1
  <2> QED BY <1>2, <1>5, <2>2 DEF LaterStep, ExecuteStep, LoopMeasures
<1>6. CASE PerformTransfer
  <2> DEFINE updates == [h \in {EthClient, MultiversXToEth} |->
                           IF h = EthClient
                           THEN Counted(metrics[EthClient], "num ethereum client transactions")
                           ELSE CurrentStep]
  <2>1. SetMetrics(updates) /\ MultiversXToEth \in goroutines
    BY <1>6 DEF PerformTransfer, ExecuteStep
  <2>2. DOMAIN updates \subseteq Handlers
    OBVIOUS
  <2> HIDE DEF updates
  <2>3. MetricsWritten
    BY <1>1, <2>1, <2>2
  <2> QED BY <1>2, <1>6, <2>1, <2>3 DEF PerformTransfer, ExecuteStep, LoopMeasures
<1>7. CASE ExecuteRoleProvider
  <2>1. SetMetrics([h \in {EthClient} |-> Requested])
    BY <1>7 DEF ExecuteRoleProvider
  <2>2. MetricsWritten
    BY <1>1, <2>1
  <2> QED BY <1>2, <1>7, <2>2 DEF ExecuteRoleProvider, LoopMeasures, clientVars
<1> QED BY <1>4, <1>5, <1>6, <1>7

\* Every step is one of these.
LEMMA ProcessSteps ==
    ASSUME DOMAIN availability = Clients, availability = [c \in Clients |-> availability[c]],
           [ProcessNext]_relayerVars
    PROVE  \/ StartRelay
           \/ NewComponents
           \/ StartWebServer \/ StartPollingHandler \/ StartBroadcastJoinRetriesLoop
           \/ SomeRequest
           \/ LoopMeasures
           \/ StorageFlushes
           \/ \E c \in GrowingChains : ChainGrows(c)
           \/ StartFails \/ CloseAll \/ Kill
           \/ UNCHANGED relayerVars
BY LoopsMeasure DEF ProcessNext, SomeRequest

\* The counters of the two clients.
ClientsInv ==
    /\ chainBlock \in [Clients -> Nat \ {0}]
    /\ chainBlock[EthClient] + chainBlock[MultiversXClient] <= MaxBlocks
    /\ availability \in [Clients -> [last : 0 .. MaxBlocks, retries : 0 .. AllowDelta + 1]]

LEMMA AvailabilityIsFunction ==
    ASSUME ClientsInv
    PROVE  DOMAIN availability = Clients /\ availability = [c \in Clients |-> availability[c]]
BY DEF ClientsInv

LEMMA ClientsInvHolds == ProcessSpec => []ClientsInv
<1> DEFINE Count == [last : 0 .. MaxBlocks, retries : 0 .. AllowDelta + 1]
<1> USE DEF Clients, EthClient, MultiversXClient
<1>1. NewClient \in Count
  BY RelayerProcessAssumption DEF NewClient
<1>2. ProcessInit => ClientsInv
  BY <1>1, RelayerProcessAssumption DEF ProcessInit, ClientsInv
<1>3. ClientsInv /\ [ProcessNext]_relayerVars => ClientsInv'
  <2> SUFFICES ASSUME ClientsInv, [ProcessNext]_relayerVars PROVE ClientsInv'
    OBVIOUS
  <2>1. CASE UNCHANGED clientVars
    BY <2>1 DEF clientVars, ClientsInv
  <2>2. CASE NewComponents
    <3>1. UNCHANGED chainBlock
      BY <2>2 DEF NewComponents, CreateKeysAndDataGetter, CreateMultiversXRoleProvider,
         CreateMultiversXClient, CreateEthereumRoleProvider, CreateEthereumClient,
         CreateEthereumToMultiversXBridge, CreateEthereumToMultiversXStateMachine,
         CreateMultiversXToEthereumBridge, CreateMultiversXToEthereumStateMachine, Create
    <3>2. \/ UNCHANGED availability
          \/ \E c \in Clients : availability' = [availability EXCEPT ![c] = NewClient]
      BY <2>2 DEF NewComponents, CreateKeysAndDataGetter, CreateMultiversXRoleProvider,
         CreateMultiversXClient, CreateEthereumRoleProvider, CreateEthereumClient,
         CreateEthereumToMultiversXBridge, CreateEthereumToMultiversXStateMachine,
         CreateMultiversXToEthereumBridge, CreateMultiversXToEthereumStateMachine,
         AddPollingHandler
    <3>3. availability' \in [Clients -> Count]
      <4> HIDE DEF Count, Clients
      <4>1. availability \in [Clients -> Count]
        BY DEF ClientsInv, Count
      <4> QED BY <1>1, <3>2, <4>1
    <3> QED BY <3>1, <3>3 DEF ClientsInv
  <2>3. CASE LoopMeasures
    <3>1. UNCHANGED chainBlock
      BY <2>3 DEF LoopMeasures
    <3>2. ASSUME NEW c \in Clients PROVE Checked(c) \in Count
      <4>1. chainBlock[c] \in 0 .. MaxBlocks
        BY RelayerProcessAssumption DEF ClientsInv
      <4>2. availability[c].retries \in 0 .. AllowDelta + 1
        BY DEF ClientsInv
      <4>3. RetriesNow(c) \in 0 .. AllowDelta + 1
        BY <4>2, RelayerProcessAssumption DEF RetriesNow
      <4> QED BY <4>1, <4>3, RelayerProcessAssumption DEF Checked, GetCurrentNonce
    <3>3. availability' \in [Clients -> Count]
      <4> HIDE DEF Count, Clients
      <4>1. availability \in [Clients -> Count]
        BY DEF ClientsInv, Count
      <4>2. \A c \in Clients : availability'[c] \in Count
        BY <2>3, <3>2, <4>1 DEF LoopMeasures
      <4>3. availability' = [c \in Clients |-> availability'[c]]
        BY <2>3 DEF LoopMeasures
      <4> QED BY <4>2, <4>3
    <3> QED BY <3>1, <3>3 DEF ClientsInv
  <2>4. CASE \E c \in GrowingChains : ChainGrows(c)
    <3>1. PICK c \in Clients : ChainGrows(c)
      BY <2>4, RelayerProcessAssumption
    <3>2. /\ chainBlock' = [chainBlock EXCEPT ![c] = @ + 1] /\ UNCHANGED availability
          /\ chainBlock[EthClient] + chainBlock[MultiversXClient] < MaxBlocks
      BY <3>1 DEF ChainGrows
    <3> QED BY <3>2, RelayerProcessAssumption DEF ClientsInv
  <2>5. CASE StartFails \/ CloseAll \/ Kill
    <3>1. availability' = [c \in Clients |-> NewClient] /\ UNCHANGED chainBlock
      BY <2>5 DEF StartFails, CloseAll, Kill, ProcessEnds
    <3> QED BY <1>1, <3>1 DEF ClientsInv
  <2>6. StartRelay \/ StartWebServer \/ StartPollingHandler \/ StartBroadcastJoinRetriesLoop
           \/ SomeRequest \/ StorageFlushes \/ UNCHANGED relayerVars
              => UNCHANGED clientVars
    BY DEF StartRelay, StartWebServer, StartPollingHandler, StartBroadcastJoinRetriesLoop,
       SomeRequest, RequestGasPrice, StorageFlushes, relayerVars
  <2> QED BY <2>1, <2>2, <2>3, <2>4, <2>5, <2>6, ProcessSteps, AvailabilityIsFunction
<1> QED BY <1>2, <1>3, PTL DEF ProcessSpec

\* Creating a part adds handlers at the end and removes the part from the list.
LEMMA CreationSteps ==
    ASSUME NewComponents
    PROVE  /\ phase = "creating" /\ phase' = "creating" /\ todo # <<>> /\ todo' = Tail(todo)
           /\ \/ UNCHANGED <<closableHandlers, pollingHandlers>>
              \/ /\ closableHandlers' = Append(closableHandlers, MultiversXClient)
                 /\ UNCHANGED pollingHandlers
              \/ \E name \in PartNames :
                    /\ closableHandlers' = Append(closableHandlers, name)
                    /\ pollingHandlers' = Append(pollingHandlers, name)
           /\ goroutines' = goroutines \/ goroutines' = goroutines \cup {"gasStation"}
           /\ UNCHANGED <<outlived, result, cancelFunc>>
           /\ \/ UNCHANGED statusVars /\ Head(todo) \notin {"ethToMultiversXBridge", "multiversXToEthBridge"}
              \/ Head(todo) = "ethToMultiversXBridge" /\ NewStatusHandlers({EthToMultiversX})
              \/ Head(todo) = "multiversXToEthBridge" /\ NewStatusHandlers({MultiversXToEth})
<1> USE DEF Create, AddPollingHandler
<1>1. CASE CreateKeysAndDataGetter
  BY <1>1 DEF CreateKeysAndDataGetter
<1>2. CASE CreateMultiversXRoleProvider
  BY <1>2 DEF CreateMultiversXRoleProvider, PartNames
<1>3. CASE CreateMultiversXClient
  BY <1>3 DEF CreateMultiversXClient
<1>4. CASE CreateEthereumRoleProvider
  BY <1>4 DEF CreateEthereumRoleProvider, PartNames
<1>5. CASE CreateEthereumClient
  BY <1>5 DEF CreateEthereumClient
<1>6. CASE CreateEthereumToMultiversXBridge
  BY <1>6 DEF CreateEthereumToMultiversXBridge
<1>7. CASE CreateEthereumToMultiversXStateMachine
  BY <1>7 DEF CreateEthereumToMultiversXStateMachine, PartNames
<1>8. CASE CreateMultiversXToEthereumBridge
  BY <1>8 DEF CreateMultiversXToEthereumBridge
<1>9. CASE CreateMultiversXToEthereumStateMachine
  BY <1>9 DEF CreateMultiversXToEthereumStateMachine, PartNames
<1> QED BY <1>1, <1>2, <1>3, <1>4, <1>5, <1>6, <1>7, <1>8, <1>9 DEF NewComponents

LEMMA LoopsInvHolds == ProcessSpec => []LoopsInv
<1>1. ProcessInit => LoopsInv
  <2>1. ToSet(<<>>) = {}
    BY DEF ToSet
  <2> QED BY <2>1, EmptySeq DEF ProcessInit, LoopsInv, Phases, CloseIsComplete
<1>2. ClientsInv /\ LoopsInv /\ [ProcessNext]_relayerVars => LoopsInv'
  <2> SUFFICES ASSUME ClientsInv, LoopsInv, [ProcessNext]_relayerVars PROVE LoopsInv'
    OBVIOUS
  <2> DEFINE P == ToSet(pollingHandlers)
             C == ToSet(closableHandlers)
  <2>1. CASE UNCHANGED processVars
    BY <2>1 DEF processVars, LoopsInv, CloseIsComplete
  <2>2. CASE StartRelay
    <3>1. /\ phase = "down" /\ phase' = "creating" /\ todo' = ConstructorSteps
          /\ closableHandlers' = <<"timer">> /\ pollingHandlers' = <<>> /\ outlived' = {}
          /\ UNCHANGED goroutines
      BY <2>2 DEF StartRelay
    <3>2. todo' \in Seq(PartNames) /\ closableHandlers' \in Seq(PartNames)
          /\ pollingHandlers' \in Seq(PartNames)
      BY <3>1 DEF ConstructorSteps, PartNames
    <3>3. goroutines' = {}
      BY <3>1 DEF LoopsInv
    <3>4. ToSet(pollingHandlers') = {}
      BY <3>1 DEF ToSet
    <3> QED BY <3>1, <3>2, <3>3, <3>4 DEF LoopsInv, Phases, CloseIsComplete
  <2>3. CASE NewComponents
    <3>1. /\ phase = "creating" /\ phase' = "creating" /\ todo # <<>> /\ todo' = Tail(todo)
          /\ goroutines' = goroutines \/ goroutines' = goroutines \cup {"gasStation"}
          /\ UNCHANGED <<outlived, result, cancelFunc>>
      BY <2>3, CreationSteps
    <3>2. /\ goroutines \subseteq {"gasStation"} /\ todo \in Seq(PartNames)
          /\ closableHandlers \in Seq(PartNames) /\ pollingHandlers \in Seq(PartNames)
          /\ P \subseteq C
      BY <3>1 DEF LoopsInv
    <3>3. todo' \in Seq(PartNames)
      BY <3>1, <3>2
    <3>4. /\ closableHandlers' \in Seq(PartNames) /\ pollingHandlers' \in Seq(PartNames)
          /\ ToSet(pollingHandlers') \subseteq ToSet(closableHandlers')
      <4>1. CASE UNCHANGED <<closableHandlers, pollingHandlers>>
        BY <3>2, <4>1
      <4>2. CASE /\ closableHandlers' = Append(closableHandlers, MultiversXClient)
                 /\ UNCHANGED pollingHandlers
        <5>1. MultiversXClient \in PartNames
          BY DEF PartNames
        <5>2. ToSet(closableHandlers') = C \cup {MultiversXClient}
          BY <3>2, <4>2, <5>1, ToSetAppend
        <5> QED BY <3>2, <4>2, <5>1, <5>2
      <4>3. ASSUME NEW name \in PartNames, closableHandlers' = Append(closableHandlers, name),
                   pollingHandlers' = Append(pollingHandlers, name)
            PROVE  /\ closableHandlers' \in Seq(PartNames) /\ pollingHandlers' \in Seq(PartNames)
                   /\ ToSet(pollingHandlers') \subseteq ToSet(closableHandlers')
        <5>1. ToSet(closableHandlers') = C \cup {name} /\ ToSet(pollingHandlers') = P \cup {name}
          BY <3>2, <4>3, ToSetAppend
        <5> QED BY <3>2, <4>3, <5>1
      <4> QED BY <2>3, <4>1, <4>2, <4>3, CreationSteps
    <3>5. goroutines' \subseteq {"gasStation"}
      BY <3>1, <3>2
    <3> QED BY <3>1, <3>3, <3>4, <3>5 DEF LoopsInv, Phases, OwnLoops, CloseIsComplete
  <2>4. CASE StartWebServer
    <3>1. /\ phase = "creating" /\ phase' = "starting" /\ todo' = pollingHandlers
          /\ goroutines' = goroutines \cup HttpServer
          /\ UNCHANGED <<closableHandlers, pollingHandlers, outlived, result, cancelFunc>>
      BY <2>4 DEF StartWebServer
    <3> QED BY <3>1 DEF LoopsInv, Phases, OwnLoops, CloseIsComplete, HttpServer
  <2>5. CASE StartPollingHandler
    <3>1. /\ phase = "starting" /\ phase' \in {"starting", "running"} /\ todo # <<>>
          /\ goroutines' \subseteq goroutines \cup {Head(todo), "joinLoop"} /\ todo' = Tail(todo)
          /\ UNCHANGED <<closableHandlers, pollingHandlers, outlived, result, cancelFunc>>
      BY <2>5 DEF StartPollingHandler
    <3>2. todo \in Seq(PartNames) /\ ToSet(todo) \subseteq P
      BY <3>1 DEF LoopsInv
    <3>3. Head(todo) \in P /\ ToSet(todo') \subseteq P /\ todo' \in Seq(PartNames)
      BY <3>1, <3>2, ToSetHeadTail
    <3> QED BY <3>1, <3>3 DEF LoopsInv, Phases, OwnLoops, CloseIsComplete
  <2>6. CASE StartBroadcastJoinRetriesLoop
    <3>1. /\ UNCHANGED <<phase, todo, closableHandlers, pollingHandlers, goroutines, outlived>>
          /\ "joinLoop" \in goroutines
      BY <2>6 DEF StartBroadcastJoinRetriesLoop
    <3>2. outlived = {}
      BY <3>1 DEF LoopsInv, Phases
    <3> QED BY <3>1, <3>2 DEF LoopsInv, CloseIsComplete
  <2>7. CASE StartFails \/ CloseAll \/ Kill
    <3>1. /\ phase' = "down" /\ todo' = <<>> /\ goroutines' = {}
          /\ UNCHANGED <<closableHandlers, pollingHandlers, cancelFunc>>
      BY <2>7 DEF StartFails, CloseAll, Kill, ProcessEnds
    <3>2. CloseIsComplete' /\ outlived' \subseteq P \cup OwnLoops
      <4>1. CASE StartFails \/ Kill
        <5>1. phase # "down" /\ UNCHANGED outlived
          BY <4>1 DEF StartFails, Kill
        <5> QED BY <5>1 DEF LoopsInv, CloseIsComplete
      <4>2. CASE CloseAll
        <5>1. outlived' = goroutines \ ((C \ {result'}) \cup (HttpServer \ {result'})
                                          \cup JoinLoopCancelled)
          BY <4>2 DEF CloseAll, HandlersClosed, WebServerClosed, ProcessEnds
        <5>2. P \subseteq C /\ goroutines \subseteq P \cup OwnLoops
              /\ ("webServer" \in goroutines => RestApiOn \/ "webServer" \in P)
          BY DEF LoopsInv
        <5>3. "webServer" \in goroutines => "webServer" \in HttpServer \cup C
          BY <5>2 DEF HttpServer
        <5> QED BY <3>1, <5>1, <5>2, <5>3 DEF OwnLoops, CloseIsComplete, JoinLoopCancelled
      <4> QED BY <2>7, <4>1, <4>2
    <3> QED BY <3>1, <3>2, EmptySeq DEF LoopsInv, Phases
  <2>8. SomeRequest \/ LoopMeasures \/ StorageFlushes \/ (\E c \in GrowingChains : ChainGrows(c))
           \/ UNCHANGED relayerVars => UNCHANGED processVars
    BY DEF SomeRequest, RequestGasPrice, LoopMeasures, StorageFlushes, ChainGrows, relayerVars
  <2> QED BY <2>1, <2>2, <2>3, <2>4, <2>5, <2>6, <2>7, <2>8, ProcessSteps,
              AvailabilityIsFunction
<1> QED BY <1>1, <1>2, ClientsInvHolds, PTL DEF ProcessSpec


(***************************************************************************)
(* Whichever part fails to close, and whenever the process is told to      *)
(* stop, no other polled loop outlives Close of                            *)
(* ethMultiversXBridgeComponents, since every loop startPollingHandlers    *)
(* starts is a closable handler; nor does the join loop once it has told   *)
(* how to cancel it.                                                       *)
(***************************************************************************)
THEOREM CloseStaysComplete == ProcessSpec => []CloseIsComplete
<1>1. LoopsInv => CloseIsComplete
  BY DEF LoopsInv
<1> QED BY <1>1, LoopsInvHolds, PTL

------------------------------------------------------------------------------
(* The metrics over restarts *)

\* What is left to create is what was, without the part created now.
LEMMA StillToCreate ==
    ASSUME todo \in Seq(PartNames), todo # <<>>, todo' = Tail(todo), NEW part,
           ToCreate(part), Head(todo) # part
    PROVE  ToCreate(part)'
<1>1. PICK i \in 1 .. Len(todo) : todo[i] = part
  BY DEF ToCreate
<1>2. /\ Len(todo) \in Nat /\ Head(todo) = todo[1] /\ Len(todo') = Len(todo) - 1
      /\ \A j \in 1 .. Len(todo) - 1 : todo'[j] = todo[j + 1]
  BY HeadTailProperties
<1>3. i - 1 \in 1 .. Len(todo') /\ todo'[i - 1] = part
  BY <1>1, <1>2
<1> QED BY <1>3 DEF ToCreate

LEMMA HandlersInvHolds == ProcessSpec => []HandlersInv
<1> DEFINE Inv == ClientsInv /\ LoopsInv /\ HandlersInv
<1>1. ProcessInit => HandlersInv
  BY DEF ProcessInit, StatusInit, HandlersInv
<1>2. Inv /\ [ProcessNext]_relayerVars => HandlersInv'
  <2> SUFFICES ASSUME ClientsInv, LoopsInv, HandlersInv, [ProcessNext]_relayerVars
               PROVE  HandlersInv'
    OBVIOUS
  <2>1. CASE UNCHANGED <<processVars, statusHandlers>>
    BY <2>1 DEF processVars, HandlersInv, ToCreate
  <2>2. CASE StartRelay
    <3>1. /\ phase' = "creating" /\ todo' = ConstructorSteps
          /\ statusHandlers' = statusHandlers \cup {EthClient, MultiversXClient}
      BY <2>2 DEF StartRelay, NewStatusHandlers
    <3>2. Len(ConstructorSteps) = 9 /\ ConstructorSteps[6] = "ethToMultiversXBridge"
          /\ ConstructorSteps[8] = "multiversXToEthBridge"
      BY DEF ConstructorSteps
    <3>3. ToCreate("ethToMultiversXBridge")' /\ ToCreate("multiversXToEthBridge")'
      BY <3>1, <3>2 DEF ToCreate
    <3> QED BY <3>1, <3>3 DEF HandlersInv, Handlers, Clients
  <2>3. CASE NewComponents
    <3>1. /\ phase = "creating" /\ phase' = "creating" /\ todo # <<>> /\ todo' = Tail(todo)
          /\ todo \in Seq(PartNames)
      BY <2>3, CreationSteps DEF LoopsInv
    <3>2. /\ \/ UNCHANGED statusHandlers
                /\ Head(todo) \notin {"ethToMultiversXBridge", "multiversXToEthBridge"}
             \/ /\ Head(todo) = "ethToMultiversXBridge"
                /\ statusHandlers' = statusHandlers \cup {EthToMultiversX}
             \/ /\ Head(todo) = "multiversXToEthBridge"
                /\ statusHandlers' = statusHandlers \cup {MultiversXToEth}
      BY <2>3, CreationSteps DEF NewStatusHandlers, statusVars
    <3>3. EthToMultiversX \in statusHandlers' \/ ToCreate("ethToMultiversXBridge")'
      BY <3>1, <3>2, StillToCreate DEF HandlersInv
    <3>4. MultiversXToEth \in statusHandlers' \/ ToCreate("multiversXToEthBridge")'
      BY <3>1, <3>2, StillToCreate DEF HandlersInv
    <3>5. statusHandlers \subseteq Handlers /\ Clients \subseteq statusHandlers
      BY <3>1 DEF HandlersInv
    <3>6. statusHandlers' \subseteq Handlers /\ Clients \subseteq statusHandlers'
      BY <3>2, <3>5 DEF Handlers
    <3> QED BY <3>1, <3>3, <3>4, <3>6 DEF HandlersInv
  <2>4. CASE StartWebServer
    <3>1. phase = "creating" /\ todo = <<>> /\ phase' = "starting" /\ UNCHANGED statusHandlers
      BY <2>4 DEF StartWebServer, statusVars
    <3>2. ~ToCreate("ethToMultiversXBridge") /\ ~ToCreate("multiversXToEthBridge")
      BY <3>1 DEF ToCreate
    <3>3. statusHandlers = Handlers
      BY <3>1, <3>2 DEF HandlersInv, Handlers, Clients
    <3> QED BY <3>1, <3>3 DEF HandlersInv
  <2>5. CASE StartPollingHandler \/ StartBroadcastJoinRetriesLoop
    <3>1. phase \in {"starting", "running"}
      BY <2>5 DEF StartPollingHandler, StartBroadcastJoinRetriesLoop, LoopsInv, Phases
    <3>2. phase' \in {"starting", "running"} /\ UNCHANGED statusHandlers
      BY <2>5, <3>1 DEF StartPollingHandler, StartBroadcastJoinRetriesLoop, statusVars
    <3> QED BY <3>1, <3>2 DEF HandlersInv
  <2>6. CASE StartFails \/ CloseAll \/ Kill
    <3>1. phase' = "down" /\ statusHandlers' = {}
      BY <2>6 DEF StartFails, CloseAll, Kill, ProcessEnds, ForgetMetrics
    <3> QED BY <3>1 DEF HandlersInv
  <2>7. SomeRequest \/ LoopMeasures \/ StorageFlushes \/ (\E c \in GrowingChains : ChainGrows(c))
           \/ UNCHANGED relayerVars => UNCHANGED <<processVars, statusHandlers>>
    BY DEF SomeRequest, RequestGasPrice, LoopMeasures, MetricsWritten, SetMetrics, ChainGrows,
       StorageFlushes, FlushBatch, FlushFails, relayerVars, statusVars
  <2> QED BY <2>1, <2>2, <2>3, <2>4, <2>5, <2>6, <2>7, ProcessSteps, AvailabilityIsFunction
<1> QED BY <1>1, <1>2, ClientsInvHolds, LoopsInvHolds, PTL DEF ProcessSpec


\* Persisting twice is persisting once.
LEMMA NeededOnce ==
    ASSUME NEW m
    PROVE  /\ Needed(Needed(m)) = Needed(m)
           /\ DOMAIN Needed(m) \subseteq PersistedMetrics
<1>1. /\ DOMAIN Needed(m) = {name \in DOMAIN m : ShouldPersistMetric(name)}
      /\ Needed(m) = [x \in DOMAIN Needed(m) |-> m[x]]
  BY DEF Needed, Restrict
<1>2. {name \in DOMAIN Needed(m) : ShouldPersistMetric(name)} = DOMAIN Needed(m)
  BY <1>1
<1>3. Needed(Needed(m)) = [x \in DOMAIN Needed(m) |-> Needed(m)[x]]
  BY <1>2 DEF Needed, Restrict
<1>4. \A x \in DOMAIN Needed(m) : Needed(m)[x] = m[x]
  BY <1>1
<1>5. Needed(Needed(m)) = Needed(m)
  BY <1>1, <1>3, <1>4
<1> QED BY <1>1, <1>5 DEF ShouldPersistMetric

\* A metric that is not persisted changes nothing of what is.
LEMMA NeededUnchanged ==
    ASSUME NEW m, NEW updates, ~Persisted(updates)
    PROVE  Needed(Updated(m, updates)) = Needed(m)
<1> DEFINE u == Updated(m, updates)
           D == {name \in DOMAIN m : ShouldPersistMetric(name)}
<1>1. /\ DOMAIN u = DOMAIN m \cup DOMAIN updates
      /\ \A n \in DOMAIN u : u[n] = IF n \in DOMAIN updates THEN updates[n] ELSE m[n]
  BY DEF Updated
<1>2. \A n \in DOMAIN updates : n \notin PersistedMetrics
  BY DEF Persisted
<1> HIDE DEF u
<1>3. {name \in DOMAIN u : ShouldPersistMetric(name)} = D
  BY <1>1, <1>2 DEF ShouldPersistMetric
<1>4. \A n \in D : u[n] = m[n]
  BY <1>1, <1>2 DEF ShouldPersistMetric
<1>5. [x \in D |-> u[x]] = [x \in D |-> m[x]]
  BY <1>4
<1>6. Needed(u) = [x \in D |-> u[x]] /\ Needed(m) = [x \in D |-> m[x]]
  BY <1>3 DEF Needed, Restrict
<1> QED BY <1>5, <1>6 DEF u

(***************************************************************************)
(* A queued write is what its handler shows; the database has what was     *)
(* shown at the last flush, and what is shown now if the handler has no    *)
(* write queued or lost since.                                             *)
(***************************************************************************)
MetricsInv ==
    /\ DOMAIN queued \subseteq statusHandlers \ unsaved
    /\ \A h \in DOMAIN queued : queued[h] = Needed(metrics[h])
    /\ \A h \in Handlers : storage[h] = Needed(storage[h]) /\ storage[h] = atFlush[h]
    /\ \A h \in Handlers :
          h \in statusHandlers \ (DOMAIN queued \cup unsaved) => storage[h] = Needed(metrics[h])

LEMMA MetricsWrittenKeep ==
    ASSUME MetricsInv, MetricsWritten, statusHandlers = Handlers
    PROVE  MetricsInv'
<1>1. PICK updates : DOMAIN updates \subseteq Handlers /\ SetMetrics(updates)
  BY DEF MetricsWritten
<1> DEFINE writing == {h \in DOMAIN updates : Persisted(updates[h])}
<1>2. UNCHANGED <<statusHandlers, storage, atFlush>> /\ unsaved' = unsaved \ writing
  BY <1>1 DEF SetMetrics
<1>3. /\ DOMAIN queued' = DOMAIN queued \cup writing
      /\ \A h \in DOMAIN queued' :
            queued'[h] = IF h \in writing THEN Saved(metrics[h], updates[h]) ELSE queued[h]
  BY <1>1 DEF SetMetrics
<1>4. ASSUME NEW h \in Handlers
      PROVE  metrics'[h] = IF h \in DOMAIN updates THEN Updated(metrics[h], updates[h])
                           ELSE metrics[h]
  BY <1>1 DEF SetMetrics
<1>5. ASSUME NEW h \in Handlers, h \notin writing
      PROVE  Needed(metrics'[h]) = Needed(metrics[h])
  <2>1. CASE h \in DOMAIN updates
    <3>1. ~Persisted(updates[h]) /\ metrics'[h] = Updated(metrics[h], updates[h])
      BY <1>4, <1>5, <2>1
    <3> QED BY <3>1, NeededUnchanged
  <2>2. CASE h \notin DOMAIN updates
    BY <1>4, <2>2
  <2> QED BY <2>1, <2>2
<1>6. writing \subseteq Handlers
  BY <1>1
<1>7. ASSUME NEW h \in DOMAIN queued' PROVE queued'[h] = Needed(metrics'[h])
  <2>1. CASE h \in writing
    BY <1>3, <1>4, <1>6, <2>1 DEF Saved
  <2>2. CASE h \notin writing
    <3>1. h \in DOMAIN queued /\ h \in Handlers /\ queued'[h] = queued[h]
      BY <1>3, <1>7, <2>2 DEF MetricsInv
    <3> QED BY <1>5, <2>2, <3>1 DEF MetricsInv
  <2> QED BY <2>1, <2>2
<1>8. DOMAIN queued' \subseteq statusHandlers' \ unsaved'
  BY <1>2, <1>3, <1>6 DEF MetricsInv
<1>9. ASSUME NEW h \in Handlers, h \notin DOMAIN queued' \cup unsaved'
      PROVE  storage'[h] = Needed(metrics'[h])
  <2>1. h \notin writing /\ h \notin DOMAIN queued \cup unsaved
    BY <1>2, <1>3, <1>9
  <2> QED BY <1>2, <1>5, <2>1 DEF MetricsInv
<1> HIDE DEF writing
<1> QED BY <1>2, <1>7, <1>8, <1>9 DEF MetricsInv

LEMMA FlushKeeps ==
    ASSUME MetricsInv, FlushBatch, statusHandlers \subseteq Handlers
    PROVE  MetricsInv'
<1>1. UNCHANGED <<statusHandlers, metrics, unsaved>> /\ DOMAIN queued' = {}
  BY DEF FlushBatch, NoWrites
<1>2. ASSUME NEW h \in Handlers
      PROVE  /\ storage'[h] = Needed(storage'[h])
             /\ storage'[h] = atFlush'[h]
             /\ h \in statusHandlers \ unsaved => storage'[h] = Needed(metrics[h])
  <2>1. /\ storage'[h] = IF h \in DOMAIN queued THEN queued[h] ELSE storage[h]
        /\ atFlush'[h] = IF h \in statusHandlers \ unsaved THEN Needed(metrics[h]) ELSE atFlush[h]
    BY DEF FlushBatch
  <2>2. CASE h \in DOMAIN queued
    <3>1. storage'[h] = Needed(metrics[h]) /\ h \in statusHandlers \ unsaved
      BY <2>1, <2>2 DEF MetricsInv
    <3> QED BY <2>1, <3>1, NeededOnce
  <2>3. CASE h \notin DOMAIN queued
    BY <2>1, <2>3 DEF MetricsInv
  <2> QED BY <2>2, <2>3
<1> QED BY <1>1, <1>2 DEF MetricsInv

LEMMA FailedFlushKeeps ==
    ASSUME MetricsInv, FlushFails
    PROVE  MetricsInv'
<1>1. /\ UNCHANGED <<statusHandlers, metrics, storage, atFlush>> /\ DOMAIN queued' = {}
      /\ unsaved' = unsaved \cup DOMAIN queued
  BY DEF FlushFails, NoWrites
<1> QED BY <1>1 DEF MetricsInv

LEMMA NewHandlersKeep ==
    ASSUME MetricsInv, NEW names, names \subseteq Handlers, NewStatusHandlers(names),
           statusHandlers \subseteq Handlers
    PROVE  MetricsInv'
<1>1. /\ statusHandlers' = statusHandlers \cup names /\ names \cap statusHandlers = {}
      /\ UNCHANGED <<queued, storage, unsaved, atFlush>>
  BY DEF NewStatusHandlers
<1>2. ASSUME NEW h \in Handlers
      PROVE  metrics'[h] = IF h \in names THEN Needed(storage[h]) ELSE metrics[h]
  BY DEF NewStatusHandlers
<1>3. ASSUME NEW h \in DOMAIN queued PROVE queued'[h] = Needed(metrics'[h])
  <2>1. h \in Handlers /\ h \notin names /\ queued[h] = Needed(metrics[h])
    BY <1>1, <1>3 DEF MetricsInv
  <2> QED BY <1>1, <1>2, <2>1
<1>4. ASSUME NEW h \in Handlers, h \in statusHandlers' \ (DOMAIN queued \cup unsaved)
      PROVE  storage'[h] = Needed(metrics'[h])
  <2>1. CASE h \in names
    <3>1. metrics'[h] = storage[h] /\ storage[h] = Needed(storage[h])
      BY <1>2, <2>1 DEF MetricsInv
    <3> QED BY <1>1, <3>1
  <2>2. CASE h \notin names
    BY <1>1, <1>2, <1>4, <2>2 DEF MetricsInv
  <2> QED BY <2>1, <2>2
<1> QED BY <1>1, <1>3, <1>4 DEF MetricsInv

LEMMA ForgettingKeeps ==
    ASSUME MetricsInv, ForgetMetrics
    PROVE  MetricsInv'
<1>1. /\ UNCHANGED <<storage, atFlush>> /\ statusHandlers' = {} /\ DOMAIN queued' = {}
  BY DEF ForgetMetrics, NoWrites
<1> QED BY <1>1 DEF MetricsInv

\* A loop that writes metrics runs when all status handlers exist.
LEMMA WritersHaveHandlers ==
    ASSUME LoopsInv, HandlersInv, LoopMeasures
    PROVE  statusHandlers = Handlers
<1>1. goroutines # {} /\ ~(goroutines \subseteq {"gasStation"})
  BY DEF LoopMeasures, Machines, EthToMultiversX, MultiversXToEth
<1>2. phase \in {"starting", "running"}
  BY <1>1 DEF LoopsInv, Phases
<1> QED BY <1>2 DEF HandlersInv

LEMMA MetricsInvHolds == ProcessSpec => []MetricsInv
<1> DEFINE Inv == ClientsInv /\ LoopsInv /\ HandlersInv /\ MetricsInv
<1>1. ProcessInit => MetricsInv
  <2>1. Needed(NoMetrics) = NoMetrics
    BY DEF Needed, Restrict, NoMetrics
  <2>2. DOMAIN NoWrites = {}
    BY DEF NoWrites
  <2> QED BY <2>1, <2>2 DEF ProcessInit, StatusInit, MetricsInv
<1>2. Inv /\ [ProcessNext]_relayerVars => MetricsInv'
  <2> SUFFICES ASSUME ClientsInv, LoopsInv, HandlersInv, MetricsInv, [ProcessNext]_relayerVars
               PROVE  MetricsInv'
    OBVIOUS
  <2>1. CASE UNCHANGED statusVars
    BY <2>1 DEF statusVars, MetricsInv
  <2>2. CASE StartRelay
    BY <2>2, NewHandlersKeep DEF StartRelay, Handlers, HandlersInv
  <2>3. CASE NewComponents
    <3>1. \/ UNCHANGED statusVars \/ NewStatusHandlers({EthToMultiversX})
          \/ NewStatusHandlers({MultiversXToEth})
      BY <2>3, CreationSteps
    <3>2. /\ {EthToMultiversX} \subseteq Handlers /\ {MultiversXToEth} \subseteq Handlers
          /\ statusHandlers \subseteq Handlers
      BY DEF Handlers, HandlersInv
    <3> QED BY <2>1, <3>1, <3>2, NewHandlersKeep
  <2>4. CASE LoopMeasures
    <3>1. MetricsWritten /\ statusHandlers = Handlers
      BY <2>4, WritersHaveHandlers DEF LoopMeasures
    <3> QED BY <3>1, MetricsWrittenKeep
  <2>5. CASE StartFails \/ CloseAll \/ Kill
    BY <2>5, ForgettingKeeps DEF StartFails, CloseAll, Kill, ProcessEnds
  <2>6. CASE StorageFlushes
    BY <2>6, FlushKeeps, FailedFlushKeeps DEF StorageFlushes, HandlersInv
  <2>7. StartWebServer \/ StartPollingHandler \/ StartBroadcastJoinRetriesLoop
           \/ SomeRequest \/ (\E c \in GrowingChains : ChainGrows(c)) \/ UNCHANGED relayerVars
              => UNCHANGED statusVars
    BY DEF StartWebServer, StartPollingHandler, StartBroadcastJoinRetriesLoop,
       SomeRequest, RequestGasPrice, ChainGrows, relayerVars
  <2> QED BY <2>1, <2>2, <2>3, <2>4, <2>5, <2>6, <2>7, ProcessSteps, AvailabilityIsFunction
<1> QED BY <1>1, <1>2, ClientsInvHolds, LoopsInvHolds, HandlersInvHolds, PTL DEF ProcessSpec

(***************************************************************************)
(* A status handler created after a restart has all persisted metrics as   *)
(* they were at the storage unit's last flush, or one flush earlier if its *)
(* write was lost with a batch: however often and in whichever phase the   *)
(* process ended, that costs what was set since and nothing else           *)
(* (persistChanges, tryLoadPersistedData, CreateUnitStorer).               *)
(***************************************************************************)
THEOREM MetricsSurviveRestarts == ProcessSpec => RestartKeepsMetrics
<1> DEFINE Kept == \A h \in StatusListMetrics' \ StatusListMetrics :
                      StatusMetrics(h)' = atFlush[h]
<1> USE DEF StatusListMetrics, GetAvailableStatusHandlers
<1>1. ASSUME MetricsInv, NEW names, names \subseteq Handlers, NewStatusHandlers(names)
      PROVE  Kept
  <2> SUFFICES ASSUME NEW h \in statusHandlers' \ statusHandlers
               PROVE  StatusMetrics(h)' = atFlush[h]
    OBVIOUS
  <2>1. h \in names /\ h \in Handlers /\ metrics'[h] = Needed(storage[h])
    BY <1>1 DEF NewStatusHandlers
  <2>2. StatusMetrics(h)' = metrics'[h]
    BY DEF StatusMetrics, GetAllMetrics
  <2> QED BY <1>1, <2>1, <2>2 DEF MetricsInv
<1>2. ASSUME ClientsInv, MetricsInv, [ProcessNext]_relayerVars
      PROVE  [Kept]_relayerVars
  <2>1. ASSUME statusHandlers' \subseteq statusHandlers PROVE Kept
    BY <2>1
  <2>2. CASE StartRelay
    BY <1>1, <1>2, <2>2 DEF StartRelay, Handlers
  <2>3. CASE NewComponents
    <3>1. \/ UNCHANGED statusVars \/ NewStatusHandlers({EthToMultiversX})
          \/ NewStatusHandlers({MultiversXToEth})
      BY <2>3, CreationSteps
    <3>2. {EthToMultiversX} \subseteq Handlers /\ {MultiversXToEth} \subseteq Handlers
      BY DEF Handlers
    <3>3. UNCHANGED statusVars => statusHandlers' \subseteq statusHandlers
      BY DEF statusVars
    <3> HIDE DEF Kept
    <3> QED BY <1>1, <1>2, <2>1, <3>1, <3>2, <3>3
  <2>4. CASE StartFails \/ CloseAll \/ Kill
    <3>1. statusHandlers' \subseteq statusHandlers
      BY <2>4 DEF StartFails, CloseAll, Kill, ProcessEnds, ForgetMetrics
    <3> QED BY <2>1, <3>1
  <2>5. StartWebServer \/ StartPollingHandler \/ StartBroadcastJoinRetriesLoop
           \/ SomeRequest \/ LoopMeasures \/ StorageFlushes \/ (\E c \in GrowingChains : ChainGrows(c))
           \/ UNCHANGED relayerVars => statusHandlers' \subseteq statusHandlers
    BY DEF StartWebServer, StartPollingHandler, StartBroadcastJoinRetriesLoop,
       SomeRequest, RequestGasPrice, ChainGrows, LoopMeasures, MetricsWritten, SetMetrics,
       StorageFlushes, FlushBatch, FlushFails, relayerVars, statusVars
  <2> HIDE DEF Kept
  <2> QED BY <1>2, <2>1, <2>2, <2>3, <2>4, <2>5, ProcessSteps, AvailabilityIsFunction
<1> QED BY <1>2, ClientsInvHolds, MetricsInvHolds, PTL DEF ProcessSpec, RestartKeepsMetrics

------------------------------------------------------------------------------
\* Every field of the relayer's parts has values of its type in every reachable state.
THEOREM ServicesTypeCorrect == ProcessSpec => []ServicesTypeOK
<1>1. MetricsInv => /\ DOMAIN queued \subseteq statusHandlers
                    /\ \A h \in DOMAIN queued : DOMAIN queued[h] \subseteq PersistedMetrics
                    /\ \A h \in Handlers : DOMAIN storage[h] \subseteq PersistedMetrics
  BY NeededOnce DEF MetricsInv
<1>2. PriceInv /\ ClientsInv /\ LoopsInv /\ MetricsInv => ServicesTypeOK
  BY <1>1 DEF PriceInv, ClientsInv, LoopsInv, ServicesTypeOK, Phases, OwnLoops, CloseIsComplete
<1> QED BY <1>2, PriceInvHolds, ClientsInvHolds, LoopsInvHolds, MetricsInvHolds, PTL
==============================================================================
