------------------------------ MODULE GasStation ------------------------------
(***************************************************************************)
(* bridge/clients/gasManagement/gasStation.go: the goroutine that polls a  *)
(* gas price service, and the price it offers to executeTransfer           *)
(* transactions.  Prices are integers, of the selector in use.             *)
(***************************************************************************)
EXTENDS Integers

CONSTANTS
    GasPrices,              \* prices the service may quote
    MaximumFetchRetries,
    MaximumGasPrice,
    GasPriceMultiplier

\* checkArgs, without the durations.
GasStationArgsOK ==
    /\ MaximumFetchRetries \in Nat /\ MaximumFetchRetries >= 2
    /\ GasPriceMultiplier \in Nat \ {0}
    /\ MaximumGasPrice \in Int

ASSUME GasStationAssumption == GasStationArgsOK /\ GasPrices \subseteq Nat

VARIABLES
    latestGasPrice,
    fetchRetries,
    lastAnswer              \* history: what the service said last, Unreadable before that

gasVars == <<latestGasPrice, fetchRetries, lastAnswer>>

NotFetched == -1            \* latestGasPrice before the first answer
Unreadable == -2            \* an answer whose price is not a number
NoAnswer == -3              \* the request fails, times out or is no JSON

\* NewGasStation; its goroutine runs from now on.
NewGasStation ==
    /\ latestGasPrice' = NotFetched
    /\ fetchRetries' = 0
    /\ lastAnswer' = Unreadable

\* Mutant of PriceAfter: an unreadable price leaves the last one in place.
PriceAfterKept(answer) ==
    IF answer \in {NoAnswer, Unreadable} THEN latestGasPrice ELSE answer

\* doRequest: the price is forgotten before the new one is parsed.
PriceAfter(answer) ==
    CASE answer = NoAnswer -> latestGasPrice
      [] answer = Unreadable -> NotFetched
      [] OTHER -> answer

\* doRequestReturningBytes and json.Unmarshal
Answered(answer) == lastAnswer' = IF answer = NoAnswer THEN lastAnswer ELSE answer

\* Mutant of DoRequestWithRetryMechanism: no request after the last retry.
DoRequestUntilMaxRetries(answer) ==
    /\ fetchRetries <= MaximumFetchRetries
    /\ latestGasPrice' = PriceAfter(answer)
    /\ Answered(answer)
    /\ fetchRetries' = IF answer \in {NoAnswer, Unreadable} THEN fetchRetries + 1 ELSE 0

\* The loop waits for the retry delay while fetchRetries counts, else for the polling interval.
DoRequestWithRetryMechanism(answer) ==
    /\ latestGasPrice' = PriceAfter(answer)
    /\ Answered(answer)
    /\ fetchRetries' =
          IF answer \in {NoAnswer, Unreadable} /\ fetchRetries < MaximumFetchRetries
          THEN fetchRetries + 1
          ELSE 0

\* No price is an error, and so is one above the maximum.
HasGasPrice == latestGasPrice # NotFetched /\ latestGasPrice <= MaximumGasPrice

GetCurrentGasPrice == latestGasPrice * GasPriceMultiplier

GasStationTypeOK ==
    /\ latestGasPrice \in GasPrices \cup {NotFetched}
    /\ fetchRetries \in 0 .. MaximumFetchRetries
    /\ lastAnswer \in GasPrices \cup {Unreadable}
===============================================================================
