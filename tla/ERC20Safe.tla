------------------------------ MODULE ERC20Safe ------------------------------
(***************************************************************************)
(* The Ethereum safe of sol/contracts/ERC20Safe.sol.  Users deposit ERC20  *)
(* tokens, which are collected in batches for the relayers to read; the    *)
(* Bridge contract pays out the transfers that come from MultiversX.       *)
(*                                                                         *)
(* A call that reverts changes nothing, so a function is an action whose   *)
(* guard is the conjunction of its require()s and of the checked           *)
(* arithmetic.  The ERC20 token contracts are external: erc20Balance is    *)
(* their balanceOf(safe).  Fees are given in token units, so the           *)
(* multiplication of maxServiceFee by 10**decimals is left out.            *)
(***************************************************************************)
EXTENDS Integers, Sequences, FiniteSets, SequencesExt


CONSTANTS
    Tokens,             \* ERC20 token contracts
    DepositRecipients,  \* MultiversX destinations of deposits
    EthRecipients,      \* destinations of MultiversX -> Ethereum transfers
    DepositAmounts,     \* amounts of deposits, of initial supplies and of gifts
    TokenLimits,        \* [min, max] records the admin may set for a token
    EthServiceFees,     \* [pct, max] records the admin may set
    FullPercent,        \* fullPercent
    EthBatchSizes,      \* values passed to setBatchSize
    BlockLimits,        \* values passed to setBatchBlockLimit
    SettleLimits,       \* values passed to setBatchSettleLimit
    InitialBlockLimit,
    InitialSettleLimit,
    MaxBatchSize,       \* maxBatchSize
    MaxDeposits,        \* bound: deposits ever made
    MaxGifts,           \* bound: initial supplies and tokens sent directly
    MaxEthBlock,        \* bound: last block of the Ethereum chain
    EthSwitches         \* the operations that happen in an instance

ASSUME ERC20SafeAssumption ==
    /\ DepositAmounts \subseteq Nat
    /\ TokenLimits \subseteq [min : Nat, max : Nat]
    /\ FullPercent \in Nat \ {0}
    /\ EthServiceFees \subseteq [pct : 0 .. FullPercent, max : Nat]
    /\ EthBatchSizes \subseteq Nat
    /\ BlockLimits \subseteq Nat
    /\ SettleLimits \subseteq Nat
    /\ InitialSettleLimit \in Nat
    /\ InitialBlockLimit \in 0 .. InitialSettleLimit
    /\ MaxBatchSize \in Nat
    /\ MaxDeposits \in Nat
    /\ MaxGifts \in Nat
    /\ MaxEthBlock \in Nat

VARIABLES
    ethBlock,           \* block.number
    erc20Paused,        \* the safe's _paused
    whitelistedTokens,
    tokenLimits,        \* tokenMinLimits and tokenMaxLimits
    ethServiceFee,      \* serviceFeePercentage and maxServiceFee
    batchSize,
    batchBlockLimit,
    batchSettleLimit,
    batches,            \* batches with batchDeposits, the one with nonce n at n
    depositsCount,
    tokenBalances,
    serviceFees,        \* one counter for all tokens
    erc20Balance,       \* external: what each token says the safe owns
    supplied,           \* history: tokens booked by initSupply
    gifts,              \* history: tokens sent directly to the contract
    recovered           \* history: tokens taken out by recoverLostFunds

erc20ConfigVars == <<erc20Paused, whitelistedTokens, tokenLimits, ethServiceFee,
                     batchSize, batchBlockLimit, batchSettleLimit>>
depositVars == <<batches, depositsCount>>
erc20TokenVars == <<tokenBalances, serviceFees, erc20Balance, supplied,
                    gifts, recovered>>
erc20Vars == <<erc20ConfigVars, depositVars, erc20TokenVars>>

Deposit == [nonce : Nat, token : Tokens, amount : Nat, recipient : DepositRecipients]
Batch == [blockNumber : Nat, lastUpdatedBlockNumber : Nat, deposits : Seq(Deposit)]

------------------------------------------------------------------------------
(* Batches *)

\* Mutant of IsBatchFinalEth: a batch is final one block too early.
IsBatchFinalEthEarly(batch) == batch.lastUpdatedBlockNumber + batchSettleLimit <= ethBlock

\* _isBatchFinal: getBatch and getDeposits answer for this batch.
IsBatchFinalEth(batch) == batch.lastUpdatedBlockNumber + batchSettleLimit < ethBlock

\* _isBatchProgessOver
IsBatchProgressOver(batch) ==
    /\ batch.deposits # <<>>
    /\ batch.blockNumber + batchBlockLimit < ethBlock

\* _shouldCreateNewBatch
ShouldCreateNewBatch ==
    \/ batches = <<>>
    \/ IsBatchProgressOver(batches[Len(batches)])
    \/ Len(batches[Len(batches)].deposits) >= batchSize

IsAnyBatchInProgress ==
    /\ batches # <<>>
    /\ \/ ~ShouldCreateNewBatch
       \/ ~IsBatchFinalEth(batches[Len(batches)])

\* _deductServiceFee: the fee kept back from a deposit, with the fee settings config.
FeeOf(amount, config) ==
    LET share == (amount * config.pct) \div FullPercent IN
    IF share > config.max THEN config.max ELSE share

DeductedFee(amount) == FeeOf(amount, ethServiceFee)

------------------------------------------------------------------------------
(* Users *)

\* Mutant of DepositNonce: nonces are given per batch.
DepositNonceInBatch ==
    IF ShouldCreateNewBatch THEN 1 ELSE Len(batches[Len(batches)].deposits) + 1

DepositNonce == depositsCount + 1

DepositTokens(token, amount, recipient) ==
    LET fee == DeductedFee(amount)
        new == [nonce |-> DepositNonce, token |-> token, amount |-> amount - fee,
                recipient |-> recipient]
        last == batches[Len(batches)]
    IN  /\ ~erc20Paused
        /\ token \in whitelistedTokens
        /\ amount >= tokenLimits[token].min
        /\ amount <= tokenLimits[token].max
        /\ depositsCount < MaxDeposits
        /\ batches' =
              IF ShouldCreateNewBatch
              THEN Append(batches, [blockNumber |-> ethBlock,
                                    lastUpdatedBlockNumber |-> ethBlock,
                                    deposits |-> <<new>>])
              ELSE [batches EXCEPT ![Len(batches)] =
                      [last EXCEPT !.lastUpdatedBlockNumber = ethBlock,
                                   !.deposits = Append(@, new)]]
        /\ depositsCount' = depositsCount + 1
        /\ serviceFees' = serviceFees + fee
        /\ tokenBalances' = [tokenBalances EXCEPT ![token] = @ + new.amount]
        /\ erc20Balance' = [erc20Balance EXCEPT ![token] = @ + amount]
        /\ UNCHANGED <<erc20ConfigVars, supplied, gifts, recovered>>

\* External: somebody calls the token's own transfer with the safe as receiver.
SendDirectly(token, amount) ==
    /\ gifts[token] + amount <= MaxGifts
    /\ gifts' = [gifts EXCEPT ![token] = @ + amount]
    /\ erc20Balance' = [erc20Balance EXCEPT ![token] = @ + amount]
    /\ UNCHANGED <<erc20ConfigVars, depositVars, tokenBalances, serviceFees,
                   supplied, recovered>>

\* Mutant of ClaimServiceFees: the fees can be claimed again.
ClaimServiceFeesWithoutReset(token) ==
    /\ token \in whitelistedTokens
    /\ serviceFees <= erc20Balance[token]
    /\ erc20Balance' = [erc20Balance EXCEPT ![token] = @ - serviceFees]
    /\ UNCHANGED <<erc20ConfigVars, depositVars, tokenBalances, serviceFees, supplied,
                   gifts, recovered>>

\* Anybody may call it; the tokens go to serviceFeeReceiver.
ClaimServiceFees(token) ==
    /\ token \in whitelistedTokens
    /\ serviceFees <= erc20Balance[token]
    /\ serviceFees' = 0
    /\ erc20Balance' = [erc20Balance EXCEPT ![token] = @ - serviceFees]
    /\ UNCHANGED <<erc20ConfigVars, depositVars, tokenBalances, supplied, gifts,
                   recovered>>

------------------------------------------------------------------------------
(* The Bridge contract *)

\* Mutant of Transfer: the books are not protected against underflow.
TransferUnchecked(acc, t, refused) ==
    IF t.recipient \notin refused /\ t.amount <= acc.erc20[t.token]
    THEN [acc EXCEPT !.erc20[t.token] = @ - t.amount,
                     !.tokenBalances[t.token] = @ - t.amount,
                     !.statuses = Append(@, "Executed")]
    ELSE [acc EXCEPT !.statuses = Append(@, "Rejected")]

\* Mutant of Transfer: a refused transfer is booked all the same.
TransferBookingRefused(acc, t, refused) ==
    LET ok == t.recipient \notin refused /\ t.amount <= acc.erc20[t.token] IN
    [reverted |-> acc.reverted \/ t.amount > acc.tokenBalances[t.token],
     erc20 |-> [acc.erc20 EXCEPT ![t.token] = IF ok THEN @ - t.amount ELSE @],
     tokenBalances |-> [acc.tokenBalances EXCEPT ![t.token] = @ - t.amount],
     statuses |-> Append(acc.statuses, IF ok THEN "Executed" ELSE "Rejected")]

(***************************************************************************)
(* One call of transfer(), on the balances acc and with the recipients the *)
(* token refuses at the moment.  A transfer the token carries out but that *)
(* exceeds tokenBalances reverts the whole call: acc.reverted.             *)
(***************************************************************************)
Transfer(acc, t, refused) ==
    LET ok == t.recipient \notin refused /\ t.amount <= acc.erc20[t.token] IN
    IF ok
    THEN [reverted |-> acc.reverted \/ t.amount > acc.tokenBalances[t.token],
          erc20 |-> [acc.erc20 EXCEPT ![t.token] = @ - t.amount],
          tokenBalances |-> [acc.tokenBalances EXCEPT ![t.token] = @ - t.amount],
          statuses |-> Append(acc.statuses, "Executed")]
    ELSE [acc EXCEPT !.statuses = Append(@, "Rejected")]

\* The balances and statuses after each of the calls executeTransfer makes, in order.
TransferSteps(transfers, refused) ==
    LET acc[n \in 0 .. Len(transfers)] ==
            IF n = 0
            THEN [reverted |-> FALSE, erc20 |-> erc20Balance,
                  tokenBalances |-> tokenBalances, statuses |-> <<>>]
            ELSE Transfer(acc[n - 1], transfers[n], refused)
    IN  acc

TransferAll(transfers, refused) == TransferSteps(transfers, refused)[Len(transfers)]

------------------------------------------------------------------------------
(* Admin *)

InitSupply(token, amount) ==
    /\ token \in whitelistedTokens
    /\ supplied[token] + amount <= MaxGifts
    /\ supplied' = [supplied EXCEPT ![token] = @ + amount]
    /\ tokenBalances' = [tokenBalances EXCEPT ![token] = @ + amount]
    /\ erc20Balance' = [erc20Balance EXCEPT ![token] = @ + amount]
    /\ UNCHANGED <<erc20ConfigVars, depositVars, serviceFees, gifts, recovered>>

RecoverLostFunds(token) ==
    LET kept == IF token \in whitelistedTokens THEN tokenBalances[token] ELSE 0 IN
    /\ kept <= erc20Balance[token]
    /\ erc20Balance' = [erc20Balance EXCEPT ![token] = kept]
    /\ recovered' = [recovered EXCEPT ![token] = @ + erc20Balance[token] - kept]
    /\ UNCHANGED <<erc20ConfigVars, depositVars, tokenBalances, serviceFees,
                   supplied, gifts>>

WhitelistToken(token, limits) ==
    /\ whitelistedTokens' = whitelistedTokens \cup {token}
    /\ tokenLimits' = [tokenLimits EXCEPT ![token] = limits]
    /\ UNCHANGED <<erc20Paused, ethServiceFee, batchSize, batchBlockLimit,
                   batchSettleLimit, depositVars, erc20TokenVars>>

RemoveTokenFromWhitelist(token) ==
    /\ whitelistedTokens' = whitelistedTokens \ {token}
    /\ UNCHANGED <<erc20Paused, tokenLimits, ethServiceFee, batchSize, batchBlockLimit,
                   batchSettleLimit, depositVars, erc20TokenVars>>

\* setTokenMinLimit and setTokenMaxLimit, also for tokens not whitelisted.
SetTokenMinLimit(token, amount) ==
    /\ tokenLimits' = [tokenLimits EXCEPT ![token].min = amount]
    /\ UNCHANGED <<erc20Paused, whitelistedTokens, ethServiceFee, batchSize,
                   batchBlockLimit, batchSettleLimit, depositVars, erc20TokenVars>>

SetTokenMaxLimit(token, amount) ==
    /\ tokenLimits' = [tokenLimits EXCEPT ![token].max = amount]
    /\ UNCHANGED <<erc20Paused, whitelistedTokens, ethServiceFee, batchSize,
                   batchBlockLimit, batchSettleLimit, depositVars, erc20TokenVars>>

\* setServiceFeePercentage and setMaxServiceFee
SetServiceFee(fee) ==
    /\ \/ fee.pct = ethServiceFee.pct
       \/ fee.max = ethServiceFee.max
    /\ ethServiceFee' = fee
    /\ UNCHANGED <<erc20Paused, whitelistedTokens, tokenLimits, batchSize,
                   batchBlockLimit, batchSettleLimit, depositVars, erc20TokenVars>>

SetBatchSize(size) ==
    /\ size <= MaxBatchSize
    /\ batchSize' = size
    /\ UNCHANGED <<erc20Paused, whitelistedTokens, tokenLimits, ethServiceFee,
                   batchBlockLimit, batchSettleLimit, depositVars, erc20TokenVars>>

\* Mutant of SetBatchBlockLimit: the settle limit is not looked at.
SetBatchBlockLimitUnchecked(limit) ==
    /\ batchBlockLimit' = limit
    /\ UNCHANGED <<erc20Paused, whitelistedTokens, tokenLimits, ethServiceFee,
                   batchSize, batchSettleLimit, depositVars, erc20TokenVars>>

SetBatchBlockLimit(limit) ==
    /\ limit <= batchSettleLimit
    /\ batchBlockLimit' = limit
    /\ UNCHANGED <<erc20Paused, whitelistedTokens, tokenLimits, ethServiceFee,
                   batchSize, batchSettleLimit, depositVars, erc20TokenVars>>

SetBatchSettleLimit(limit) ==
    /\ erc20Paused
    /\ ~IsAnyBatchInProgress
    /\ limit >= batchBlockLimit
    /\ batchSettleLimit' = limit
    /\ UNCHANGED <<erc20Paused, whitelistedTokens, tokenLimits, ethServiceFee,
                   batchSize, batchBlockLimit, depositVars, erc20TokenVars>>

ERC20SetPaused ==
    /\ erc20Paused' = ~erc20Paused
    /\ UNCHANGED <<whitelistedTokens, tokenLimits, ethServiceFee, batchSize,
                   batchBlockLimit, batchSettleLimit, depositVars, erc20TokenVars>>

------------------------------------------------------------------------------
\* A deployed safe: still paused and with no token, or open and supplied with tokens.
ERC20SafeDeployed(ready, supply) ==
    /\ ethBlock = 1
    /\ erc20Paused = ~ready
    /\ whitelistedTokens = IF ready THEN Tokens ELSE {}
    /\ tokenLimits \in [Tokens -> IF ready THEN TokenLimits ELSE {[min |-> 0, max |-> 0]}]
    /\ ethServiceFee \in EthServiceFees
    /\ batchSize \in EthBatchSizes
    /\ batchBlockLimit = InitialBlockLimit
    /\ batchSettleLimit = InitialSettleLimit
    /\ batches = <<>>
    /\ depositsCount = 0
    /\ tokenBalances = [t \in Tokens |-> supply]
    /\ serviceFees = 0
    /\ erc20Balance = [t \in Tokens |-> supply]
    /\ supplied = [t \in Tokens |-> supply]
    /\ gifts = [t \in Tokens |-> 0]
    /\ recovered = [t \in Tokens |-> 0]

ERC20UserNext ==
    \E token \in Tokens :
        \/ \E amount \in DepositAmounts, recipient \in DepositRecipients :
              DepositTokens(token, amount, recipient)
        \/ ClaimServiceFees(token)
        \/ /\ "gifts" \in EthSwitches
           /\ \E amount \in DepositAmounts : SendDirectly(token, amount)

ERC20AdminNext ==
    \/ \E token \in Tokens, limits \in TokenLimits : WhitelistToken(token, limits)
    \/ /\ "removeToken" \in EthSwitches
       /\ \E token \in Tokens : RemoveTokenFromWhitelist(token)
    \/ /\ "limits" \in EthSwitches
       /\ \E token \in Tokens, amount \in DepositAmounts :
             \/ SetTokenMinLimit(token, amount)
             \/ SetTokenMaxLimit(token, amount)
    \/ \E fee \in EthServiceFees : SetServiceFee(fee)
    \/ \E size \in EthBatchSizes : SetBatchSize(size)
    \/ \E limit \in BlockLimits : SetBatchBlockLimit(limit)
    \/ \E limit \in SettleLimits : SetBatchSettleLimit(limit)
    \/ ERC20SetPaused
    \/ /\ "initSupply" \in EthSwitches
       /\ \E token \in Tokens, amount \in DepositAmounts : InitSupply(token, amount)
    \/ "recover" \in EthSwitches /\ \E token \in Tokens : RecoverLostFunds(token)

NextEthBlock == ethBlock < MaxEthBlock /\ ethBlock' = ethBlock + 1

------------------------------------------------------------------------------
(* Properties *)

\* Type invariant of the safe's storage.
ERC20SafeTypeOK ==
    /\ ethBlock \in Nat
    /\ erc20Paused \in BOOLEAN
    /\ whitelistedTokens \in SUBSET Tokens
    /\ tokenLimits \in [Tokens -> [min : Nat, max : Nat]]
    /\ ethServiceFee \in EthServiceFees
    /\ batchSize \in Nat
    /\ batchBlockLimit \in Nat
    /\ batchSettleLimit \in Nat
    /\ batches \in Seq(Batch)
    /\ depositsCount \in Nat
    /\ tokenBalances \in [Tokens -> Nat]
    /\ serviceFees \in Nat
    /\ erc20Balance \in [Tokens -> Nat]
    /\ supplied \in [Tokens -> Nat]
    /\ gifts \in [Tokens -> Nat]
    /\ recovered \in [Tokens -> Nat]

(***************************************************************************)
(* A batch the relayers can read (getBatch, getDeposits) does not change,  *)
(* through any order of deposits, blocks and changes of batchSize,         *)
(* batchBlockLimit, whitelist and pause: otherwise a deposit would join a  *)
(* batch that was already executed on MultiversX and never be bridged.  It *)
(* rests on batchBlockLimit <= batchSettleLimit, which two setters of      *)
(* different preconditions keep.  And it can be read in every later state, *)
(* unless the admin raises batchSettleLimit: a batch that is thereby not   *)
(* final any more may collect deposits again.                              *)
(***************************************************************************)
FinalBatchesAreFixed ==
    [][\A n \in DOMAIN batches :
          IsBatchFinalEth(batches[n]) =>
             /\ batches'[n] = batches[n]
             /\ batchSettleLimit' <= batchSettleLimit => IsBatchFinalEth(batches[n])'
      ]_<<ethBlock, erc20Vars>>

(***************************************************************************)
(* The deposits of all batches, one batch after the other, carry the       *)
(* nonces 1 .. depositsCount without gap or repetition: this is the order  *)
(* the MultiversX multisig insists on (deposit, require_valid_eth_tx_ids). *)
(* No batch is empty, and only the last one can still be open.             *)
(***************************************************************************)
DepositsInOrder ==
    LET all == FlattenSeq([n \in DOMAIN batches |-> batches[n].deposits]) IN
    /\ [i \in DOMAIN all |-> all[i].nonce] = [i \in 1 .. depositsCount |-> i]
    /\ \A n \in DOMAIN batches : batches[n].deposits # <<>>
    /\ \A m, n \in DOMAIN batches :
          m < n => batches[m].lastUpdatedBlockNumber <= batches[n].blockNumber

(***************************************************************************)
(* The tokens the safe owns cover what it books for the bridge: what is    *)
(* claimed as service fee is the fee that was stored, never the tokens of  *)
(* a deposit, and what executeTransfer promises can be paid (deposit,      *)
(* transfer, initSupply, claimServiceFees).  It holds while one token is   *)
(* bridged; serviceFees is one counter for all tokens, so with two tokens  *)
(* the fees of one can be claimed out of the deposits of the other.  It    *)
(* also relies on the admin to leave the stored fees alone when calling    *)
(* recoverLostFunds, which takes them along.                               *)
(***************************************************************************)
SafeIsSolvent ==
    \A t \in Tokens : recovered[t] <= gifts[t] => tokenBalances[t] <= erc20Balance[t]
==============================================================================
