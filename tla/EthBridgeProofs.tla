--------------------------- MODULE EthBridgeProofs ---------------------------
(***************************************************************************)
(* Theorems about the Ethereum contracts, for any tokens, limits, fees,    *)
(* relayers, quorum and lists of transfers.                                *)
(***************************************************************************)
EXTENDS EthBridge, DataLemmas

------------------------------------------------------------------------------
(* Fees *)

\* _deductServiceFee keeps back at most the amount.
LEMMA FeeWithinAmount ==
    ASSUME ERC20SafeTypeOK, NEW amount \in Nat
    PROVE  DeductedFee(amount) \in Nat /\ DeductedFee(amount) <= amount
<1> DEFINE p == ethServiceFee.pct
           share == (amount * p) \div FullPercent
<1>1. /\ p \in Nat /\ p <= FullPercent /\ FullPercent \in Nat /\ FullPercent > 0
      /\ ethServiceFee.max \in Nat
  BY ERC20SafeAssumption DEF ERC20SafeTypeOK
<1> HIDE DEF p
<1>2. amount * p \in Nat /\ amount * p <= amount * FullPercent
  BY <1>1
<1>3. share \in Nat /\ share * FullPercent <= amount * p
  BY <1>1, <1>2
<1>4. share * FullPercent <= amount * FullPercent
  BY <1>1, <1>2, <1>3
<1>5. share <= amount
  <2> HIDE DEF share
  <2> SUFFICES ASSUME share >= amount + 1 PROVE FALSE
    BY <1>3
  <2>1. share * FullPercent >= (amount + 1) * FullPercent
    BY <1>1, <1>3
  <2>2. (amount + 1) * FullPercent = amount * FullPercent + FullPercent
    BY <1>1
  <2> QED BY <1>1, <1>2, <1>3, <1>4, <2>1, <2>2
<1> QED BY <1>1, <1>3, <1>5 DEF DeductedFee, FeeOf, p

------------------------------------------------------------------------------
(* The calls of executeTransfer *)

TransferType == [token : Tokens, amount : Nat, recipient : EthRecipients]
Statuses == {"Executed", "Rejected"}

\* Before the first call.
NothingTransferred ==
    [reverted |-> FALSE, erc20 |-> erc20Balance, tokenBalances |-> tokenBalances,
     statuses |-> <<>>]

\* g has what each call leaves behind.
IsTransferSteps(g, transfers, refused) ==
    g = [n \in 0 .. Len(transfers) |->
            IF n = 0 THEN NothingTransferred ELSE Transfer(g[n - 1], transfers[n], refused)]

\* The calls follow each other.
LEMMA TransferStepsAre ==
    ASSUME NEW transfers, Len(transfers) \in Nat, NEW refused
    PROVE  IsTransferSteps(TransferSteps(transfers, refused), transfers, refused)
<1> DEFINE n == Len(transfers)
           Partial(g, k) == \A i \in 0 .. k : g[i] =
               IF i = 0 THEN NothingTransferred ELSE Transfer(g[i - 1], transfers[i], refused)
           T == {k \in Nat : \E g : Partial(g, k)}
<1>1. 0 \in T
  <2>1. Partial([i \in {0} |-> NothingTransferred], 0)
    OBVIOUS
  <2> HIDE DEF Partial
  <2> QED BY <2>1
<1>2. ASSUME NEW k \in Nat, k \in T PROVE k + 1 \in T
  <2>1. PICK g : Partial(g, k)
    BY <1>2
  <2> DEFINE h == [i \in 0 .. k + 1 |->
                     IF i \in 0 .. k THEN g[i] ELSE Transfer(g[k], transfers[i], refused)]
  <2>2. \A i \in 0 .. k : h[i] = g[i]
    OBVIOUS
  <2>3. h[k + 1] = Transfer(g[k], transfers[k + 1], refused)
    OBVIOUS
  <2> HIDE DEF h
  <2>4. Partial(h, k + 1)
    <3> SUFFICES ASSUME NEW i \in 0 .. k + 1
                 PROVE  h[i] = IF i = 0 THEN NothingTransferred
                               ELSE Transfer(h[i - 1], transfers[i], refused)
      OBVIOUS
    <3>1. CASE i \in 0 .. k
      <4>1. i # 0 => i - 1 \in 0 .. k
        BY <3>1
      <4> QED BY <2>1, <2>2, <3>1, <4>1
    <3>2. CASE i = k + 1
      <4>1. k \in 0 .. k /\ i - 1 = k /\ i # 0
        BY <3>2
      <4> QED BY <2>2, <2>3, <3>2, <4>1
    <3> QED BY <3>1, <3>2
  <2> HIDE DEF Partial
  <2> QED BY <2>4
<1>3. Nat \subseteq T
  <2> HIDE DEF T
  <2> QED BY <1>1, <1>2, NatSetInduction
<1>4. PICK g : Partial(g, n)
  <2> HIDE DEF Partial
  <2> QED BY <1>3
<1>5. IsTransferSteps([i \in 0 .. n |-> g[i]], transfers, refused)
  <2> DEFINE h == [i \in 0 .. n |-> g[i]]
  <2>1. \A i \in 0 .. n : h[i] = g[i]
    OBVIOUS
  <2> HIDE DEF h
  <2>2. \A i \in 0 .. n : h[i] = IF i = 0 THEN NothingTransferred
                                  ELSE Transfer(h[i - 1], transfers[i], refused)
    <3> SUFFICES ASSUME NEW i \in 0 .. n
                 PROVE  h[i] = IF i = 0 THEN NothingTransferred
                               ELSE Transfer(h[i - 1], transfers[i], refused)
      OBVIOUS
    <3>1. i # 0 => i - 1 \in 0 .. n
      OBVIOUS
    <3> QED BY <1>4, <2>1, <3>1
  <2> QED BY <2>2 DEF h, IsTransferSteps
<1>6. TransferSteps(transfers, refused) = CHOOSE u : IsTransferSteps(u, transfers, refused)
  BY DEF TransferSteps, IsTransferSteps, NothingTransferred
<1> QED BY <1>5, <1>6

AccType ==
    [reverted : BOOLEAN, erc20 : [Tokens -> Nat], tokenBalances : [Tokens -> Int],
     statuses : Seq(Statuses)]

\* The transfers of token t, among the first k, that were carried out.
ExecutedOf(transfers, statuses, t, k) ==
    {i \in 1 .. k : transfers[i].token = t /\ statuses[i] = "Executed"}

\* What holds after the first k calls.
TransferInv(acc, transfers, k) ==
    /\ acc \in AccType
    /\ Len(acc.statuses) = k
    /\ ~acc.reverted => acc.tokenBalances \in [Tokens -> Nat]
    /\ \A t \in Tokens :
          /\ acc.erc20[t] - acc.tokenBalances[t] = erc20Balance[t] - tokenBalances[t]
          /\ acc.tokenBalances[t] = tokenBalances[t]
                - AmountsOf(transfers, ExecutedOf(transfers, acc.statuses, t, k))

\* Sums of amounts of transfers.
LEMMA AmountsAdd ==
    ASSUME NEW S, NEW list \in Seq(S), \A i \in 1 .. Len(list) : list[i].amount \in Nat,
           NEW I, I \subseteq 1 .. Len(list), NEW x \in 1 .. Len(list), x \notin I
    PROVE  /\ AmountsOf(list, I) \in Int
           /\ AmountsOf(list, {}) = 0
           /\ AmountsOf(list, I \cup {x}) = list[x].amount + AmountsOf(list, I)
<1> DEFINE f == [i \in DOMAIN list |-> list[i].amount]
<1>1. IsFiniteSet(I)
  <2>1. IsFiniteSet(1 .. Len(list))
    BY FS_Interval
  <2> QED BY <2>1, FS_Subset
<1>2. (\A i \in I : f[i] \in Int) /\ f[x] \in Int /\ f[x] = list[x].amount
  OBVIOUS
<1> HIDE DEF f
<1>3. SumFunctionOnSet(f, I) \in Int
  BY <1>1, <1>2, SumInt
<1>4. SumFunctionOnSet(f, {}) = 0
  BY SumOfNone
<1>5. SumFunctionOnSet(f, I \cup {x}) = f[x] + SumFunctionOnSet(f, I)
  BY <1>1, <1>2, SumAdd
<1> QED BY <1>2, <1>3, <1>4, <1>5 DEF AmountsOf, f

\* One call keeps what holds after the calls before it.
LEMMA OneTransfer ==
    ASSUME ERC20SafeTypeOK, NEW transfers \in Seq(TransferType), NEW refused, NEW k \in Nat,
           k < Len(transfers), NEW acc, TransferInv(acc, transfers, k)
    PROVE  TransferInv(Transfer(acc, transfers[k + 1], refused), transfers, k + 1)
<1> DEFINE x == transfers[k + 1]
           ok == x.recipient \notin refused /\ x.amount <= acc.erc20[x.token]
           res == Transfer(acc, x, refused)
<1>1. /\ x \in TransferType /\ x.token \in Tokens /\ x.amount \in Nat
      /\ k + 1 \in 1 .. Len(transfers) /\ 1 .. k \subseteq 1 .. Len(transfers)
      /\ \A i \in 1 .. Len(transfers) : transfers[i].amount \in Nat
  <2>1. k + 1 \in 1 .. Len(transfers) /\ 1 .. k \subseteq 1 .. Len(transfers)
    OBVIOUS
  <2>2. \A i \in 1 .. Len(transfers) : transfers[i] \in TransferType
    BY ElementOfSeq
  <2> QED BY <2>1, <2>2 DEF TransferType
<1>2. /\ acc \in AccType /\ acc.statuses \in Seq(Statuses) /\ Len(acc.statuses) = k
      /\ acc.erc20 \in [Tokens -> Nat] /\ acc.tokenBalances \in [Tokens -> Int]
      /\ acc.reverted \in BOOLEAN
      /\ ~acc.reverted => acc.tokenBalances \in [Tokens -> Nat]
  BY DEF TransferInv, AccType
<1>3. ASSUME NEW s \in Statuses
      PROVE  /\ Append(acc.statuses, s) \in Seq(Statuses)
             /\ Len(Append(acc.statuses, s)) = k + 1
             /\ \A i \in 1 .. k : Append(acc.statuses, s)[i] = acc.statuses[i]
             /\ Append(acc.statuses, s)[k + 1] = s
  BY <1>2, AppendProperties
<1>4. ASSUME NEW s \in Statuses, NEW t \in Tokens
      PROVE  LET old == ExecutedOf(transfers, acc.statuses, t, k)
                 new == ExecutedOf(transfers, Append(acc.statuses, s), t, k + 1)
             IN  /\ x.token = t /\ s = "Executed" => new = old \cup {k + 1}
                 /\ x.token # t \/ s # "Executed" => new = old
  <2>1. 1 .. k + 1 = 1 .. k \cup {k + 1}
    OBVIOUS
  <2> QED BY <1>3, <2>1 DEF ExecutedOf
<1>5. ASSUME NEW t \in Tokens
      PROVE  /\ ExecutedOf(transfers, acc.statuses, t, k) \subseteq 1 .. Len(transfers)
             /\ k + 1 \notin ExecutedOf(transfers, acc.statuses, t, k)
  BY <1>1 DEF ExecutedOf
<1>6. ASSUME NEW t \in Tokens
      PROVE  LET sum == AmountsOf(transfers, ExecutedOf(transfers, acc.statuses, t, k)) IN
             /\ sum \in Int
             /\ AmountsOf(transfers, ExecutedOf(transfers, acc.statuses, t, k) \cup {k + 1}) =
                   x.amount + sum
  BY <1>1, <1>5, AmountsAdd
<1>7. ASSUME NEW t \in Tokens
      PROVE  /\ erc20Balance[t] \in Int /\ tokenBalances[t] \in Int
             /\ acc.erc20[t] - acc.tokenBalances[t] = erc20Balance[t] - tokenBalances[t]
             /\ acc.tokenBalances[t] = tokenBalances[t]
                   - AmountsOf(transfers, ExecutedOf(transfers, acc.statuses, t, k))
  BY DEF TransferInv, ERC20SafeTypeOK
<1> HIDE DEF x
<1>8. CASE ok
  <2>1. res = [reverted |-> acc.reverted \/ x.amount > acc.tokenBalances[x.token],
               erc20 |-> [acc.erc20 EXCEPT ![x.token] = @ - x.amount],
               tokenBalances |-> [acc.tokenBalances EXCEPT ![x.token] = @ - x.amount],
               statuses |-> Append(acc.statuses, "Executed")]
    BY <1>8 DEF Transfer
  <2>2. res.erc20 \in [Tokens -> Nat] /\ res.tokenBalances \in [Tokens -> Int]
    BY <1>1, <1>2, <1>8, <2>1
  <2>3. ~res.reverted => res.tokenBalances \in [Tokens -> Nat]
    <3> SUFFICES ASSUME ~res.reverted PROVE res.tokenBalances \in [Tokens -> Nat]
      OBVIOUS
    <3>1. res.reverted = (acc.reverted \/ x.amount > acc.tokenBalances[x.token])
      BY <2>1
    <3>2. ~acc.reverted /\ ~(x.amount > acc.tokenBalances[x.token])
      BY <3>1
    <3> QED BY <1>1, <1>2, <2>1, <3>2
  <2>4. "Executed" \in Statuses
    BY DEF Statuses
  <2>5. res \in AccType /\ Len(res.statuses) = k + 1
    BY <1>2, <1>3, <2>1, <2>2, <2>4 DEF AccType
  <2>6. ASSUME NEW t \in Tokens
        PROVE  /\ res.erc20[t] - res.tokenBalances[t] = erc20Balance[t] - tokenBalances[t]
               /\ res.tokenBalances[t] = tokenBalances[t]
                     - AmountsOf(transfers, ExecutedOf(transfers, res.statuses, t, k + 1))
    <3> DEFINE sum == AmountsOf(transfers, ExecutedOf(transfers, acc.statuses, t, k))
               more == AmountsOf(transfers, ExecutedOf(transfers, res.statuses, t, k + 1))
               d == IF x.token = t THEN x.amount ELSE 0
    <3>1. more = d + sum /\ sum \in Int
      <4>1. res.statuses = Append(acc.statuses, "Executed")
        BY <2>1
      <4>2. CASE x.token = t
        BY <1>4, <1>6, <2>4, <4>1, <4>2
      <4>3. CASE x.token # t
        <5>1. ExecutedOf(transfers, res.statuses, t, k + 1) =
                 ExecutedOf(transfers, acc.statuses, t, k)
          BY <1>4, <2>4, <4>1, <4>3
        <5>2. d = 0 /\ more = sum
          BY <4>3, <5>1
        <5>3. sum \in Int
          BY <1>6
        <5> HIDE DEF d, more, sum
        <5> QED BY <5>2, <5>3
      <4> QED BY <4>2, <4>3
    <3>2. res.tokenBalances[t] = acc.tokenBalances[t] - d /\ res.erc20[t] = acc.erc20[t] - d
      BY <1>1, <1>2, <2>1
    <3>3. d \in Int /\ acc.erc20[t] \in Int /\ acc.tokenBalances[t] \in Int
      BY <1>1, <1>2
    <3>4. acc.tokenBalances[t] = tokenBalances[t] - sum
      BY <1>7
    <3> HIDE DEF d, sum, more
    <3> QED BY <1>7, <3>1, <3>2, <3>3, <3>4, SMTT(20) DEF more
  <2> QED BY <2>3, <2>5, <2>6 DEF TransferInv, x
<1>9. CASE ~ok
  <2>1. res = [acc EXCEPT !.statuses = Append(@, "Rejected")]
    BY <1>9 DEF Transfer
  <2>2. "Rejected" \in Statuses
    BY DEF Statuses
  <2>3. /\ res \in AccType /\ Len(res.statuses) = k + 1 /\ res.reverted = acc.reverted
        /\ res.erc20 = acc.erc20 /\ res.tokenBalances = acc.tokenBalances
        /\ res.statuses = Append(acc.statuses, "Rejected")
    BY <1>2, <1>3, <2>1, <2>2 DEF AccType
  <2>4. ASSUME NEW t \in Tokens
        PROVE  ExecutedOf(transfers, res.statuses, t, k + 1) =
                  ExecutedOf(transfers, acc.statuses, t, k)
    <3>1. "Rejected" # "Executed"
      OBVIOUS
    <3> QED BY <1>4, <2>2, <2>3, <3>1
  <2> QED BY <1>2, <1>7, <2>3, <2>4 DEF TransferInv, x
<1> QED BY <1>8, <1>9

\* What holds after all calls of executeTransfer.
LEMMA AllTransfers ==
    ASSUME ERC20SafeTypeOK, NEW transfers \in Seq(TransferType), NEW refused
    PROVE  TransferInv(TransferAll(transfers, refused), transfers, Len(transfers))
<1> DEFINE g == TransferSteps(transfers, refused)
           n == Len(transfers)
           T == {k \in Nat : k <= n => TransferInv(g[k], transfers, k)}
<1>1. n \in Nat
  OBVIOUS
<1>2. \A i \in 0 .. n : g[i] =
         IF i = 0 THEN NothingTransferred ELSE Transfer(g[i - 1], transfers[i], refused)
  <2>1. IsTransferSteps(g, transfers, refused)
    BY <1>1, TransferStepsAre
  <2> HIDE DEF g
  <2> QED BY <2>1 DEF IsTransferSteps
<1> HIDE DEF g
<1>3. 0 \in T
  <2>1. g[0] = NothingTransferred
    BY <1>1, <1>2
  <2>2. \A t \in Tokens : ExecutedOf(transfers, <<>>, t, 0) = {}
    BY DEF ExecutedOf
  <2>3. AmountsOf(transfers, {}) = 0
    BY SumOfNone DEF AmountsOf
  <2>4. NothingTransferred \in AccType
    BY EmptySeq DEF AccType, NothingTransferred, ERC20SafeTypeOK
  <2>5. /\ NothingTransferred.statuses = <<>>
        /\ NothingTransferred.erc20 = erc20Balance
        /\ NothingTransferred.tokenBalances = tokenBalances
    BY DEF NothingTransferred
  <2>6. TransferInv(NothingTransferred, transfers, 0)
    <3>1. \A t \in Tokens : tokenBalances[t] \in Int
      BY DEF ERC20SafeTypeOK
    <3>2. ASSUME NEW t \in Tokens
          PROVE  tokenBalances[t] = tokenBalances[t]
                    - AmountsOf(transfers, ExecutedOf(transfers, <<>>, t, 0))
      <4>1. AmountsOf(transfers, ExecutedOf(transfers, <<>>, t, 0)) = 0
        BY <2>2, <2>3
      <4> QED BY <3>1, <4>1
    <3>3. Len(NothingTransferred.statuses) = 0
      BY <2>5
    <3>4. NothingTransferred.tokenBalances \in [Tokens -> Nat]
      BY <2>5 DEF ERC20SafeTypeOK
    <3> HIDE DEF NothingTransferred
    <3> QED BY <2>4, <2>5, <3>2, <3>3, <3>4 DEF TransferInv
  <2> QED BY <2>1, <2>6
<1>4. ASSUME NEW k \in Nat, k \in T PROVE k + 1 \in T
  <2> SUFFICES ASSUME k + 1 <= n PROVE TransferInv(g[k + 1], transfers, k + 1)
    OBVIOUS
  <2>1. TransferInv(g[k], transfers, k) /\ k < n
    BY <1>1, <1>4
  <2>2. g[k + 1] = Transfer(g[k], transfers[k + 1], refused)
    <3>1. k + 1 \in 0 .. n /\ k + 1 # 0 /\ (k + 1) - 1 = k
      BY <1>1
    <3> QED BY <1>2, <3>1
  <2> QED BY <2>1, <2>2, OneTransfer
<1>5. Nat \subseteq T
  <2> HIDE DEF T
  <2> QED BY <1>3, <1>4, NatSetInduction
<1>6. TransferInv(g[n], transfers, n)
  BY <1>1, <1>5
<1> QED BY <1>6 DEF TransferAll, g

------------------------------------------------------------------------------
(* Types *)

\* The admin changes the safe's configuration.
SafeConfigured ==
    \/ \E token \in Tokens, limits \in TokenLimits : WhitelistToken(token, limits)
    \/ \E token \in Tokens : RemoveTokenFromWhitelist(token)
    \/ \E token \in Tokens, amount \in DepositAmounts : SetTokenMinLimit(token, amount)
    \/ \E token \in Tokens, amount \in DepositAmounts : SetTokenMaxLimit(token, amount)
    \/ \E fee \in EthServiceFees : SetServiceFee(fee)
    \/ \E size \in EthBatchSizes : SetBatchSize(size)
    \/ \E limit \in BlockLimits : SetBatchBlockLimit(limit)
    \/ \E limit \in SettleLimits : SetBatchSettleLimit(limit)
    \/ ERC20SetPaused

\* Then nothing but the configuration changes.
LEMMA ConfigOnly ==
    ASSUME SafeConfigured
    PROVE  UNCHANGED <<depositVars, erc20TokenVars>>
BY DEF SafeConfigured, WhitelistToken, RemoveTokenFromWhitelist, SetTokenMinLimit,
       SetTokenMaxLimit, SetServiceFee, SetBatchSize, SetBatchBlockLimit,
       SetBatchSettleLimit, ERC20SetPaused

\* And it keeps its types.
LEMMA SafeConfigType ==
    ASSUME ERC20SafeTypeOK, SafeConfigured, UNCHANGED ethBlock
    PROVE  ERC20SafeTypeOK'
<1> USE ERC20SafeAssumption DEF SafeConfigured
<1>1. /\ erc20Paused' \in BOOLEAN
      /\ whitelistedTokens' \in SUBSET Tokens
  BY DEF ERC20SafeTypeOK, WhitelistToken, RemoveTokenFromWhitelist, SetTokenMinLimit,
         SetTokenMaxLimit, SetServiceFee, SetBatchSize, SetBatchBlockLimit,
         SetBatchSettleLimit, ERC20SetPaused
<1>2. tokenLimits' \in [Tokens -> [min : Nat, max : Nat]]
  <2>1. CASE \E token \in Tokens, limits \in TokenLimits : WhitelistToken(token, limits)
    BY <2>1 DEF ERC20SafeTypeOK, WhitelistToken
  <2>2. CASE \E token \in Tokens, amount \in DepositAmounts : SetTokenMinLimit(token, amount)
    <3>1. PICK token \in Tokens, amount \in DepositAmounts : SetTokenMinLimit(token, amount)
      BY <2>2
    <3>2. tokenLimits' = [tokenLimits EXCEPT ![token] = [tokenLimits[token] EXCEPT !.min = amount]]
      BY <3>1 DEF ERC20SafeTypeOK, SetTokenMinLimit
    <3>3. [tokenLimits[token] EXCEPT !.min = amount] \in [min : Nat, max : Nat]
      BY DEF ERC20SafeTypeOK
    <3> QED BY <3>2, <3>3 DEF ERC20SafeTypeOK
  <2>3. CASE \E token \in Tokens, amount \in DepositAmounts : SetTokenMaxLimit(token, amount)
    <3>1. PICK token \in Tokens, amount \in DepositAmounts : SetTokenMaxLimit(token, amount)
      BY <2>3
    <3>2. tokenLimits' = [tokenLimits EXCEPT ![token] = [tokenLimits[token] EXCEPT !.max = amount]]
      BY <3>1 DEF ERC20SafeTypeOK, SetTokenMaxLimit
    <3>3. [tokenLimits[token] EXCEPT !.max = amount] \in [min : Nat, max : Nat]
      BY DEF ERC20SafeTypeOK
    <3> QED BY <3>2, <3>3 DEF ERC20SafeTypeOK
  <2>4. CASE UNCHANGED tokenLimits
    BY <2>4 DEF ERC20SafeTypeOK
  <2> QED BY <2>1, <2>2, <2>3, <2>4 DEF RemoveTokenFromWhitelist, SetServiceFee, SetBatchSize,
              SetBatchBlockLimit, SetBatchSettleLimit, ERC20SetPaused
<1>3. /\ ethServiceFee' \in EthServiceFees
      /\ batchSize' \in Nat /\ batchBlockLimit' \in Nat /\ batchSettleLimit' \in Nat
  BY DEF ERC20SafeTypeOK, WhitelistToken, RemoveTokenFromWhitelist, SetTokenMinLimit,
         SetTokenMaxLimit, SetServiceFee, SetBatchSize, SetBatchBlockLimit,
         SetBatchSettleLimit, ERC20SetPaused
<1> QED BY <1>1, <1>2, <1>3, ConfigOnly DEF ERC20SafeTypeOK, depositVars, erc20TokenVars

\* Tokens move into or out of the safe without a deposit or a transfer.
TokensMoved(token, amount) ==
    SendDirectly(token, amount) \/ ClaimServiceFees(token) \/ InitSupply(token, amount)
        \/ RecoverLostFunds(token)

LEMMA TokensMovedType ==
    ASSUME ERC20SafeTypeOK, NEW token \in Tokens, NEW amount \in Nat,
           TokensMoved(token, amount), UNCHANGED ethBlock
    PROVE  ERC20SafeTypeOK'
<1> DEFINE Balances == [Tokens -> Nat]
           Booked == /\ tokenBalances' \in Balances /\ serviceFees' \in Nat
                     /\ erc20Balance' \in Balances /\ supplied' \in Balances
                     /\ gifts' \in Balances /\ recovered' \in Balances
<1>0. UNCHANGED <<erc20ConfigVars, depositVars>>
  BY DEF TokensMoved, SendDirectly, ClaimServiceFees, InitSupply, RecoverLostFunds
<1> SUFFICES Booked
  BY <1>0 DEF ERC20SafeTypeOK, erc20ConfigVars, depositVars
<1>1. /\ tokenBalances \in Balances /\ serviceFees \in Nat
      /\ erc20Balance \in Balances /\ supplied \in Balances
      /\ gifts \in Balances /\ recovered \in Balances
  BY DEF ERC20SafeTypeOK
<1>2. \A f \in Balances, n \in Nat : [f EXCEPT ![token] = n] \in Balances
  OBVIOUS
<1>3. \A f \in Balances : f[token] \in Nat /\ f[token] + amount \in Nat
  OBVIOUS
<1> HIDE DEF Balances
<1>4. CASE SendDirectly(token, amount)
  BY <1>1, <1>2, <1>3, <1>4 DEF SendDirectly
<1>5. CASE ClaimServiceFees(token)
  <2>1. erc20Balance[token] - serviceFees \in Nat
    BY <1>1, <1>3, <1>5 DEF ClaimServiceFees
  <2> QED BY <1>1, <1>2, <1>5, <2>1 DEF ClaimServiceFees
<1>6. CASE InitSupply(token, amount)
  BY <1>1, <1>2, <1>3, <1>6 DEF InitSupply
<1>7. CASE RecoverLostFunds(token)
  <2> DEFINE kept == IF token \in whitelistedTokens THEN tokenBalances[token] ELSE 0
  <2>1. kept \in Nat /\ kept <= erc20Balance[token]
    BY <1>1, <1>3, <1>7 DEF RecoverLostFunds
  <2>2. /\ erc20Balance' = [erc20Balance EXCEPT ![token] = kept]
        /\ recovered' = [recovered EXCEPT ![token] = @ + erc20Balance[token] - kept]
    BY <1>7 DEF RecoverLostFunds
  <2> HIDE DEF kept
  <2>3. recovered[token] + (erc20Balance[token] - kept) \in Nat
    BY <1>1, <1>3, <2>1
  <2>4. UNCHANGED <<tokenBalances, serviceFees, supplied, gifts>>
    BY <1>7 DEF RecoverLostFunds
  <2> QED BY <1>1, <1>2, <2>1, <2>2, <2>3, <2>4
<1> QED BY <1>4, <1>5, <1>6, <1>7 DEF TokensMoved

\* The deposit that deposit books.
NewDeposit(token, amount, recipient) ==
    [nonce |-> depositsCount + 1, token |-> token, amount |-> amount - DeductedFee(amount),
     recipient |-> recipient]

\* What deposit does to the batches.
LEMMA DepositBatches ==
    ASSUME ERC20SafeTypeOK, NEW token \in Tokens, NEW amount \in Nat,
           NEW recipient \in DepositRecipients, DepositTokens(token, amount, recipient)
    PROVE  \E new \in Deposit, b \in Batch :
           /\ new = NewDeposit(token, amount, recipient)
           /\ b.lastUpdatedBlockNumber = ethBlock
           /\ ShouldCreateNewBatch =>
                 /\ batches' = Append(batches, b)
                 /\ b.blockNumber = ethBlock
                 /\ b.deposits = <<new>>
           /\ ~ShouldCreateNewBatch =>
                 /\ Len(batches) \in 1 .. Len(batches)
                 /\ batches' = [batches EXCEPT ![Len(batches)] = b]
                 /\ b.blockNumber = batches[Len(batches)].blockNumber
                 /\ b.deposits = Append(batches[Len(batches)].deposits, new)
           /\ batches' \in Seq(Batch)
<1> DEFINE new == NewDeposit(token, amount, recipient)
           last == batches[Len(batches)]
<1>1. new \in Deposit
  <2>1. DeductedFee(amount) \in Nat /\ DeductedFee(amount) <= amount
    BY FeeWithinAmount
  <2>2. depositsCount + 1 \in Nat /\ amount - DeductedFee(amount) \in Nat
    BY <2>1 DEF ERC20SafeTypeOK
  <2> QED BY <2>2 DEF NewDeposit, Deposit
<1>2. batches \in Seq(Batch) /\ ethBlock \in Nat
  BY DEF ERC20SafeTypeOK
<1>3. CASE ShouldCreateNewBatch
  <2> DEFINE b == [blockNumber |-> ethBlock, lastUpdatedBlockNumber |-> ethBlock,
                   deposits |-> <<new>>]
  <2>1. batches' = Append(batches, b)
    BY <1>3, Zenon DEF DepositTokens, NewDeposit, DepositNonce
  <2> HIDE DEF new
  <2>2. b \in Batch
    BY <1>1, <1>2 DEF Batch
  <2>3. b.lastUpdatedBlockNumber = ethBlock /\ b.blockNumber = ethBlock /\ b.deposits = <<new>>
    OBVIOUS
  <2> HIDE DEF b
  <2> QED BY <1>1, <1>2, <1>3, <2>1, <2>2, <2>3 DEF new
<1>4. CASE ~ShouldCreateNewBatch
  <2> DEFINE b == [last EXCEPT !.lastUpdatedBlockNumber = ethBlock,
                               !.deposits = Append(@, new)]
  <2>1. Len(batches) \in 1 .. Len(batches)
    BY <1>2, <1>4 DEF ShouldCreateNewBatch
  <2>2. last \in Batch
    BY <1>2, <2>1
  <2>3. batches' = [batches EXCEPT ![Len(batches)] = b]
    BY <1>4 DEF DepositTokens, NewDeposit, DepositNonce
  <2> HIDE DEF last, new
  <2>4. Append(last.deposits, new) \in Seq(Deposit)
    BY <1>1, <2>2 DEF Batch
  <2>5. b \in Batch
    BY <1>2, <2>2, <2>4 DEF Batch
  <2>6. /\ b.lastUpdatedBlockNumber = ethBlock /\ b.blockNumber = last.blockNumber
        /\ b.deposits = Append(last.deposits, new)
    BY <2>2 DEF Batch
  <2> HIDE DEF b
  <2>7. batches' \in Seq(Batch)
    BY <1>2, <2>1, <2>3, <2>5, ExceptSeq
  <2> QED BY <1>1, <1>4, <2>1, <2>3, <2>5, <2>6, <2>7 DEF new, last
<1> QED BY <1>3, <1>4

\* A deposit keeps the types: the fee is never more than the amount.
LEMMA DepositType ==
    ASSUME ERC20SafeTypeOK, NEW token \in Tokens, NEW amount \in Nat,
           NEW recipient \in DepositRecipients, DepositTokens(token, amount, recipient),
           UNCHANGED ethBlock
    PROVE  ERC20SafeTypeOK'
<1>1. DeductedFee(amount) \in Nat /\ DeductedFee(amount) <= amount
  BY FeeWithinAmount
<1>2. batches' \in Seq(Batch)
  BY DepositBatches
<1>3. depositsCount' \in Nat /\ serviceFees' \in Nat
  <2>1. depositsCount' = depositsCount + 1 /\ serviceFees' = serviceFees + DeductedFee(amount)
    BY DEF DepositTokens
  <2> QED BY <1>1, <2>1 DEF ERC20SafeTypeOK
<1>4. /\ tokenBalances' = [tokenBalances EXCEPT ![token] = @ + (amount - DeductedFee(amount))]
      /\ erc20Balance' = [erc20Balance EXCEPT ![token] = @ + amount]
  BY DEF DepositTokens
<1>5. tokenBalances' \in [Tokens -> Nat] /\ erc20Balance' \in [Tokens -> Nat]
  BY <1>1, <1>4, SMTT(20) DEF ERC20SafeTypeOK
<1> QED BY <1>2, <1>3, <1>5 DEF ERC20SafeTypeOK, DepositTokens, erc20ConfigVars

------------------------------------------------------------------------------
(* The kinds of steps *)

DepositMade ==
    \E token \in Tokens, amount \in Nat, recipient \in DepositRecipients :
        DepositTokens(token, amount, recipient)

SomeTokensMoved == \E token \in Tokens, amount \in Nat : TokensMoved(token, amount)

MessageSigned ==
    \E account \in EthAccounts, nonce \in MvxBatchNonces, transfers \in MvxTransferLists :
        SignMessage(account, nonce, transfers)

BatchExecuted ==
    \E caller \in EthAccounts, nonce \in MvxBatchNonces, transfers \in MvxTransferLists,
       n \in Nat, refused \in SUBSET EthRecipients :
        \E signatures \in [1 .. n -> ethSignatures] :
            ExecuteTransfer(caller, nonce, transfers, signatures, refused)

\* Every step is one of these.
LEMMA EthSteps ==
    ASSUME [EthNext]_ethereumVars
    PROVE  \/ DepositMade /\ UNCHANGED <<ethBlock, bridgeVars>>
           \/ SomeTokensMoved /\ UNCHANGED <<ethBlock, bridgeVars>>
           \/ SafeConfigured /\ UNCHANGED <<ethBlock, bridgeVars>>
           \/ NextEthBlock /\ UNCHANGED <<erc20Vars, bridgeVars>>
           \/ MessageSigned
           \/ BatchExecuted
           \/ BridgeAdminNext
           \/ UNCHANGED ethereumVars
<1> USE ERC20SafeAssumption, EthBridgeAssumption
<1>1. CASE ERC20UserNext /\ UNCHANGED <<ethBlock, bridgeVars>>
  <2>1. DepositMade \/ SomeTokensMoved
    <3> SUFFICES ASSUME NEW token \in Tokens,
                        \/ \E amount \in DepositAmounts, recipient \in DepositRecipients :
                              DepositTokens(token, amount, recipient)
                        \/ ClaimServiceFees(token)
                        \/ \E amount \in DepositAmounts : SendDirectly(token, amount)
                 PROVE  DepositMade \/ SomeTokensMoved
      BY <1>1 DEF ERC20UserNext
    <3>1. ASSUME NEW amount \in DepositAmounts, NEW recipient \in DepositRecipients,
                 DepositTokens(token, amount, recipient)
          PROVE  DepositMade
      BY <3>1 DEF DepositMade
    <3>2. CASE ClaimServiceFees(token)
      <4>1. TokensMoved(token, 0)
        BY <3>2 DEF TokensMoved
      <4> QED BY <4>1 DEF SomeTokensMoved
    <3>3. ASSUME NEW amount \in DepositAmounts, SendDirectly(token, amount)
          PROVE  SomeTokensMoved
      BY <3>3 DEF SomeTokensMoved, TokensMoved
    <3> QED BY <3>1, <3>2, <3>3
  <2> QED BY <1>1, <2>1
<1>2. CASE ERC20AdminNext /\ UNCHANGED <<ethBlock, bridgeVars>>
  <2>1. ASSUME NEW token \in Tokens, NEW amount \in DepositAmounts, InitSupply(token, amount)
        PROVE  SomeTokensMoved
    BY <2>1 DEF SomeTokensMoved, TokensMoved
  <2>2. ASSUME NEW token \in Tokens, RecoverLostFunds(token) PROVE SomeTokensMoved
    <3>1. TokensMoved(token, 0)
      BY <2>2 DEF TokensMoved
    <3> QED BY <3>1 DEF SomeTokensMoved
  <2>3. SafeConfigured \/ SomeTokensMoved
    BY <1>2, <2>1, <2>2 DEF ERC20AdminNext, SafeConfigured
  <2> QED BY <1>2, <2>3
<1>3. CASE EthRelayerNext
  <2>1. 0 .. MaxSignatures \subseteq Nat
    OBVIOUS
  <2> QED BY <1>3, <2>1 DEF EthRelayerNext, MessageSigned, BatchExecuted
<1> QED BY <1>1, <1>2, <1>3 DEF EthNext

\* The bridge's admin changes its configuration only.
LEMMA BridgeConfigOnly ==
    ASSUME BridgeAdminNext
    PROVE  UNCHANGED <<ethBlock, erc20Vars, executedBatches, crossTransferStatuses,
                       ethSignatures, executions>>
BY DEF BridgeAdminNext, AddRelayer, RemoveRelayer, SetQuorum, BridgeSetBatchSettleLimit,
       BridgeSetPaused

\* ERC20SafeTypeOK does not depend on the bridge.
LEMMA SafeTypeStutter ==
    ASSUME ERC20SafeTypeOK, UNCHANGED <<ethBlock, erc20Vars>>
    PROVE  ERC20SafeTypeOK'
BY DEF ERC20SafeTypeOK, erc20Vars, erc20ConfigVars, depositVars, erc20TokenVars

\* What executeTransfer leaves in the safe.
LEMMA ExecutionResult ==
    ASSUME ERC20SafeTypeOK, NEW caller, NEW nonce, NEW transfers \in Seq(TransferType),
           NEW signatures, NEW refused,
           ExecuteTransfer(caller, nonce, transfers, signatures, refused)
    PROVE  LET res == TransferAll(transfers, refused) IN
           /\ TransferInv(res, transfers, Len(transfers))
           /\ tokenBalances' = res.tokenBalances /\ erc20Balance' = res.erc20
           /\ res.tokenBalances \in [Tokens -> Nat] /\ res.erc20 \in [Tokens -> Nat]
           /\ res.statuses \in Seq(Statuses)
<1> DEFINE res == TransferAll(transfers, refused)
<1>1. TransferInv(res, transfers, Len(transfers))
  BY AllTransfers
<1>2. ~res.reverted /\ tokenBalances' = res.tokenBalances /\ erc20Balance' = res.erc20
  BY DEF ExecuteTransfer
<1> HIDE DEF res
<1>3. /\ res.tokenBalances \in [Tokens -> Nat] /\ res.erc20 \in [Tokens -> Nat]
      /\ res.statuses \in Seq(Statuses)
  BY <1>1, <1>2 DEF TransferInv, AccType
<1> QED BY <1>1, <1>2, <1>3 DEF res

\* The batch with this nonce is paid out, with these statuses.
PaidOut(nonce, transfers, statuses) ==
    LET e == [nonce |-> nonce, transfers |-> transfers, statuses |-> statuses] IN
    /\ nonce \in MvxBatchNonces /\ transfers \in MvxTransferLists
    /\ transfers \in Seq(TransferType)
    /\ statuses \in Seq(Statuses) /\ Len(statuses) = Len(transfers)
    /\ nonce \notin executedBatches
    /\ executedBatches' = executedBatches \cup {nonce}
    /\ crossTransferStatuses' =
          [n \in DOMAIN crossTransferStatuses \cup {nonce} |->
              IF n = nonce
              THEN [createdBlockNumber |-> ethBlock, statuses |-> statuses]
              ELSE crossTransferStatuses[n]]
    /\ executions' = Append(executions, e)
    /\ tokenBalances' \in [Tokens -> Nat] /\ erc20Balance' \in [Tokens -> Nat]
    /\ \A t \in Tokens :
          /\ tokenBalances'[t] = tokenBalances[t] - PaidBy(e, t)
          /\ erc20Balance'[t] - tokenBalances'[t] = erc20Balance[t] - tokenBalances[t]
    /\ Cardinality({r \in ethRelayers : [signer |-> r, message |-> Message(nonce, transfers)]
                                          \in ethSignatures}) >= ethQuorum
    /\ UNCHANGED <<ethBlock, erc20ConfigVars, depositVars, serviceFees, supplied,
                   gifts, recovered, bridgeConfigVars, ethSignatures>>

\* executeTransfer pays out a batch that a quorum of relayers signed.
LEMMA ExecutionPays ==
    ASSUME ERC20SafeTypeOK, EthBridgeTypeOK, BatchExecuted
    PROVE  \E nonce, transfers, statuses : PaidOut(nonce, transfers, statuses)
<1>1. PICK caller \in EthAccounts, nonce \in MvxBatchNonces, transfers \in MvxTransferLists,
           n \in Nat, refused \in SUBSET EthRecipients :
             \E signatures \in [1 .. n -> ethSignatures] :
                ExecuteTransfer(caller, nonce, transfers, signatures, refused)
  BY DEF BatchExecuted
<1>2. PICK signatures \in [1 .. n -> ethSignatures] :
             ExecuteTransfer(caller, nonce, transfers, signatures, refused)
  BY <1>1
<1> DEFINE res == TransferAll(transfers, refused)
           e == [nonce |-> nonce, transfers |-> transfers, statuses |-> res.statuses]
           message == Message(nonce, transfers)
<1>3. /\ transfers \in Seq(TransferType)
      /\ TransferInv(res, transfers, Len(transfers))
      /\ tokenBalances' = res.tokenBalances /\ erc20Balance' = res.erc20
      /\ res.tokenBalances \in [Tokens -> Nat] /\ res.erc20 \in [Tokens -> Nat]
      /\ res.statuses \in Seq(Statuses)
  <2>1. transfers \in Seq(TransferType)
    BY EthBridgeAssumption DEF TransferType
  <2> QED BY <1>2, <2>1, ExecutionResult
<1>4. /\ nonce \notin executedBatches
      /\ executedBatches' = executedBatches \cup {nonce}
      /\ crossTransferStatuses' =
            [m \in DOMAIN crossTransferStatuses \cup {nonce} |->
                IF m = nonce
                THEN [createdBlockNumber |-> ethBlock, statuses |-> res.statuses]
                ELSE crossTransferStatuses[m]]
      /\ executions' = Append(executions, e)
      /\ UNCHANGED <<ethBlock, erc20ConfigVars, depositVars, serviceFees, supplied,
                     gifts, recovered, bridgeConfigVars, ethSignatures>>
  BY <1>2, Zenon DEF ExecuteTransfer
<1>5. Cardinality(ValidEthSigners(signatures, message)) >= ethQuorum
  BY <1>2 DEF ExecuteTransfer, SignersCount
<1> HIDE DEF res
<1>6. Cardinality({r \in ethRelayers : [signer |-> r, message |-> message] \in ethSignatures})
         >= ethQuorum
  <2> DEFINE counted == ValidEthSigners(signatures, message)
             signed == {r \in ethRelayers : [signer |-> r, message |-> message] \in ethSignatures}
  <2>1. IsFiniteSet(signed)
    <3>1. signed \subseteq EthAccounts
      BY DEF EthBridgeTypeOK
    <3> HIDE DEF signed
    <3> QED BY <3>1, FS_Subset, EthBridgeAssumption
  <2>2. counted \subseteq signed
    <3> SUFFICES ASSUME NEW r \in counted PROVE r \in signed
      OBVIOUS
    <3>1. PICK i \in DOMAIN signatures : signatures[i].signer = r /\ signatures[i].message = message
      BY DEF ValidEthSigners
    <3>2. signatures[i] \in ethSignatures
      OBVIOUS
    <3>3. signatures[i] = [signer |-> r, message |-> message]
      <4> HIDE DEF message
      <4> QED BY <3>1, <3>2 DEF EthBridgeTypeOK
    <3> QED BY <3>2, <3>3 DEF ValidEthSigners
  <2> HIDE DEF counted, signed
  <2>3. /\ Cardinality(counted) <= Cardinality(signed)
        /\ Cardinality(counted) \in Nat /\ Cardinality(signed) \in Nat
    BY <2>1, <2>2, FS_Subset, FS_CardinalityType
  <2>4. ethQuorum \in Nat
    BY DEF EthBridgeTypeOK
  <2>5. Cardinality(counted) >= ethQuorum
    BY <1>5 DEF counted
  <2>6. Cardinality(signed) >= ethQuorum
    BY <2>3, <2>4, <2>5
  <2> QED BY <2>6 DEF signed
<1>7. Len(res.statuses) = Len(transfers)
  BY <1>3 DEF TransferInv
<1>8. ASSUME NEW t \in Tokens
      PROVE  /\ tokenBalances'[t] = tokenBalances[t] - PaidBy(e, t)
             /\ erc20Balance'[t] - tokenBalances'[t] = erc20Balance[t] - tokenBalances[t]
  <2>1. DOMAIN transfers = 1 .. Len(transfers)
    BY <1>3
  <2>2. PaidBy(e, t) = AmountsOf(transfers, ExecutedOf(transfers, res.statuses, t, Len(transfers)))
    BY <2>1 DEF PaidBy, ExecutedOf
  <2> QED BY <1>3, <2>2 DEF TransferInv
<1>9. PaidOut(nonce, transfers, res.statuses)
  BY <1>3, <1>4, <1>6, <1>7, <1>8 DEF PaidOut
<1> QED BY <1>9

\* A deployed safe has these types, whether it is open yet or not.
LEMMA DeployedSafeType ==
    ASSUME NEW ready \in BOOLEAN, NEW supply \in Nat, ERC20SafeDeployed(ready, supply)
    PROVE  ERC20SafeTypeOK
<1>1. tokenLimits \in [Tokens -> [min : Nat, max : Nat]]
  BY ERC20SafeAssumption DEF ERC20SafeDeployed
<1>2. erc20Paused \in BOOLEAN /\ whitelistedTokens \in SUBSET Tokens
  BY DEF ERC20SafeDeployed
<1> QED BY <1>1, <1>2, ERC20SafeAssumption, EmptySeq DEF ERC20SafeDeployed, ERC20SafeTypeOK

(***************************************************************************)
(* The safe's books are natural numbers and its batches well-formed        *)
(* (deposit, transfer, recoverLostFunds): in particular tokenBalances      *)
(* never goes below 0, also when executeTransfer pays several transfers of *)
(* one token.                                                              *)
(***************************************************************************)
THEOREM SafeTypeCorrect == EthSpec => []ERC20SafeTypeOK
<1>1. EthInit => ERC20SafeTypeOK
  BY DeployedSafeType DEF EthInit
<1>2. ERC20SafeTypeOK /\ [EthNext]_ethereumVars => ERC20SafeTypeOK'
  <2> SUFFICES ASSUME ERC20SafeTypeOK, [EthNext]_ethereumVars PROVE ERC20SafeTypeOK'
    OBVIOUS
  <2>1. CASE DepositMade /\ UNCHANGED ethBlock
    BY <2>1, DepositType DEF DepositMade
  <2>2. CASE SomeTokensMoved /\ UNCHANGED ethBlock
    BY <2>2, TokensMovedType DEF SomeTokensMoved
  <2>3. CASE SafeConfigured /\ UNCHANGED ethBlock
    BY <2>3, SafeConfigType
  <2>4. CASE NextEthBlock /\ UNCHANGED erc20Vars
    BY <2>4 DEF NextEthBlock, ERC20SafeTypeOK, erc20Vars, erc20ConfigVars, depositVars,
       erc20TokenVars
  <2>5. CASE MessageSigned \/ BridgeAdminNext \/ UNCHANGED ethereumVars
    <3>1. UNCHANGED <<ethBlock, erc20Vars>>
      BY <2>5, BridgeConfigOnly DEF MessageSigned, SignMessage, ethereumVars
    <3> QED BY <3>1, SafeTypeStutter
  <2>6. CASE BatchExecuted
    <3>p. PICK caller \in EthAccounts, nonce \in MvxBatchNonces, transfers \in MvxTransferLists,
               n \in Nat, refused \in SUBSET EthRecipients :
                 \E signatures \in [1 .. n -> ethSignatures] :
                    ExecuteTransfer(caller, nonce, transfers, signatures, refused)
      BY <2>6 DEF BatchExecuted
    <3>1. PICK signatures \in [1 .. n -> ethSignatures] :
             ExecuteTransfer(caller, nonce, transfers, signatures, refused)
      BY <3>p
    <3>2. tokenBalances' \in [Tokens -> Nat] /\ erc20Balance' \in [Tokens -> Nat]
      <4>1. transfers \in Seq(TransferType)
        BY EthBridgeAssumption DEF TransferType
      <4> QED BY <3>1, <4>1, ExecutionResult
    <3> QED BY <3>1, <3>2 DEF ExecuteTransfer, ERC20SafeTypeOK, erc20ConfigVars, depositVars
  <2> QED BY <2>1, <2>2, <2>3, <2>4, <2>5, <2>6, EthSteps
<1> QED BY <1>1, <1>2, PTL DEF EthSpec

\* Storage of the bridge that one action changes.
LEMMA BridgeAdminType ==
    ASSUME EthBridgeTypeOK, BridgeAdminNext
    PROVE  EthBridgeTypeOK'
<1>1. UNCHANGED <<executedBatches, crossTransferStatuses, ethSignatures, executions>>
  BY BridgeConfigOnly
<1>2. /\ bridgePaused' \in BOOLEAN
      /\ ethRelayers' \in SUBSET EthAccounts
      /\ ethQuorum' \in Nat \ {0}
      /\ batchSettleBlockCount' \in Nat
  <2> USE DEF EthBridgeTypeOK
  <2>1. ASSUME NEW account \in EthAccounts, AddRelayer(account) \/ RemoveRelayer(account)
        PROVE  /\ ethRelayers' \in SUBSET EthAccounts
               /\ UNCHANGED <<bridgePaused, ethQuorum, batchSettleBlockCount>>
    BY <2>1 DEF AddRelayer, RemoveRelayer
  <2>2. ASSUME NEW newQuorum \in EthQuorums, SetQuorum(newQuorum)
        PROVE  /\ ethQuorum' \in Nat \ {0}
               /\ UNCHANGED <<bridgePaused, ethRelayers, batchSettleBlockCount>>
    BY <2>2, EthBridgeAssumption DEF SetQuorum
  <2>3. ASSUME NEW limit \in BridgeSettleLimits, BridgeSetBatchSettleLimit(limit)
        PROVE  /\ batchSettleBlockCount' \in Nat
               /\ UNCHANGED <<bridgePaused, ethRelayers, ethQuorum>>
    BY <2>3, EthBridgeAssumption DEF BridgeSetBatchSettleLimit
  <2>4. CASE BridgeSetPaused
    BY <2>4 DEF BridgeSetPaused
  <2> QED BY <2>1, <2>2, <2>3, <2>4 DEF BridgeAdminNext
<1> QED BY <1>1, <1>2 DEF EthBridgeTypeOK

LEMMA BridgeTypeStutter ==
    ASSUME EthBridgeTypeOK, UNCHANGED bridgeVars
    PROVE  EthBridgeTypeOK'
BY DEF EthBridgeTypeOK, bridgeVars, bridgeConfigVars

(***************************************************************************)
(* The bridge's storage keeps its types: the flag of a batch is set        *)
(* exactly when its statuses are stored (executeTransfer), and the quorum  *)
(* is never 0 (setQuorum).                                                 *)
(***************************************************************************)
THEOREM BridgeTypeCorrect == EthSpec => []EthBridgeTypeOK
<1>1. EthInit => EthBridgeTypeOK
  <2> SUFFICES ASSUME EthInit PROVE EthBridgeTypeOK
    OBVIOUS
  <2>1. IsFiniteSet(InitialEthRelayers)
    BY EthBridgeAssumption, FS_Subset
  <2>2. Cardinality(InitialEthRelayers) \in Nat
    BY <2>1, FS_CardinalityType
  <2>3. InitialEthQuorum \in Nat \ {0}
    BY <2>2, EthBridgeAssumption
  <2> QED BY <2>3, EthBridgeAssumption, EmptySeq DEF EthInit, BridgeDeployed, EthBridgeTypeOK
<1>2. ERC20SafeTypeOK /\ EthBridgeTypeOK /\ [EthNext]_ethereumVars => EthBridgeTypeOK'
  <2> SUFFICES ASSUME ERC20SafeTypeOK, EthBridgeTypeOK, [EthNext]_ethereumVars
               PROVE  EthBridgeTypeOK'
    OBVIOUS
  <2>1. CASE UNCHANGED bridgeVars
    BY <2>1, BridgeTypeStutter
  <2>2. CASE MessageSigned
    <3>1. PICK account \in EthAccounts, nonce \in MvxBatchNonces, transfers \in MvxTransferLists :
             SignMessage(account, nonce, transfers)
      BY <2>2 DEF MessageSigned
    <3> QED BY <3>1 DEF EthBridgeTypeOK, SignMessage, Message, bridgeConfigVars
  <2>3. CASE BridgeAdminNext
    BY <2>3, BridgeAdminType
  <2>4. CASE BatchExecuted
    <3>1. PICK nonce, transfers, statuses : PaidOut(nonce, transfers, statuses)
      BY <2>4, ExecutionPays
    <3> DEFINE Report == [createdBlockNumber : Nat, statuses : Seq({"Executed", "Rejected"})]
               Execution == [nonce : MvxBatchNonces, transfers : MvxTransferLists,
                             statuses : Seq({"Executed", "Rejected"})]
               e == [nonce |-> nonce, transfers |-> transfers, statuses |-> statuses]
               report == [createdBlockNumber |-> ethBlock, statuses |-> statuses]
    <3>2. e \in Execution /\ report \in Report
      BY <3>1 DEF PaidOut, Statuses, ERC20SafeTypeOK
    <3>3. executions' \in Seq(Execution)
      <4>1. executions' = Append(executions, e)
        BY <3>1 DEF PaidOut
      <4>2. executions \in Seq(Execution)
        BY DEF EthBridgeTypeOK
      <4> HIDE DEF e, Execution
      <4> QED BY <3>2, <4>1, <4>2
    <3>4. /\ executedBatches' \in SUBSET MvxBatchNonces
          /\ DOMAIN crossTransferStatuses' = executedBatches'
          /\ \A m \in executedBatches' : crossTransferStatuses'[m] \in Report
      <4>1. /\ executedBatches' = executedBatches \cup {nonce} /\ nonce \in MvxBatchNonces
            /\ crossTransferStatuses' =
                  [m \in DOMAIN crossTransferStatuses \cup {nonce} |->
                      IF m = nonce THEN report ELSE crossTransferStatuses[m]]
        BY <3>1 DEF PaidOut
      <4>2. /\ executedBatches \in SUBSET MvxBatchNonces
            /\ DOMAIN crossTransferStatuses = executedBatches
            /\ \A m \in executedBatches : crossTransferStatuses[m] \in Report
        BY DEF EthBridgeTypeOK
      <4> HIDE DEF report, Report
      <4> QED BY <3>2, <4>1, <4>2
    <3>5. UNCHANGED <<bridgeConfigVars, ethSignatures>>
      BY <3>1 DEF PaidOut
    <3> QED BY <3>3, <3>4, <3>5 DEF EthBridgeTypeOK, bridgeConfigVars
  <2> QED BY <2>1, <2>2, <2>3, <2>4, EthSteps DEF ethereumVars
<1> QED BY <1>1, <1>2, SafeTypeCorrect, PTL DEF EthSpec

------------------------------------------------------------------------------
(* Quorum *)

(***************************************************************************)
(* A batch is only paid out when quorum many accounts that are relayers at *)
(* that moment signed exactly its nonce and transfers, however often       *)
(* signatures are repeated in the call and whoever was added, removed or   *)
(* signed before (executeTransfer, _validateQuorum).                       *)
(***************************************************************************)
THEOREM ExecutionsHaveQuorum == EthSpec => ExecutionHasQuorum
<1> DEFINE Signed(message) ==
               {r \in ethRelayers : [signer |-> r, message |-> message] \in ethSignatures}
           A == \A n \in DOMAIN executions' \ DOMAIN executions :
                  LET message == Message(executions'[n].nonce, executions'[n].transfers) IN
                  Cardinality(Signed(message)) >= ethQuorum
<1>1. ERC20SafeTypeOK /\ EthBridgeTypeOK /\ [EthNext]_ethereumVars => [A]_executions
  <2> SUFFICES ASSUME ERC20SafeTypeOK, EthBridgeTypeOK, [EthNext]_ethereumVars,
                      executions' # executions
               PROVE  A
    OBVIOUS
  <2>1. BatchExecuted
    BY EthSteps, BridgeConfigOnly DEF ethereumVars, bridgeVars, MessageSigned, SignMessage
  <2>2. PICK nonce, transfers, statuses : PaidOut(nonce, transfers, statuses)
    BY <2>1, ExecutionPays
  <2> DEFINE e == [nonce |-> nonce, transfers |-> transfers, statuses |-> statuses]
  <2>3. executions' = Append(executions, e)
    BY <2>2 DEF PaidOut
  <2>4. /\ DOMAIN executions' \ DOMAIN executions = {Len(executions) + 1}
        /\ executions'[Len(executions) + 1] = e
    <3>1. executions \in Seq([nonce : MvxBatchNonces, transfers : MvxTransferLists,
                              statuses : Seq({"Executed", "Rejected"})])
      BY DEF EthBridgeTypeOK
    <3> HIDE DEF e
    <3> QED BY <2>3, <3>1
  <2>5. Cardinality(Signed(Message(nonce, transfers))) >= ethQuorum
    BY <2>2 DEF PaidOut
  <2> HIDE DEF Signed
  <2> QED BY <2>4, <2>5
<1> QED BY <1>1, SafeTypeCorrect, BridgeTypeCorrect, PTL DEF EthSpec, ExecutionHasQuorum

------------------------------------------------------------------------------
(* Batches *)

\* Only deposit changes the batches, and it changes no configuration.
LEMMA OnlyDepositsChangeBatches ==
    ASSUME ERC20SafeTypeOK, EthBridgeTypeOK, [EthNext]_ethereumVars
    PROVE  /\ \/ DepositMade /\ UNCHANGED <<ethBlock, erc20ConfigVars>>
              \/ UNCHANGED depositVars
           /\ ethBlock' \in Nat /\ ethBlock' >= ethBlock
           /\ SafeConfigured \/ UNCHANGED erc20ConfigVars
<1>1. ethBlock \in Nat
  BY DEF ERC20SafeTypeOK
<1>2. CASE DepositMade /\ UNCHANGED <<ethBlock, bridgeVars>>
  <2>1. UNCHANGED erc20ConfigVars
    BY <1>2 DEF DepositMade, DepositTokens
  <2> QED BY <1>1, <1>2, <2>1
<1>3. CASE SomeTokensMoved /\ UNCHANGED <<ethBlock, bridgeVars>>
  <2>1. UNCHANGED <<depositVars, erc20ConfigVars>>
    BY <1>3 DEF SomeTokensMoved, TokensMoved, SendDirectly, ClaimServiceFees, InitSupply,
       RecoverLostFunds
  <2> QED BY <1>1, <1>3, <2>1
<1>4. CASE SafeConfigured /\ UNCHANGED <<ethBlock, bridgeVars>>
  BY <1>1, <1>4, ConfigOnly
<1>5. CASE NextEthBlock /\ UNCHANGED <<erc20Vars, bridgeVars>>
  BY <1>1, <1>5 DEF NextEthBlock, erc20Vars
<1>6. CASE MessageSigned \/ BridgeAdminNext \/ UNCHANGED ethereumVars
  <2>1. UNCHANGED <<ethBlock, erc20Vars>>
    BY <1>6, BridgeConfigOnly DEF MessageSigned, SignMessage, ethereumVars
  <2> QED BY <1>1, <2>1 DEF erc20Vars
<1>7. CASE BatchExecuted
  <2>1. PICK nonce, transfers, statuses : PaidOut(nonce, transfers, statuses)
    BY <1>7, ExecutionPays
  <2>2. UNCHANGED <<ethBlock, depositVars, erc20ConfigVars>>
    BY <2>1 DEF PaidOut
  <2> QED BY <1>1, <2>2
<1> QED BY <1>2, <1>3, <1>4, <1>5, <1>6, <1>7, EthSteps

\* A batch stays open no longer than it takes to settle.
LimitsOrdered == batchBlockLimit <= batchSettleLimit

\* Batches are never empty, and follow each other in time.
BatchesInTime ==
    /\ \A n \in 1 .. Len(batches) :
          /\ batches[n].deposits # <<>>
          /\ batches[n].blockNumber <= batches[n].lastUpdatedBlockNumber
          /\ batches[n].lastUpdatedBlockNumber <= ethBlock
    /\ \A m, n \in 1 .. Len(batches) :
          m < n => batches[m].lastUpdatedBlockNumber <= batches[n].blockNumber

LEMMA LimitsStayOrdered == EthSpec => []LimitsOrdered
<1>1. EthInit => LimitsOrdered
  BY ERC20SafeAssumption DEF EthInit, ERC20SafeDeployed, LimitsOrdered
<1>2. ERC20SafeTypeOK /\ EthBridgeTypeOK /\ LimitsOrdered /\ [EthNext]_ethereumVars
         => LimitsOrdered'
  <2> SUFFICES ASSUME ERC20SafeTypeOK, EthBridgeTypeOK, LimitsOrdered, [EthNext]_ethereumVars
               PROVE  LimitsOrdered'
    OBVIOUS
  <2>1. CASE UNCHANGED erc20ConfigVars
    BY <2>1 DEF LimitsOrdered, erc20ConfigVars
  <2>2. CASE SafeConfigured
    BY <2>2, ERC20SafeAssumption DEF LimitsOrdered, ERC20SafeTypeOK, SafeConfigured, WhitelistToken,
       RemoveTokenFromWhitelist, SetTokenMinLimit, SetTokenMaxLimit, SetServiceFee,
       SetBatchSize, SetBatchBlockLimit, SetBatchSettleLimit, ERC20SetPaused
  <2> QED BY <2>1, <2>2, OnlyDepositsChangeBatches
<1> QED BY <1>1, <1>2, SafeTypeCorrect, BridgeTypeCorrect, PTL DEF EthSpec

\* What a deposit adds to the end of the batches: a new one, or one more deposit in the last.
BatchAdded(b, new) ==
    /\ b \in Batch /\ new \in Deposit
    /\ b.blockNumber = ethBlock /\ b.lastUpdatedBlockNumber = ethBlock
    /\ b.deposits = <<new>>
    /\ Len(batches') = Len(batches) + 1
    /\ batches' = Append(batches, b)
    /\ \A n \in 1 .. Len(batches) : batches'[n] = batches[n]
    /\ batches'[Len(batches) + 1] = b

BatchExtended(b, new) ==
    /\ b \in Batch /\ new \in Deposit
    /\ ~ShouldCreateNewBatch
    /\ Len(batches) > 0
    /\ b.blockNumber = batches[Len(batches)].blockNumber
    /\ b.lastUpdatedBlockNumber = ethBlock
    /\ b.deposits = Append(batches[Len(batches)].deposits, new)
    /\ Len(batches') = Len(batches)
    /\ batches' = [batches EXCEPT ![Len(batches)] = b]
    /\ \A n \in 1 .. Len(batches) - 1 : batches'[n] = batches[n]
    /\ batches'[Len(batches)] = b

LEMMA DepositAddsOrExtends ==
    ASSUME ERC20SafeTypeOK, NEW token \in Tokens, NEW amount \in Nat,
           NEW recipient \in DepositRecipients, DepositTokens(token, amount, recipient)
    PROVE  \E b \in Batch :
              \/ BatchAdded(b, NewDeposit(token, amount, recipient))
              \/ BatchExtended(b, NewDeposit(token, amount, recipient))
<1> DEFINE new == NewDeposit(token, amount, recipient)
<1>1. PICK d \in Deposit, b \in Batch :
           /\ d = new
           /\ b.lastUpdatedBlockNumber = ethBlock
           /\ ShouldCreateNewBatch =>
                 /\ batches' = Append(batches, b)
                 /\ b.blockNumber = ethBlock
                 /\ b.deposits = <<d>>
           /\ ~ShouldCreateNewBatch =>
                 /\ Len(batches) \in 1 .. Len(batches)
                 /\ batches' = [batches EXCEPT ![Len(batches)] = b]
                 /\ b.blockNumber = batches[Len(batches)].blockNumber
                 /\ b.deposits = Append(batches[Len(batches)].deposits, d)
           /\ batches' \in Seq(Batch)
  BY DepositBatches
<1>2. new \in Deposit
  BY <1>1
<1> HIDE DEF new
<1>3. batches \in Seq(Batch) /\ Len(batches) \in Nat
  BY DEF ERC20SafeTypeOK
<1>4. CASE ShouldCreateNewBatch
  <2>1. /\ Len(batches') = Len(batches) + 1
        /\ \A n \in 1 .. Len(batches) : batches'[n] = batches[n]
        /\ batches'[Len(batches) + 1] = b
    BY <1>1, <1>3, <1>4, AppendProperties
  <2>2. b.deposits = <<new>> /\ b.blockNumber = ethBlock /\ b.lastUpdatedBlockNumber = ethBlock
    BY <1>1, <1>4
  <2>3. BatchAdded(b, new)
    BY <1>1, <1>2, <1>4, <2>1, <2>2 DEF BatchAdded
  <2> QED BY <2>3 DEF new
<1>5. CASE ~ShouldCreateNewBatch
  <2>1. Len(batches) \in 1 .. Len(batches) /\ batches' = [batches EXCEPT ![Len(batches)] = b]
    BY <1>1, <1>5
  <2>2. /\ Len(batches') = Len(batches)
        /\ \A n \in 1 .. Len(batches) - 1 : batches'[n] = batches[n]
        /\ batches'[Len(batches)] = b
    BY <1>1, <1>3, <2>1
  <2>3. /\ b.deposits = Append(batches[Len(batches)].deposits, new)
        /\ b.blockNumber = batches[Len(batches)].blockNumber
        /\ b.lastUpdatedBlockNumber = ethBlock
    BY <1>1, <1>5
  <2>4. Len(batches) > 0
    BY <1>3, <2>1, SMTT(20)
  <2>5. BatchExtended(b, new)
    BY <1>2, <1>5, <2>1, <2>2, <2>3, <2>4 DEF BatchExtended
  <2> QED BY <2>5 DEF new
<1> QED BY <1>4, <1>5

\* The same, for some deposit.
LEMMA DepositStep ==
    ASSUME ERC20SafeTypeOK, DepositMade
    PROVE  \E b \in Batch, new \in Deposit :
              /\ BatchAdded(b, new) \/ BatchExtended(b, new)
              /\ new.nonce = depositsCount + 1
              /\ depositsCount' = depositsCount + 1
              /\ tokenBalances' = [tokenBalances EXCEPT ![new.token] = @ + new.amount]
              /\ \E fee \in Nat :
                    /\ serviceFees' = serviceFees + fee
                    /\ erc20Balance' = [erc20Balance EXCEPT ![new.token] = @ + (new.amount + fee)]
              /\ UNCHANGED <<supplied, gifts, recovered>>
<1>1. PICK token \in Tokens, amount \in Nat, recipient \in DepositRecipients :
             DepositTokens(token, amount, recipient)
  BY DEF DepositMade
<1> DEFINE new == NewDeposit(token, amount, recipient)
           fee == DeductedFee(amount)
<1>2. PICK b \in Batch : BatchAdded(b, new) \/ BatchExtended(b, new)
  BY <1>1, DepositAddsOrExtends
<1>3. fee \in Nat /\ fee <= amount
  BY FeeWithinAmount
<1>4. /\ depositsCount' = depositsCount + 1
      /\ tokenBalances' = [tokenBalances EXCEPT ![token] = @ + (amount - fee)]
      /\ serviceFees' = serviceFees + fee
      /\ erc20Balance' = [erc20Balance EXCEPT ![token] = @ + amount]
      /\ UNCHANGED <<supplied, gifts, recovered>>
  BY <1>1 DEF DepositTokens
<1> HIDE DEF fee
<1>5. new.nonce = depositsCount + 1 /\ new.token = token /\ new.amount = amount - fee
  BY DEF NewDeposit, fee
<1> HIDE DEF new
<1>6. new \in Deposit
  BY <1>2 DEF BatchAdded, BatchExtended
<1>7. new.amount + fee = amount
  BY <1>3, <1>5
<1> QED BY <1>2, <1>3, <1>4, <1>5, <1>6, <1>7

\* Blocks pass, or somebody deposits.
BatchesStep ==
    \/ DepositMade /\ UNCHANGED ethBlock
    \/ UNCHANGED depositVars /\ ethBlock' \in Nat /\ ethBlock' >= ethBlock

LEMMA BatchesInTimeStep ==
    ASSUME ERC20SafeTypeOK, BatchesInTime, BatchesStep
    PROVE  BatchesInTime'
<1>1. /\ ethBlock \in Nat /\ batches \in Seq(Batch) /\ Len(batches) \in Nat
      /\ \A n \in 1 .. Len(batches) :
            batches[n].blockNumber \in Nat /\ batches[n].lastUpdatedBlockNumber \in Nat
  <2>1. ethBlock \in Nat /\ batches \in Seq(Batch) /\ Len(batches) \in Nat
    BY DEF ERC20SafeTypeOK
  <2>2. \A n \in 1 .. Len(batches) : batches[n] \in Batch
    BY <2>1, ElementOfSeq
  <2> QED BY <2>1, <2>2 DEF Batch
<1>2. CASE UNCHANGED depositVars /\ ethBlock' \in Nat /\ ethBlock' >= ethBlock
  BY <1>1, <1>2 DEF BatchesInTime, depositVars
<1>3. CASE DepositMade /\ UNCHANGED ethBlock
  <2>1. PICK b \in Batch, new \in Deposit : BatchAdded(b, new) \/ BatchExtended(b, new)
    BY <1>3, DepositStep
  <2> DEFINE last == Len(batches)
  <2>2. ASSUME NEW k \in Nat, k <= last, NEW at \in {k, k + 1}, Len(batches') = at,
               \A n \in 1 .. k : n # at => batches'[n] = batches[n],
               at \in 1 .. at, batches'[at] = b,
               b.deposits # <<>>, b.blockNumber \in Nat, b.blockNumber <= ethBlock,
               b.lastUpdatedBlockNumber = ethBlock,
               \A m \in 1 .. k : m # at => batches[m].lastUpdatedBlockNumber <= b.blockNumber
        PROVE  BatchesInTime'
    <3>1. \A n \in 1 .. at : n # at => n \in 1 .. k /\ n \in 1 .. last
      BY <1>1, <2>2
    <3>2. \A n \in 1 .. at : n # at => batches'[n] = batches[n]
      BY <2>2, <3>1
    <3>3. \A n \in 1 .. at :
             /\ batches'[n].deposits # <<>>
             /\ batches'[n].blockNumber <= batches'[n].lastUpdatedBlockNumber
             /\ batches'[n].lastUpdatedBlockNumber <= ethBlock
      <4> SUFFICES ASSUME NEW n \in 1 .. at
                   PROVE  /\ batches'[n].deposits # <<>>
                          /\ batches'[n].blockNumber <= batches'[n].lastUpdatedBlockNumber
                          /\ batches'[n].lastUpdatedBlockNumber <= ethBlock
        OBVIOUS
      <4>1. CASE n = at
        BY <1>1, <2>2, <4>1
      <4>2. CASE n # at
        BY <3>1, <3>2, <4>2 DEF BatchesInTime
      <4> QED BY <4>1, <4>2
    <3>4. \A m, n \in 1 .. at :
             m < n => batches'[m].lastUpdatedBlockNumber <= batches'[n].blockNumber
      <4> SUFFICES ASSUME NEW m \in 1 .. at, NEW n \in 1 .. at, m < n
                   PROVE  batches'[m].lastUpdatedBlockNumber <= batches'[n].blockNumber
        OBVIOUS
      <4>1. m # at
        BY <2>2
      <4> QED BY <1>1, <2>2, <3>1, <3>2, <4>1 DEF BatchesInTime
    <3> QED BY <1>3, <2>2, <3>3, <3>4 DEF BatchesInTime
  <2>3. CASE BatchAdded(b, new)
    <3>1. b.deposits # <<>> /\ b.blockNumber = ethBlock /\ b.lastUpdatedBlockNumber = ethBlock
      BY <2>3 DEF BatchAdded
    <3>2. /\ Len(batches') = last + 1 /\ batches'[last + 1] = b
          /\ \A n \in 1 .. last : batches'[n] = batches[n]
      BY <2>3 DEF BatchAdded
    <3>3. \A m \in 1 .. last : batches[m].lastUpdatedBlockNumber <= ethBlock
      BY DEF BatchesInTime
    <3> HIDE DEF last
    <3>4. last \in Nat /\ last + 1 \in 1 .. last + 1 /\ last + 1 \in {last, last + 1} /\ last <= last
      BY <1>1 DEF last
    <3>5. b.blockNumber \in Nat /\ b.blockNumber <= ethBlock
      BY <1>1, <3>1
    <3>6. \A m \in 1 .. last : batches[m].lastUpdatedBlockNumber <= b.blockNumber
      BY <3>1, <3>3
    <3> QED BY <2>2, <3>1, <3>2, <3>4, <3>5, <3>6
  <2>4. CASE BatchExtended(b, new)
    <3>p. last > 0
      BY <2>4 DEF BatchExtended
    <3>1. last \in 1 .. last /\ batches[last] \in Batch
      BY <1>1, <3>p
    <3>2. b.deposits # <<>>
      <4>1. batches[last].deposits \in Seq(Deposit)
        BY <3>1 DEF Batch
      <4>2. b.deposits = Append(batches[last].deposits, new)
        BY <2>4 DEF BatchExtended
      <4> HIDE DEF last
      <4> QED BY <4>1, <4>2, AppendProperties
    <3>3. /\ b.blockNumber = batches[last].blockNumber /\ b.lastUpdatedBlockNumber = ethBlock
          /\ Len(batches') = last /\ batches'[last] = b
          /\ \A n \in 1 .. last - 1 : batches'[n] = batches[n]
      BY <2>4 DEF BatchExtended
    <3>4. b.blockNumber \in Nat /\ b.blockNumber <= ethBlock
      BY <1>1, <3>1, <3>3 DEF BatchesInTime
    <3>5. \A m \in 1 .. last : m # last => batches[m].lastUpdatedBlockNumber <= b.blockNumber
      BY <1>1, <3>1, <3>3 DEF BatchesInTime
    <3>6. \A n \in 1 .. last : n # last => batches'[n] = batches[n]
      BY <1>1, <3>3
    <3> HIDE DEF last
    <3>7. last \in Nat /\ last \in {last, last + 1} /\ last <= last
      BY <1>1 DEF last
    <3> QED BY <2>2, <3>1, <3>2, <3>3, <3>4, <3>5, <3>6, <3>7
  <2> QED BY <2>1, <2>3, <2>4
<1> QED BY <1>2, <1>3 DEF BatchesStep

LEMMA BatchesStayInTime == EthSpec => []BatchesInTime
<1>1. EthInit => BatchesInTime
  BY DEF EthInit, ERC20SafeDeployed, BatchesInTime
<1>2. ERC20SafeTypeOK /\ EthBridgeTypeOK /\ BatchesInTime /\ [EthNext]_ethereumVars
         => BatchesInTime'
  BY OnlyDepositsChangeBatches, BatchesInTimeStep DEF BatchesStep
<1> QED BY <1>1, <1>2, SafeTypeCorrect, BridgeTypeCorrect, PTL DEF EthSpec

\* A final batch is not changed by the step, and stays final if the limit is not raised.
LEMMA FinalBatchStaysFixed ==
    ASSUME ERC20SafeTypeOK, ERC20SafeTypeOK', LimitsOrdered, BatchesInTime, BatchesStep,
           NEW n \in DOMAIN batches, IsBatchFinalEth(batches[n])
    PROVE  /\ batches'[n] = batches[n]
           /\ batchSettleLimit' <= batchSettleLimit => IsBatchFinalEth(batches[n])'
<1>1. /\ ethBlock \in Nat /\ batches \in Seq(Batch) /\ Len(batches) \in Nat
      /\ n \in 1 .. Len(batches) /\ batches[n] \in Batch
      /\ batches[n].blockNumber \in Nat /\ batches[n].lastUpdatedBlockNumber \in Nat
      /\ batchBlockLimit \in Nat /\ batchSettleLimit \in Nat /\ batchSettleLimit' \in Nat
  <2>1. ethBlock \in Nat /\ batches \in Seq(Batch) /\ Len(batches) \in Nat
    BY DEF ERC20SafeTypeOK
  <2>2. n \in 1 .. Len(batches) /\ batches[n] \in Batch
    BY <2>1
  <2>3. batchBlockLimit \in Nat /\ batchSettleLimit \in Nat /\ batchSettleLimit' \in Nat
    BY DEF ERC20SafeTypeOK
  <2> QED BY <2>1, <2>2, <2>3 DEF Batch
<1>2. batches'[n] = batches[n]
  <2>1. CASE UNCHANGED depositVars
    BY <2>1 DEF depositVars
  <2>2. CASE DepositMade
    <3>1. PICK b \in Batch, new \in Deposit : BatchAdded(b, new) \/ BatchExtended(b, new)
      BY <2>2, DepositStep
    <3>2. CASE BatchAdded(b, new)
      BY <1>1, <3>2 DEF BatchAdded
    <3>3. CASE BatchExtended(b, new)
      <4>1. n # Len(batches)
        <5> SUFFICES ASSUME n = Len(batches) PROVE FALSE
          OBVIOUS
        <5>1. batches[n].blockNumber + batchBlockLimit < ethBlock
          BY <1>1 DEF IsBatchFinalEth, LimitsOrdered, BatchesInTime
        <5>2. batches[n].deposits # <<>>
          BY <1>1 DEF BatchesInTime
        <5>3. ShouldCreateNewBatch
          BY <5>1, <5>2 DEF ShouldCreateNewBatch, IsBatchProgressOver
        <5> QED BY <3>3, <5>3 DEF BatchExtended
      <4> QED BY <1>1, <3>3, <4>1 DEF BatchExtended
    <3> QED BY <3>1, <3>2, <3>3
  <2> QED BY <2>1, <2>2 DEF BatchesStep
<1>3. ethBlock' \in Nat /\ ethBlock' >= ethBlock
  BY <1>1 DEF BatchesStep
<1>4. ASSUME batchSettleLimit' <= batchSettleLimit PROVE IsBatchFinalEth(batches[n])'
  BY <1>1, <1>2, <1>3, <1>4 DEF IsBatchFinalEth
<1> QED BY <1>2, <1>4

(***************************************************************************)
(* A batch the relayers can read is never changed again, and stays         *)
(* readable unless the admin raises the settle limit (deposit,             *)
(* _shouldCreateNewBatch, setBatchBlockLimit, setBatchSettleLimit).  It    *)
(* rests on LimitsOrdered: a batch that is settled is over, so deposit     *)
(* opens the next one.                                                     *)
(***************************************************************************)
THEOREM FinalBatchesStayFixed == EthSpec => FinalBatchesAreFixed
<1> DEFINE A == \A n \in DOMAIN batches :
                  IsBatchFinalEth(batches[n]) =>
                     /\ batches'[n] = batches[n]
                     /\ batchSettleLimit' <= batchSettleLimit => IsBatchFinalEth(batches[n])'
<1>1. ERC20SafeTypeOK /\ ERC20SafeTypeOK' /\ EthBridgeTypeOK /\ LimitsOrdered /\ BatchesInTime
         /\ [EthNext]_ethereumVars => A
  <2> SUFFICES ASSUME ERC20SafeTypeOK, ERC20SafeTypeOK', EthBridgeTypeOK, LimitsOrdered,
                      BatchesInTime, [EthNext]_ethereumVars
               PROVE  A
    OBVIOUS
  <2>1. BatchesStep
    BY OnlyDepositsChangeBatches DEF BatchesStep
  <2> QED BY <2>1, FinalBatchStaysFixed
<1> QED BY <1>1, SafeTypeCorrect, BridgeTypeCorrect, LimitsStayOrdered, BatchesStayInTime, PTL
        DEF EthSpec, FinalBatchesAreFixed

------------------------------------------------------------------------------
(* The order of deposits *)

\* The deposits of each batch, and of all of them.
DepositLists == [n \in DOMAIN batches |-> batches[n].deposits]
EveryDeposit == FlattenSeq(DepositLists)

\* The nonces count the deposits.
NoncesCount ==
    /\ Len(EveryDeposit) = depositsCount
    /\ \A i \in 1 .. Len(EveryDeposit) : EveryDeposit[i].nonce = i

\* The lists are sequences of deposits.
LEMMA DepositListsType ==
    ASSUME batches \in Seq(Batch)
    PROVE  /\ DepositLists \in Seq(Seq(Deposit))
           /\ Len(DepositLists) = Len(batches)
           /\ \A n \in 1 .. Len(batches) : DepositLists[n] = batches[n].deposits
           /\ EveryDeposit \in Seq(Deposit)
<1>1. \A n \in 1 .. Len(batches) : batches[n].deposits \in Seq(Deposit)
  <2>1. \A n \in 1 .. Len(batches) : batches[n] \in Batch
    BY ElementOfSeq
  <2> QED BY <2>1 DEF Batch
<1>2. DOMAIN batches = 1 .. Len(batches) /\ Len(batches) \in Nat
  OBVIOUS
<1>3. /\ DepositLists \in Seq(Seq(Deposit)) /\ Len(DepositLists) = Len(batches)
      /\ \A n \in 1 .. Len(batches) : DepositLists[n] = batches[n].deposits
  BY <1>1, <1>2 DEF DepositLists
<1> QED BY <1>3, FlattenType DEF EveryDeposit

\* A deposit becomes the last of all.
LEMMA DepositComesLast ==
    ASSUME batches \in Seq(Batch), batches' \in Seq(Batch), NEW b, NEW new,
           BatchAdded(b, new) \/ BatchExtended(b, new)
    PROVE  EveryDeposit' = Append(EveryDeposit, new)
<1> DEFINE lists == DepositLists
           more == DepositLists'
           k == Len(batches)
<1>1. /\ lists \in Seq(Seq(Deposit)) /\ Len(lists) = k
      /\ \A n \in 1 .. k : lists[n] = batches[n].deposits
      /\ EveryDeposit \in Seq(Deposit)
  BY DepositListsType
<1>2. /\ more \in Seq(Seq(Deposit)) /\ Len(more) = Len(batches')
      /\ \A n \in 1 .. Len(batches') : more[n] = batches'[n].deposits
  <2>1. batches' \in Seq(Batch)
    OBVIOUS
  <2>2. \A n \in 1 .. Len(batches') : batches'[n].deposits \in Seq(Deposit)
    <3>1. \A n \in 1 .. Len(batches') : batches'[n] \in Batch
      BY <2>1, ElementOfSeq
    <3> QED BY <3>1 DEF Batch
  <2>3. DOMAIN batches' = 1 .. Len(batches') /\ Len(batches') \in Nat
    BY <2>1
  <2> QED BY <2>2, <2>3 DEF DepositLists
<1>3. new \in Deposit
  BY DEF BatchAdded, BatchExtended
<1>4. k \in Nat
  OBVIOUS
<1> HIDE DEF lists, more, k
<1>5. CASE BatchAdded(b, new)
  <2>1. /\ Len(batches') = k + 1 /\ b.deposits = <<new>>
        /\ \A n \in 1 .. k : batches'[n] = batches[n]
        /\ batches'[k + 1] = b
    BY <1>5 DEF BatchAdded, k
  <2>2. more[k + 1] = <<new>>
    BY <1>2, <1>4, <2>1
  <2>3. \A n \in 1 .. k : more[n] = lists[n]
    <3>1. 1 .. k \subseteq 1 .. Len(batches')
      BY <1>4, <2>1
    <3> QED BY <1>1, <1>2, <2>1, <3>1
  <2>4. FlattenSeq(more) = Append(FlattenSeq(lists), new)
    <3>1. /\ Len(more) = Len(lists) + 1 /\ more[Len(lists) + 1] = <<new>>
          /\ \A n \in 1 .. Len(lists) : more[n] = lists[n]
      BY <1>1, <1>2, <2>1, <2>2, <2>3, SMTT(20)
    <3> QED BY <1>1, <1>2, <1>3, <3>1, FlattenNew
  <2> QED BY <2>4 DEF EveryDeposit, more, lists
<1>6. CASE BatchExtended(b, new)
  <2>1. /\ Len(batches') = k /\ k > 0 /\ b.deposits = Append(batches[k].deposits, new)
        /\ \A n \in 1 .. k - 1 : batches'[n] = batches[n]
        /\ batches'[k] = b
    BY <1>6, ZenonT(30) DEF BatchExtended, k
  <2>2. k \in 1 .. k /\ 1 .. k - 1 \subseteq 1 .. k /\ k # 0
    BY <1>4, <2>1
  <2>3. more[k] = Append(lists[k], new)
    BY <1>1, <1>2, <2>1, <2>2
  <2>4. \A n \in 1 .. k - 1 : more[n] = lists[n]
    BY <1>1, <1>2, <2>1, <2>2
  <2>5. FlattenSeq(more) = Append(FlattenSeq(lists), new)
    <3>1. Len(lists) # 0 /\ Len(more) = Len(lists)
      BY <1>1, <1>2, <2>1, <2>2
    <3> QED BY <1>1, <1>2, <1>3, <2>3, <2>4, <3>1, FlattenExtend
  <2> QED BY <2>5 DEF EveryDeposit, more, lists
<1> QED BY <1>5, <1>6

LEMMA NoncesCountInit ==
    ASSUME NEW ready, NEW supply, ERC20SafeDeployed(ready, supply)
    PROVE  NoncesCount
<1>1. batches = <<>> /\ depositsCount = 0
  BY DEF ERC20SafeDeployed
<1>2. DepositLists = <<>>
  BY <1>1 DEF DepositLists
<1>3. EveryDeposit = <<>>
  BY <1>2, FlattenNone DEF EveryDeposit
<1> QED BY <1>1, <1>3 DEF NoncesCount

LEMMA NoncesCountStep ==
    ASSUME ERC20SafeTypeOK, ERC20SafeTypeOK', NoncesCount, BatchesStep
    PROVE  NoncesCount'
<1>1. CASE UNCHANGED depositVars
  BY <1>1 DEF depositVars, NoncesCount, EveryDeposit, DepositLists
<1>2. CASE DepositMade
  <2>1. PICK b \in Batch, new \in Deposit :
           /\ BatchAdded(b, new) \/ BatchExtended(b, new)
           /\ new.nonce = depositsCount + 1
           /\ depositsCount' = depositsCount + 1
    BY <1>2, DepositStep
  <2>2. batches \in Seq(Batch) /\ batches' \in Seq(Batch)
    BY DEF ERC20SafeTypeOK
  <2> DEFINE all == EveryDeposit
             more == EveryDeposit'
  <2>3. more = Append(all, new)
    BY <2>1, <2>2, DepositComesLast
  <2>4. all \in Seq(Deposit)
    BY <2>2, DepositListsType
  <2>5. Len(all) = depositsCount /\ \A i \in 1 .. Len(all) : all[i].nonce = i
    BY DEF NoncesCount
  <2> HIDE DEF all, more
  <2>6. /\ Len(more) = Len(all) + 1 /\ more[Len(all) + 1] = new
        /\ \A i \in 1 .. Len(all) : more[i] = all[i]
    BY <2>3, <2>4, AppendProperties
  <2>7. Len(all) \in Nat
    BY <2>4
  <2>8. \A i \in 1 .. Len(more) : i \in 1 .. Len(all) \/ i = Len(all) + 1
    BY <2>6, <2>7
  <2>9. Len(more) = depositsCount' /\ \A i \in 1 .. Len(more) : more[i].nonce = i
    BY <2>1, <2>5, <2>6, <2>8
  <2> QED BY <2>9 DEF NoncesCount, more
<1> QED BY <1>1, <1>2 DEF BatchesStep

LEMMA NoncesAlwaysCount == EthSpec => []NoncesCount
<1>1. EthInit => NoncesCount
  BY NoncesCountInit DEF EthInit
<1>2. ERC20SafeTypeOK /\ ERC20SafeTypeOK' /\ EthBridgeTypeOK /\ NoncesCount
         /\ [EthNext]_ethereumVars => NoncesCount'
  BY OnlyDepositsChangeBatches, NoncesCountStep DEF BatchesStep
<1> QED BY <1>1, <1>2, SafeTypeCorrect, BridgeTypeCorrect, PTL DEF EthSpec

(***************************************************************************)
(* The deposits of all batches, one after the other, carry the nonces      *)
(* 1 .. depositsCount, no batch is empty and only the last one is open,    *)
(* whenever batches are closed and whatever limits are set in between      *)
(* (deposit, _shouldCreateNewBatch).                                       *)
(***************************************************************************)
THEOREM DepositsStayInOrder == EthSpec => []DepositsInOrder
<1>1. ERC20SafeTypeOK /\ BatchesInTime /\ NoncesCount => DepositsInOrder
  <2> SUFFICES ASSUME ERC20SafeTypeOK, BatchesInTime, NoncesCount PROVE DepositsInOrder
    OBVIOUS
  <2>1. batches \in Seq(Batch) /\ DOMAIN batches = 1 .. Len(batches)
    BY DEF ERC20SafeTypeOK
  <2> DEFINE all == EveryDeposit
  <2>2. all \in Seq(Deposit)
    BY <2>1, DepositListsType
  <2>3. Len(all) = depositsCount /\ \A i \in 1 .. Len(all) : all[i].nonce = i
    BY DEF NoncesCount
  <2>4. all = FlattenSeq([n \in DOMAIN batches |-> batches[n].deposits])
    BY DEF EveryDeposit, DepositLists
  <2> HIDE DEF all
  <2>5. [i \in DOMAIN all |-> all[i].nonce] = [i \in 1 .. depositsCount |-> i]
    <3>1. DOMAIN all = 1 .. depositsCount
      BY <2>2, <2>3
    <3> QED BY <2>3, <3>1
  <2>6. /\ \A n \in DOMAIN batches : batches[n].deposits # <<>>
        /\ \A m, n \in DOMAIN batches :
              m < n => batches[m].lastUpdatedBlockNumber <= batches[n].blockNumber
    BY <2>1 DEF BatchesInTime
  <2> QED BY <2>4, <2>5, <2>6 DEF DepositsInOrder
<1> QED BY <1>1, SafeTypeCorrect, BatchesStayInTime, NoncesAlwaysCount, PTL

------------------------------------------------------------------------------
(* Solvency *)

\* What the one token the bridge serves owns is what is booked, the fees, and the gifts.
TokensAccounted(tok) ==
    erc20Balance[tok] + recovered[tok] = tokenBalances[tok] + serviceFees + gifts[tok]

LEMMA TokensMovedAccounted ==
    ASSUME ERC20SafeTypeOK, NEW tok, Tokens = {tok}, TokensAccounted(tok), SomeTokensMoved
    PROVE  TokensAccounted(tok)'
<1>1. PICK token \in Tokens, amount \in Nat : TokensMoved(token, amount)
  BY DEF SomeTokensMoved
<1>2. token = tok /\ tok \in Tokens
  BY <1>1
<1>t. /\ erc20Balance \in [Tokens -> Nat] /\ tokenBalances \in [Tokens -> Nat]
      /\ recovered \in [Tokens -> Nat] /\ gifts \in [Tokens -> Nat] /\ serviceFees \in Nat
  BY DEF ERC20SafeTypeOK
<1> USE <1>t DEF TokensAccounted
<1>3. CASE SendDirectly(token, amount)
  <2>1. /\ gifts' = [gifts EXCEPT ![tok] = @ + amount]
        /\ erc20Balance' = [erc20Balance EXCEPT ![tok] = @ + amount]
        /\ UNCHANGED <<tokenBalances, serviceFees, recovered>>
    BY <1>2, <1>3 DEF SendDirectly
  <2>2. gifts'[tok] = gifts[tok] + amount /\ erc20Balance'[tok] = erc20Balance[tok] + amount
    BY <1>2, <2>1
  <2>3. /\ tokenBalances'[tok] = tokenBalances[tok] /\ recovered'[tok] = recovered[tok]
        /\ serviceFees' = serviceFees
    BY <2>1
  <2>4. /\ tokenBalances[tok] \in Nat /\ erc20Balance[tok] \in Nat /\ gifts[tok] \in Nat
        /\ recovered[tok] \in Nat
    BY <1>2
  <2> QED BY <2>2, <2>3, <2>4
<1>4. CASE ClaimServiceFees(token)
  <2>1. /\ erc20Balance' = [erc20Balance EXCEPT ![tok] = @ - serviceFees] /\ serviceFees' = 0
        /\ UNCHANGED <<tokenBalances, gifts, recovered>>
    BY <1>2, <1>4 DEF ClaimServiceFees
  <2> QED BY <1>2, <2>1
<1>5. CASE InitSupply(token, amount)
  BY <1>2, <1>5 DEF InitSupply
<1>6. CASE RecoverLostFunds(token)
  <2> DEFINE kept == IF token \in whitelistedTokens THEN tokenBalances[token] ELSE 0
  <2>1. kept \in Nat
    OBVIOUS
  <2>2. /\ erc20Balance' = [erc20Balance EXCEPT ![token] = kept]
        /\ recovered' = [recovered EXCEPT ![token] = @ + erc20Balance[token] - kept]
        /\ UNCHANGED <<tokenBalances, serviceFees, gifts>>
    BY <1>6 DEF RecoverLostFunds
  <2> HIDE DEF kept
  <2> QED BY <1>2, <2>1, <2>2
<1> QED BY <1>1, <1>3, <1>4, <1>5, <1>6 DEF TokensMoved

(***************************************************************************)
(* While one token is bridged, the safe owns what it books, through any    *)
(* order of deposits, executions, fee claims and supplies, as long as no   *)
(* more was recovered than was sent by mistake (deposit, transfer,         *)
(* claimServiceFees, initSupply, recoverLostFunds).                        *)
(***************************************************************************)
THEOREM SafeStaysSolvent ==
    ASSUME NEW tok, Tokens = {tok}
    PROVE  EthSpec => []SafeIsSolvent
<1> DEFINE I == TokensAccounted(tok)
<1>1. EthInit => I
  BY DEF EthInit, ERC20SafeDeployed, TokensAccounted
<1>2. ERC20SafeTypeOK /\ EthBridgeTypeOK /\ I /\ [EthNext]_ethereumVars => I'
  <2> SUFFICES ASSUME ERC20SafeTypeOK, EthBridgeTypeOK, I, [EthNext]_ethereumVars PROVE I'
    OBVIOUS
  <2>1. CASE DepositMade
    <3>1. PICK b \in Batch, new \in Deposit :
              /\ tokenBalances' = [tokenBalances EXCEPT ![new.token] = @ + new.amount]
              /\ \E fee \in Nat :
                    /\ serviceFees' = serviceFees + fee
                    /\ erc20Balance' = [erc20Balance EXCEPT ![new.token] = @ + (new.amount + fee)]
              /\ UNCHANGED <<supplied, gifts, recovered>>
      BY <2>1, DepositStep
    <3>2. new.token = tok /\ new.amount \in Nat
      BY DEF Deposit
    <3>3. PICK fee \in Nat :
             /\ serviceFees' = serviceFees + fee
             /\ erc20Balance' = [erc20Balance EXCEPT ![new.token] = @ + (new.amount + fee)]
      BY <3>1
    <3>4. /\ tokenBalances'[tok] = tokenBalances[tok] + new.amount
          /\ erc20Balance'[tok] = erc20Balance[tok] + (new.amount + fee)
      BY <3>1, <3>2, <3>3 DEF ERC20SafeTypeOK
    <3>5. gifts'[tok] = gifts[tok] /\ recovered'[tok] = recovered[tok]
      BY <3>1
    <3>6. /\ tokenBalances[tok] \in Nat /\ erc20Balance[tok] \in Nat /\ gifts[tok] \in Nat
          /\ recovered[tok] \in Nat /\ serviceFees \in Nat
      BY DEF ERC20SafeTypeOK
    <3> QED BY <3>2, <3>3, <3>4, <3>5, <3>6 DEF TokensAccounted
  <2>2. CASE SomeTokensMoved
    BY <2>2, TokensMovedAccounted
  <2>3. CASE BatchExecuted
    <3>1. PICK nonce, transfers, statuses : PaidOut(nonce, transfers, statuses)
      BY <2>3, ExecutionPays
    <3>2. /\ erc20Balance'[tok] - tokenBalances'[tok] = erc20Balance[tok] - tokenBalances[tok]
          /\ tokenBalances' \in [Tokens -> Nat] /\ erc20Balance' \in [Tokens -> Nat]
          /\ UNCHANGED <<serviceFees, gifts, recovered>>
      BY <3>1 DEF PaidOut
    <3>3. /\ tokenBalances[tok] \in Nat /\ erc20Balance[tok] \in Nat /\ gifts[tok] \in Nat
          /\ tokenBalances'[tok] \in Nat /\ erc20Balance'[tok] \in Nat
          /\ recovered[tok] \in Nat /\ serviceFees \in Nat
      BY <3>2 DEF ERC20SafeTypeOK
    <3> QED BY <3>2, <3>3 DEF TokensAccounted
  <2>4. CASE UNCHANGED erc20TokenVars
    BY <2>4 DEF TokensAccounted, erc20TokenVars
  <2>5. SafeConfigured => UNCHANGED erc20TokenVars
    BY ConfigOnly
  <2>6. MessageSigned \/ BridgeAdminNext \/ UNCHANGED ethereumVars => UNCHANGED erc20Vars
    BY BridgeConfigOnly DEF MessageSigned, SignMessage, ethereumVars
  <2> QED BY <2>1, <2>2, <2>3, <2>4, <2>5, <2>6, EthSteps DEF erc20Vars
<1>3. ERC20SafeTypeOK /\ I => SafeIsSolvent
  BY DEF ERC20SafeTypeOK, SafeIsSolvent, TokensAccounted
<1> QED BY <1>1, <1>2, <1>3, SafeTypeCorrect, BridgeTypeCorrect, PTL DEF EthSpec

------------------------------------------------------------------------------
(* The books *)

\* The positions of a token's deposits.
Positions(list, t) == {i \in DOMAIN list : list[i].token = t}

\* What a list of deposits brings is an integer.
LEMMA AmountsInt ==
    ASSUME NEW S, NEW list \in Seq(S), \A i \in 1 .. Len(list) : list[i].amount \in Nat,
           NEW I, I \subseteq 1 .. Len(list)
    PROVE  AmountsOf(list, I) \in Int
<1> DEFINE f == [i \in DOMAIN list |-> list[i].amount]
<1>1. IsFiniteSet(I)
  <2>1. IsFiniteSet(1 .. Len(list))
    BY FS_Interval
  <2> QED BY <2>1, FS_Subset
<1>2. \A i \in I : f[i] \in Int
  OBVIOUS
<1> HIDE DEF f
<1>3. SumFunctionOnSet(f, I) \in Int
  BY <1>1, <1>2, SumInt
<1> QED BY <1>3 DEF AmountsOf, f

\* One deposit more in a list.
LEMMA OneDepositMore ==
    ASSUME NEW list \in Seq(Deposit), NEW new \in Deposit, NEW t
    PROVE  LET old == AmountsOf(list, Positions(list, t))
               more == AmountsOf(Append(list, new), Positions(Append(list, new), t))
           IN  /\ old \in Int
               /\ new.token = t => more = old + new.amount
               /\ new.token # t => more = old
<1> DEFINE l == Append(list, new)
           k == Len(list)
           I == Positions(list, t)
           f == [i \in DOMAIN list |-> list[i].amount]
           h == [i \in DOMAIN l |-> l[i].amount]
<1>1. k \in Nat /\ DOMAIN list = 1 .. k
  OBVIOUS
<1>2. /\ l \in Seq(Deposit) /\ Len(l) = k + 1 /\ DOMAIN l = 1 .. k + 1
      /\ l[k + 1] = new /\ \A i \in 1 .. k : l[i] = list[i]
  BY AppendProperties
<1> HIDE DEF l, k
<1>3. /\ \A i \in 1 .. k : list[i].amount \in Nat
      /\ \A i \in 1 .. k + 1 : l[i].amount \in Nat
  <2>1. (\A i \in 1 .. k : list[i] \in Deposit) /\ (\A i \in 1 .. k + 1 : l[i] \in Deposit)
    BY <1>1, <1>2
  <2> QED BY <2>1 DEF Deposit
<1>4. I \subseteq 1 .. k /\ I \subseteq 1 .. k + 1 /\ k + 1 \notin I /\ k + 1 \in 1 .. k + 1
  BY <1>1 DEF Positions
<1>5. /\ new.token = t => Positions(l, t) = I \cup {k + 1}
      /\ new.token # t => Positions(l, t) = I
  <2>1. 1 .. k + 1 = 1 .. k \cup {k + 1}
    BY <1>1
  <2> QED BY <1>1, <1>2, <2>1 DEF Positions
<1> HIDE DEF I
<1>6. AmountsOf(l, I) = AmountsOf(list, I)
  <2>1. IsFiniteSet(I)
    <3>1. IsFiniteSet(1 .. k)
      BY <1>1, FS_Interval
    <3> QED BY <1>4, <3>1, FS_Subset
  <2>2. \A i \in I : f[i] \in Int /\ h[i] = f[i]
    BY <1>1, <1>2, <1>3, <1>4
  <2> HIDE DEF f, h
  <2>3. SumFunctionOnSet(h, I) = SumFunctionOnSet(f, I)
    BY <2>1, <2>2, SumSame
  <2> QED BY <2>3 DEF AmountsOf, f, h
<1>7. AmountsOf(list, I) \in Int
  BY <1>3, <1>4, AmountsInt DEF k
<1>8. AmountsOf(l, I \cup {k + 1}) = l[k + 1].amount + AmountsOf(l, I)
  BY <1>2, <1>3, <1>4, AmountsAdd
<1>9. new.amount \in Int
  BY DEF Deposit
<1> DEFINE old == AmountsOf(list, I)
           more == AmountsOf(l, Positions(l, t))
<1>10. old \in Int
  BY <1>7
<1>11. ASSUME new.token = t PROVE more = old + new.amount
  <2>1. more = AmountsOf(l, I \cup {k + 1})
    BY <1>5, <1>11
  <2>2. more = new.amount + old
    BY <1>2, <1>6, <1>8, <2>1
  <2> HIDE DEF more, old
  <2> QED BY <1>9, <1>10, <2>2
<1>12. ASSUME new.token # t PROVE more = old
  BY <1>5, <1>6, <1>12
<1> QED BY <1>10, <1>11, <1>12 DEF l, I

\* The deposits of one token, batch by batch, and its payments, execution by execution.
DepositedPerBatch(t) == [n \in DOMAIN batches |-> DepositedIn(batches[n], t)]
PaidPerExecution(t) == [n \in DOMAIN executions |-> PaidBy(executions[n], t)]

\* What a deposit adds to the deposits of a token.
LEMMA DepositsGrow ==
    ASSUME batches \in Seq(Batch), batches' \in Seq(Batch), NEW b \in Batch, NEW new \in Deposit,
           BatchAdded(b, new) \/ BatchExtended(b, new), NEW t
    PROVE  LET old == SumFunction(DepositedPerBatch(t))
               more == SumFunction(DepositedPerBatch(t)')
           IN  /\ old \in Int
               /\ new.token = t => more = old + new.amount
               /\ new.token # t => more = old
<1> DEFINE f == DepositedPerBatch(t)
           h == DepositedPerBatch(t)'
           k == Len(batches)
           d == IF new.token = t THEN new.amount ELSE 0
<1>1. /\ k \in Nat /\ DOMAIN batches = 1 .. k /\ DOMAIN f = 1 .. k
      /\ \A n \in 1 .. k : f[n] = DepositedIn(batches[n], t)
  BY DEF DepositedPerBatch
<1>2. /\ DOMAIN h = 1 .. Len(batches')
      /\ \A n \in 1 .. Len(batches') : h[n] = DepositedIn(batches'[n], t)
  <2>1. batches' \in Seq(Batch)
    OBVIOUS
  <2>2. DOMAIN batches' = 1 .. Len(batches')
    BY <2>1
  <2> QED BY <2>2 DEF DepositedPerBatch
<1>3. ASSUME NEW a \in Batch
      PROVE  DepositedIn(a, t) = AmountsOf(a.deposits, Positions(a.deposits, t))
  BY DEF DepositedIn, Positions
<1>4. ASSUME NEW a \in Batch PROVE DepositedIn(a, t) \in Int
  <2>1. a.deposits \in Seq(Deposit)
    BY DEF Batch
  <2> QED BY <1>3, <2>1, OneDepositMore
<1>5. d \in Int
  BY DEF Deposit
<1>6. \A n \in 1 .. k : f[n] \in Int
  <2>1. \A n \in 1 .. k : batches[n] \in Batch
    OBVIOUS
  <2> QED BY <1>1, <1>4, <2>1
<1>7. IsFiniteSet(DOMAIN f)
  BY <1>1, FS_Interval
<1> HIDE DEF f, h, k
<1>8. CASE BatchAdded(b, new)
  <2>1. /\ Len(batches') = k + 1 /\ b.deposits = <<new>>
        /\ \A n \in 1 .. k : batches'[n] = batches[n]
        /\ batches'[k + 1] = b
    BY <1>8 DEF BatchAdded, k
  <2>2. DepositedIn(b, t) = d
    <3>1. <<>> \in Seq(Deposit) /\ b.deposits = Append(<<>>, new)
      BY <2>1
    <3>2. AmountsOf(<<>>, Positions(<<>>, t)) = 0
      <4>1. Positions(<<>>, t) = {}
        BY DEF Positions
      <4> QED BY <4>1, SumOfNone DEF AmountsOf
    <3>3. new.token = t => DepositedIn(b, t) = 0 + new.amount
      BY <1>3, <3>1, <3>2, OneDepositMore
    <3>4. new.token # t => DepositedIn(b, t) = 0
      BY <1>3, <3>1, <3>2, OneDepositMore
    <3>5. new.amount \in Int
      BY DEF Deposit
    <3> QED BY <3>3, <3>4, <3>5
  <2>3. 1 .. k + 1 = 1 .. k \cup {k + 1} /\ k + 1 \notin 1 .. k
    BY <1>1
  <2>4. DOMAIN h = DOMAIN f \cup {k + 1} /\ k + 1 \notin DOMAIN f
    BY <1>1, <1>2, <2>1, <2>3
  <2>5. h[k + 1] = d
    BY <1>2, <2>1, <2>2, <2>3
  <2>6. \A n \in DOMAIN f : h[n] = f[n] /\ f[n] \in Int
    BY <1>1, <1>2, <1>6, <2>1, <2>3
  <2> HIDE DEF d
  <2>7. SumFunction(f) \in Int /\ SumFunction(h) = SumFunction(f) + d
    BY <1>5, <1>7, <2>4, <2>5, <2>6, SumMore, ZenonT(30)
  <2> QED BY <2>7 DEF d, f, h
<1>9. CASE BatchExtended(b, new)
  <2>1. /\ Len(batches') = k /\ k > 0 /\ b.deposits = Append(batches[k].deposits, new)
        /\ \A n \in 1 .. k - 1 : batches'[n] = batches[n]
        /\ batches'[k] = b
    BY <1>9, ZenonT(30) DEF BatchExtended, k
  <2>2. k \in 1 .. k /\ (\A n \in 1 .. k : n # k => n \in 1 .. k - 1)
    BY <1>1, <2>1
  <2>3. batches[k] \in Batch
    BY <2>2 DEF k
  <2>4. DepositedIn(b, t) = DepositedIn(batches[k], t) + d
    <3>1. batches[k].deposits \in Seq(Deposit)
      BY <2>3 DEF Batch
    <3> DEFINE l == batches[k].deposits
    <3>2. /\ DepositedIn(b, t) = AmountsOf(Append(l, new), Positions(Append(l, new), t))
          /\ DepositedIn(batches[k], t) = AmountsOf(l, Positions(l, t))
      BY <1>3, <2>1, <2>3
    <3>3. /\ new.token = t => AmountsOf(Append(l, new), Positions(Append(l, new), t))
                              = AmountsOf(l, Positions(l, t)) + new.amount
          /\ new.token # t => AmountsOf(Append(l, new), Positions(Append(l, new), t))
                              = AmountsOf(l, Positions(l, t))
      <4> HIDE DEF l
      <4>1. l \in Seq(Deposit)
        BY <3>1 DEF l
      <4> QED BY <4>1, OneDepositMore
    <3>4. new.token = t => DepositedIn(b, t) = DepositedIn(batches[k], t) + new.amount
      BY <3>2, <3>3
    <3>5. new.token # t => DepositedIn(b, t) = DepositedIn(batches[k], t)
      BY <3>2, <3>3
    <3>6. DepositedIn(batches[k], t) \in Int
      BY <1>4, <2>3
    <3> QED BY <3>4, <3>5, <3>6
  <2>5. DOMAIN h = DOMAIN f /\ k \in DOMAIN f
    BY <1>1, <1>2, <2>1, <2>2
  <2>6. h[k] = f[k] + d /\ f[k] \in Int
    BY <1>1, <1>2, <1>6, <2>1, <2>2, <2>4
  <2>7. \A n \in DOMAIN f : f[n] \in Int /\ (n # k => h[n] = f[n])
    BY <1>1, <1>2, <1>6, <2>1, <2>2
  <2> HIDE DEF d
  <2>8. h[k] \in Int /\ h[k] - f[k] = d
    BY <1>5, <2>6
  <2>9. SumFunction(f) \in Int /\ SumFunction(h) = SumFunction(f) + d
    BY <1>7, <2>5, <2>7, <2>8, SumChange
  <2> QED BY <2>9 DEF d, f, h
<1> QED BY <1>8, <1>9

\* A payment is an integer, and adds to the payments made.
LEMMA PaymentsGrow ==
    ASSUME EthBridgeTypeOK, NEW nonce, NEW transfers, NEW statuses,
           PaidOut(nonce, transfers, statuses), NEW t
    PROVE  LET e == [nonce |-> nonce, transfers |-> transfers, statuses |-> statuses] IN
           /\ PaidBy(e, t) \in Int
           /\ SumFunction(PaidPerExecution(t)) \in Int
           /\ SumFunction(PaidPerExecution(t)') = SumFunction(PaidPerExecution(t)) + PaidBy(e, t)
<1> DEFINE e == [nonce |-> nonce, transfers |-> transfers, statuses |-> statuses]
           f == PaidPerExecution(t)
           h == PaidPerExecution(t)'
           k == Len(executions)
           Execution == [nonce : MvxBatchNonces, transfers : MvxTransferLists,
                         statuses : Seq({"Executed", "Rejected"})]
<1>1. ASSUME NEW x, x.transfers \in MvxTransferLists PROVE PaidBy(x, t) \in Int
  <2> DEFINE l == x.transfers
             I == {i \in DOMAIN l : l[i].token = t /\ x.statuses[i] = "Executed"}
  <2>1. l \in Seq(TransferType)
    BY <1>1, EthBridgeAssumption DEF TransferType
  <2> HIDE DEF l
  <2>2. \A i \in 1 .. Len(l) : l[i].amount \in Nat
    <3>1. \A i \in 1 .. Len(l) : l[i] \in TransferType
      BY <2>1
    <3> QED BY <3>1 DEF TransferType
  <2>3. I \subseteq 1 .. Len(l)
    BY <2>1
  <2> HIDE DEF I
  <2>4. AmountsOf(l, I) \in Int
    BY <2>1, <2>2, <2>3, AmountsInt
  <2> QED BY <2>4 DEF PaidBy, l, I
<1>2. PaidBy(e, t) \in Int
  <2>1. e.transfers \in MvxTransferLists
    BY DEF PaidOut
  <2> QED BY <1>1, <2>1
<1>3. executions \in Seq(Execution) /\ executions' = Append(executions, e) /\ e \in Execution
  BY DEF EthBridgeTypeOK, PaidOut, Statuses
<1> HIDE DEF e
<1>4. \A x \in Execution : PaidBy(x, t) \in Int
  BY <1>1
<1> HIDE DEF Execution
<1>5. /\ k \in Nat /\ DOMAIN executions = 1 .. k /\ DOMAIN executions' = 1 .. k + 1
      /\ executions'[k + 1] = e /\ \A n \in 1 .. k : executions'[n] = executions[n]
      /\ \A n \in 1 .. k : executions[n] \in Execution
  BY <1>3
<1> HIDE DEF k
<1>6. DOMAIN f = 1 .. k /\ \A n \in 1 .. k : f[n] = PaidBy(executions[n], t)
  BY <1>5 DEF PaidPerExecution
<1>7. DOMAIN h = 1 .. k + 1 /\ \A n \in 1 .. k + 1 : h[n] = PaidBy(executions'[n], t)
  BY <1>5 DEF PaidPerExecution
<1> HIDE DEF f, h
<1>8. 1 .. k + 1 = 1 .. k \cup {k + 1} /\ k + 1 \notin 1 .. k
  BY <1>5
<1>9. /\ DOMAIN h = DOMAIN f \cup {k + 1} /\ k + 1 \notin DOMAIN f
      /\ h[k + 1] = PaidBy(e, t)
      /\ \A n \in DOMAIN f : f[n] \in Int /\ h[n] = f[n]
  BY <1>4, <1>5, <1>6, <1>7, <1>8
<1>10. IsFiniteSet(DOMAIN f)
  <2>1. IsFiniteSet(1 .. k)
    BY <1>5, FS_Interval
  <2> QED BY <1>6, <2>1
<1>11. SumFunction(f) \in Int /\ SumFunction(h) = SumFunction(f) + PaidBy(e, t)
  BY <1>2, <1>9, <1>10, SumMore
<1> QED BY <1>2, <1>11 DEF e, f, h

\* The inductive form of BooksBalance.
BooksInv ==
    /\ \A t \in Tokens :
          /\ SumFunction(DepositedPerBatch(t)) \in Int
          /\ SumFunction(PaidPerExecution(t)) \in Int
          /\ tokenBalances[t] = supplied[t] + SumFunction(DepositedPerBatch(t))
                                - SumFunction(PaidPerExecution(t))
    /\ \A n \in 1 .. Len(executions) : executions[n].nonce \in executedBatches
    /\ \A m, n \in 1 .. Len(executions) :
          executions[m].nonce = executions[n].nonce => m = n

\* Steps that neither deposit nor pay.
LEMMA BooksKept ==
    ASSUME ERC20SafeTypeOK, BooksInv, UNCHANGED <<batches, executions, executedBatches>>,
           \A t \in Tokens : tokenBalances'[t] - supplied'[t] = tokenBalances[t] - supplied[t],
           \A t \in Tokens : tokenBalances'[t] \in Int /\ supplied'[t] \in Int
    PROVE  BooksInv'
<1>1. ASSUME NEW t \in Tokens
      PROVE  /\ SumFunction(DepositedPerBatch(t))' = SumFunction(DepositedPerBatch(t))
             /\ SumFunction(PaidPerExecution(t))' = SumFunction(PaidPerExecution(t))
  BY DEF DepositedPerBatch, PaidPerExecution
<1>2. ASSUME NEW t \in Tokens
      PROVE  tokenBalances'[t] = supplied'[t] + SumFunction(DepositedPerBatch(t))
                                 - SumFunction(PaidPerExecution(t))
  <2>1. /\ tokenBalances[t] \in Int /\ supplied[t] \in Int
        /\ tokenBalances'[t] \in Int /\ supplied'[t] \in Int
        /\ tokenBalances'[t] - supplied'[t] = tokenBalances[t] - supplied[t]
    BY DEF ERC20SafeTypeOK
  <2>2. /\ SumFunction(DepositedPerBatch(t)) \in Int
        /\ SumFunction(PaidPerExecution(t)) \in Int
        /\ tokenBalances[t] = supplied[t] + SumFunction(DepositedPerBatch(t))
                                - SumFunction(PaidPerExecution(t))
    BY DEF BooksInv
  <2> QED BY <2>1, <2>2
<1>3. /\ \A n \in 1 .. Len(executions') : executions'[n].nonce \in executedBatches'
      /\ \A m, n \in 1 .. Len(executions') :
            executions'[m].nonce = executions'[n].nonce => m = n
  BY DEF BooksInv
<1>4. \A t \in Tokens : /\ SumFunction(DepositedPerBatch(t))' \in Int
                        /\ SumFunction(PaidPerExecution(t))' \in Int
  BY <1>1 DEF BooksInv
<1>5. ASSUME NEW t \in Tokens
      PROVE  tokenBalances'[t] = supplied'[t] + SumFunction(DepositedPerBatch(t))'
                                 - SumFunction(PaidPerExecution(t))'
  BY <1>1, <1>2
<1> QED BY <1>3, <1>4, <1>5 DEF BooksInv

(***************************************************************************)
(* What the safe books for a token is what was deposited and supplied      *)
(* without fees, minus the transfers reported as Executed, and no batch of *)
(* MultiversX is ever paid twice (deposit, initSupply, executeTransfer,    *)
(* transfer): for every list of transfers, several of which may be of one  *)
(* token, and for every set of recipients the tokens refuse.               *)
(***************************************************************************)
THEOREM BooksStayBalanced == EthSpec => []BooksBalance
<1>1. EthInit => BooksInv
  <2> SUFFICES ASSUME EthInit PROVE BooksInv
    OBVIOUS
  <2>1. /\ batches = <<>> /\ executions = <<>>
        /\ tokenBalances = [t \in Tokens |-> 0] /\ supplied = [t \in Tokens |-> 0]
    BY DEF EthInit, ERC20SafeDeployed, BridgeDeployed
  <2>2. ASSUME NEW t \in Tokens
        PROVE  /\ SumFunction(DepositedPerBatch(t)) = 0
               /\ SumFunction(PaidPerExecution(t)) = 0
    <3> DEFINE f == DepositedPerBatch(t)
               h == PaidPerExecution(t)
    <3>1. DOMAIN f = {} /\ DOMAIN h = {}
      BY <2>1 DEF DepositedPerBatch, PaidPerExecution
    <3> HIDE DEF f, h
    <3>2. SumFunction(f) = 0 /\ SumFunction(h) = 0
      BY <3>1, SumOfNone DEF SumFunction
    <3> QED BY <3>2 DEF f, h
  <2> QED BY <2>1, <2>2 DEF BooksInv
<1>2. ERC20SafeTypeOK /\ ERC20SafeTypeOK' /\ EthBridgeTypeOK /\ BooksInv
         /\ [EthNext]_ethereumVars => BooksInv'
  <2> SUFFICES ASSUME ERC20SafeTypeOK, ERC20SafeTypeOK', EthBridgeTypeOK, BooksInv,
                      [EthNext]_ethereumVars
               PROVE  BooksInv'
    OBVIOUS
  <2>1. /\ batches \in Seq(Batch) /\ batches' \in Seq(Batch)
        /\ \A t \in Tokens : /\ tokenBalances[t] \in Int /\ supplied[t] \in Int
                             /\ tokenBalances'[t] \in Int /\ supplied'[t] \in Int
    BY DEF ERC20SafeTypeOK
  <2>2. CASE DepositMade /\ UNCHANGED bridgeVars
    <3>1. PICK b \in Batch, new \in Deposit :
              /\ BatchAdded(b, new) \/ BatchExtended(b, new)
              /\ tokenBalances' = [tokenBalances EXCEPT ![new.token] = @ + new.amount]
              /\ UNCHANGED supplied
      BY <2>2, DepositStep
    <3>2. ASSUME NEW t \in Tokens
          PROVE  /\ SumFunction(DepositedPerBatch(t)') \in Int
                 /\ SumFunction(PaidPerExecution(t)') \in Int
                 /\ tokenBalances'[t] = supplied'[t] + SumFunction(DepositedPerBatch(t)')
                                        - SumFunction(PaidPerExecution(t)')
      <4> DEFINE old == SumFunction(DepositedPerBatch(t))
                 more == SumFunction(DepositedPerBatch(t)')
                 out == SumFunction(PaidPerExecution(t))
      <4>1. /\ old \in Int
            /\ new.token = t => more = old + new.amount
            /\ new.token # t => more = old
        BY <2>1, <3>1, DepositsGrow
      <4>2. SumFunction(PaidPerExecution(t)') = out
        BY <2>2 DEF PaidPerExecution, bridgeVars
      <4>3. out \in Int /\ tokenBalances[t] = supplied[t] + old - out
        BY DEF BooksInv
      <4>4. /\ new.token = t => tokenBalances'[t] = tokenBalances[t] + new.amount
            /\ new.token # t => tokenBalances'[t] = tokenBalances[t]
        BY <3>1 DEF ERC20SafeTypeOK
      <4>5. new.amount \in Int
        BY DEF Deposit
      <4>6. supplied'[t] = supplied[t]
        BY <3>1
      <4> HIDE DEF old, more, out
      <4>7. more \in Int /\ tokenBalances'[t] = supplied'[t] + more - out
        BY <2>1, <4>1, <4>3, <4>4, <4>5, <4>6
      <4> QED BY <4>2, <4>3, <4>7 DEF more
    <3>3. /\ \A n \in 1 .. Len(executions') : executions'[n].nonce \in executedBatches'
          /\ \A m, n \in 1 .. Len(executions') :
                executions'[m].nonce = executions'[n].nonce => m = n
      BY <2>2 DEF BooksInv, bridgeVars
    <3> QED BY <3>2, <3>3 DEF BooksInv
  <2>3. CASE BatchExecuted
    <3>1. PICK nonce, transfers, statuses : PaidOut(nonce, transfers, statuses)
      BY <2>3, ExecutionPays
    <3> DEFINE e == [nonce |-> nonce, transfers |-> transfers, statuses |-> statuses]
               k == Len(executions)
    <3>2. ASSUME NEW t \in Tokens
          PROVE  /\ SumFunction(DepositedPerBatch(t)') \in Int
                 /\ SumFunction(PaidPerExecution(t)') \in Int
                 /\ tokenBalances'[t] = supplied'[t] + SumFunction(DepositedPerBatch(t)')
                                        - SumFunction(PaidPerExecution(t)')
      <4> DEFINE in == SumFunction(DepositedPerBatch(t))
                 out == SumFunction(PaidPerExecution(t))
                 more == SumFunction(PaidPerExecution(t)')
                 paid == PaidBy(e, t)
      <4>1. paid \in Int /\ out \in Int /\ more = out + paid
        BY <3>1, PaymentsGrow
      <4>2. SumFunction(DepositedPerBatch(t)') = in
        BY <3>1 DEF DepositedPerBatch, PaidOut, depositVars
      <4>3. in \in Int /\ tokenBalances[t] = supplied[t] + in - out
        BY DEF BooksInv
      <4>4. tokenBalances'[t] = tokenBalances[t] - paid /\ supplied'[t] = supplied[t]
        BY <3>1 DEF PaidOut
      <4> HIDE DEF in, out, more, paid
      <4>5. more \in Int /\ tokenBalances'[t] = supplied'[t] + in - more
        BY <2>1, <4>1, <4>3, <4>4
      <4> QED BY <4>2, <4>3, <4>5 DEF more
    <3>3. /\ executions' = Append(executions, e) /\ e.nonce = nonce
          /\ nonce \notin executedBatches /\ executedBatches' = executedBatches \cup {nonce}
      BY <3>1 DEF PaidOut
    <3>4. executions \in Seq([nonce : MvxBatchNonces, transfers : MvxTransferLists,
                              statuses : Seq({"Executed", "Rejected"})])
      BY DEF EthBridgeTypeOK
    <3> HIDE DEF e, k
    <3>5. /\ k \in Nat /\ Len(executions') = k + 1 /\ executions'[k + 1] = e
          /\ \A n \in 1 .. k : executions'[n] = executions[n]
      BY <3>3, <3>4 DEF k
    <3>6. \A n \in 1 .. k + 1 : n \in 1 .. k \/ n = k + 1
      BY <3>5
    <3>7. \A n \in 1 .. k : executions'[n].nonce \in executedBatches
      BY <3>5 DEF BooksInv, k
    <3>8. \A n \in 1 .. k + 1 : executions'[n].nonce \in executedBatches'
      BY <3>3, <3>5, <3>6, <3>7
    <3>9. \A m, n \in 1 .. k + 1 : executions'[m].nonce = executions'[n].nonce => m = n
      <4>1. \A m, n \in 1 .. k : executions'[m].nonce = executions'[n].nonce => m = n
        BY <3>5 DEF BooksInv, k
      <4> QED BY <3>3, <3>5, <3>6, <3>7, <4>1
    <3> QED BY <3>2, <3>5, <3>8, <3>9 DEF BooksInv
  <2>4. CASE /\ UNCHANGED <<batches, executions, executedBatches>>
             /\ \A t \in Tokens :
                   tokenBalances'[t] - supplied'[t] = tokenBalances[t] - supplied[t]
    BY <2>1, <2>4, BooksKept
  <2>5. ASSUME SomeTokensMoved, UNCHANGED bridgeVars
        PROVE  /\ UNCHANGED <<batches, executions, executedBatches>>
               /\ \A t \in Tokens :
                     tokenBalances'[t] - supplied'[t] = tokenBalances[t] - supplied[t]
    <3>1. PICK token \in Tokens, amount \in Nat : TokensMoved(token, amount)
      BY <2>5 DEF SomeTokensMoved
    <3>2. CASE InitSupply(token, amount)
      <4>1. /\ supplied' = [supplied EXCEPT ![token] = @ + amount]
            /\ tokenBalances' = [tokenBalances EXCEPT ![token] = @ + amount]
            /\ UNCHANGED batches
        BY <3>2 DEF InitSupply, depositVars
      <4>2. ASSUME NEW t \in Tokens
            PROVE  tokenBalances'[t] - supplied'[t] = tokenBalances[t] - supplied[t]
        <5>1. tokenBalances \in [Tokens -> Nat] /\ supplied \in [Tokens -> Nat]
          BY DEF ERC20SafeTypeOK
        <5>2. CASE t = token
          <6>1. /\ supplied'[t] = supplied[t] + amount
                /\ tokenBalances'[t] = tokenBalances[t] + amount
            BY <4>1, <5>1, <5>2
          <6> QED BY <2>1, <6>1
        <5>3. CASE t # token
          BY <4>1, <5>1, <5>3
        <5> QED BY <5>2, <5>3
      <4> QED BY <2>5, <4>1, <4>2 DEF bridgeVars
    <3>3. CASE SendDirectly(token, amount) \/ ClaimServiceFees(token) \/ RecoverLostFunds(token)
      <4>1. UNCHANGED <<batches, tokenBalances, supplied>>
        BY <3>3 DEF SendDirectly, ClaimServiceFees, RecoverLostFunds, depositVars
      <4> QED BY <2>5, <4>1 DEF bridgeVars
    <3> QED BY <3>1, <3>2, <3>3 DEF TokensMoved
  <2>6. SafeConfigured => UNCHANGED <<batches, tokenBalances, supplied>>
    BY ConfigOnly DEF depositVars, erc20TokenVars
  <2>7. MessageSigned \/ BridgeAdminNext \/ UNCHANGED ethereumVars
           => UNCHANGED <<batches, tokenBalances, supplied, executions, executedBatches>>
    BY BridgeConfigOnly DEF MessageSigned, SignMessage, ethereumVars, erc20Vars, depositVars,
       erc20TokenVars, bridgeVars
  <2>8. UNCHANGED erc20Vars => UNCHANGED <<batches, tokenBalances, supplied>>
    BY DEF erc20Vars, depositVars, erc20TokenVars
  <2>9. UNCHANGED bridgeVars => UNCHANGED <<executions, executedBatches>>
    BY DEF bridgeVars
  <2> QED BY <2>2, <2>3, <2>4, <2>5, <2>6, <2>7, <2>8, <2>9, EthSteps
<1>3. ERC20SafeTypeOK /\ EthBridgeTypeOK /\ BooksInv => BooksBalance
  <2> SUFFICES ASSUME ERC20SafeTypeOK, EthBridgeTypeOK, BooksInv PROVE BooksBalance
    OBVIOUS
  <2>1. DOMAIN executions = 1 .. Len(executions)
    BY DEF EthBridgeTypeOK
  <2>2. ASSUME NEW t \in Tokens
        PROVE  tokenBalances[t] =
              (supplied[t] + SumFunction([n \in DOMAIN batches |-> DepositedIn(batches[n], t)]))
              - SumFunction([n \in DOMAIN executions |-> PaidBy(executions[n], t)])
    <3>1. tokenBalances[t] = (supplied[t] + SumFunction(DepositedPerBatch(t)))
                                - SumFunction(PaidPerExecution(t))
      <4>1. /\ SumFunction(DepositedPerBatch(t)) \in Int
            /\ SumFunction(PaidPerExecution(t)) \in Int
            /\ tokenBalances[t] = supplied[t] + SumFunction(DepositedPerBatch(t))
                                  - SumFunction(PaidPerExecution(t))
        BY Zenon DEF BooksInv
      <4>2. supplied[t] \in Int
        BY DEF ERC20SafeTypeOK
      <4> QED BY <4>1, <4>2
    <3> QED BY <3>1, Zenon DEF DepositedPerBatch, PaidPerExecution
  <2>3. \A m, n \in DOMAIN executions : executions[m].nonce = executions[n].nonce => m = n
    BY <2>1 DEF BooksInv
  <2> QED BY <2>2, <2>3 DEF BooksBalance
<1> QED BY <1>1, <1>2, <1>3, SafeTypeCorrect, BridgeTypeCorrect, PTL DEF EthSpec
==============================================================================
