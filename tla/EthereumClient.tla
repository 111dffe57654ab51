---------------------------- MODULE EthereumClient ----------------------------
(***************************************************************************)
(* What a relayer sees of Ethereum and what it sends there: the client of  *)
(* bridge/clients/ethereum/client.go on top of the chain wrapper and the   *)
(* ERC20 contracts holder, the signatures it collects from the other       *)
(* relayers, and the network that executes its transactions.               *)
(*                                                                         *)
(* A message hash is the message itself.  A broadcast signature reaches    *)
(* its signer at once and every other relayer that runs this program on    *)
(* its own, later or never; how the messages are numbered and repeated is  *)
(* the subject of Broadcaster.                                             *)
(***************************************************************************)
EXTENDS EthBridge

CONSTANTS
    RelayerAccounts,        \* Ethereum accounts of the relayers that run this program
    RefusedRecipients       \* recipients to whom a token's transfer may fail

ASSUME EthereumClientAssumption ==
    /\ RelayerAccounts \subseteq EthAccounts
    /\ RefusedRecipients \subseteq EthRecipients

VARIABLES
    signaturesHolder,       \* the signatures a relayer has received
    undelivered,            \* signatures on their way to a relayer
    ethMempool              \* the transaction a relayer has under way, if any

clientVars == <<signaturesHolder, undelivered, ethMempool>>

NoHash == [nonce |-> 0, transfers |-> <<>>]
NoEthTx == [nonce |-> 0, transfers |-> <<>>, signatures |-> <<>>]

------------------------------------------------------------------------------
(* Queries *)

\* GetBatch and GetBatchDeposits of the wrapper answer for final batches only.
FinalEthBatch(n) == n \in DOMAIN batches /\ IsBatchFinalEth(batches[n])

WasBatchExecuted(nonce) == nonce \in executedBatches

\* GetTransactionsStatuses; the call reverts until the statuses are final.
StatusesAfterExecution(nonce) ==
    IF StatusesAreFinal(nonce) THEN crossTransferStatuses[nonce].statuses ELSE <<>>

GetQuorumSize == ethQuorum

\* BalanceOf of the ERC20 contracts holder, for the safe.
BalanceOfSafe(token) == erc20Balance[token]

------------------------------------------------------------------------------
(* The client *)

\* extractList: what a batch tells the Ethereum contract to transfer.
ExtractList(batch) ==
    [i \in DOMAIN batch.deposits |->
        [token |-> batch.deposits[i].token, amount |-> batch.deposits[i].amount,
         recipient |-> batch.deposits[i].to]]

GenerateMessageHash(batch) == Message(batch.id, ExtractList(batch))

\* The holder's Signatures: those received for this message.
Signatures(r, hash) == {s \in signaturesHolder[r] : s.message = hash}

IsQuorumReached(r, hash) == Cardinality(Signatures(r, hash)) >= GetQuorumSize

\* getCumulatedTransfers
CumulatedTransfers(transfers, token) ==
    MapThenSumSet(LAMBDA i : transfers[i].amount,
                  {i \in DOMAIN transfers : transfers[i].token = token})

\* checkAvailableTokens, checkCumulatedTransfers
AvailableTokens(transfers) ==
    \A token \in {transfers[i].token : i \in DOMAIN transfers} :
        CumulatedTransfers(transfers, token) <= BalanceOfSafe(token)

\* BroadcastSignatureForMessageHash: the signature exists from now on.
BroadcastSignature(r, hash) ==
    LET signature == [signer |-> r, message |-> hash] IN
    /\ ethSignatures' = ethSignatures \cup {signature}
    /\ signaturesHolder' = [signaturesHolder EXCEPT ![r] = @ \cup {signature}]
    /\ undelivered' = [other \in RelayerAccounts |->
          IF other = r THEN undelivered[r] ELSE undelivered[other] \cup {signature}]

\* The errors of ExecuteTransfer that depend on the state modelled here.
TransferFails(r, hash, batch) ==
    \/ bridgePaused
    \/ ~IsQuorumReached(r, hash)
    \/ ~AvailableTokens(ExtractList(batch))

\* Mutant of ChosenSignatures: one signature less than the quorum.
ChosenSignaturesShort(r, hash) == kSubset(GetQuorumSize - 1, Signatures(r, hash))

\* The signatures are cut down to the quorum, in the order of a map.
ChosenSignatures(r, hash) == kSubset(GetQuorumSize, Signatures(r, hash))

(***************************************************************************)
(* ExecuteTransfer.  The nonce is the account's at the latest block, so a  *)
(* second transaction has the nonce of the one still under way: it         *)
(* replaces it or is refused.                                              *)
(***************************************************************************)
SendExecuteTransfer(r, hash, batch) ==
    /\ ~TransferFails(r, hash, batch)
    /\ \E chosen \in ChosenSignatures(r, hash) :
          ethMempool' = [ethMempool EXCEPT ![r] =
              [nonce |-> batch.id, transfers |-> ExtractList(batch),
               signatures |-> SetToSeq(chosen)]]

------------------------------------------------------------------------------
(* The network *)

\* ProcessNewMessage of the signatures holder, for a message of the given signer.
ReceiveSignature(r, signer) ==
    \E signature \in undelivered[r] :
        /\ signature.signer = signer
        /\ undelivered' = [undelivered EXCEPT ![r] = @ \ {signature}]
        /\ signaturesHolder' = [signaturesHolder EXCEPT ![r] = @ \cup {signature}]
        /\ UNCHANGED ethMempool

(***************************************************************************)
(* A relayer that starts again broadcasts a join message and the others    *)
(* send it what they hold.  Without a restart the answer has no effect:    *)
(* its messages have nonces the relayer has seen before.                   *)
(***************************************************************************)
ForgetSignatures(r) ==
    /\ signaturesHolder' = [signaturesHolder EXCEPT ![r] = {}]
    /\ undelivered' = [undelivered EXCEPT ![r] =
          @ \cup UNION {signaturesHolder[other] : other \in RelayerAccounts \ {r}}]
    /\ UNCHANGED ethMempool

\* The pending transaction of r is mined; the token decides whom it refuses.
ExecuteEthTransaction(r) ==
    LET tx == ethMempool[r]
        call(refused) == ExecuteTransfer(r, tx.nonce, tx.transfers, tx.signatures, refused)
    IN  /\ tx # NoEthTx
        /\ ethMempool' = [ethMempool EXCEPT ![r] = NoEthTx]
        /\ \E refused \in SUBSET RefusedRecipients :
              IF ENABLED call(refused) THEN call(refused) ELSE UNCHANGED ethereumVars
        /\ UNCHANGED <<signaturesHolder, undelivered>>

EthereumClientInit ==
    /\ signaturesHolder = [r \in RelayerAccounts |-> {}]
    /\ undelivered = [r \in RelayerAccounts |-> {}]
    /\ ethMempool = [r \in RelayerAccounts |-> NoEthTx]
===============================================================================
