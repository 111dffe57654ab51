----------------------------- MODULE Broadcaster -----------------------------
(***************************************************************************)
(* How relayers exchange signatures: the broadcaster of bridge/p2p with    *)
(* its message handler and its table of nonces, the signatures holder that *)
(* is its client, and the loop that repeats the join message.              *)
(*                                                                         *)
(* The network may deliver a message that was once sent to any relayer at  *)
(* any time: late, out of order, more than once or never.  Nobody signs in *)
(* the name of another, so a message that is not authentic is one whose    *)
(* signature does not verify; but a relayer may send, in a message of its  *)
(* own, an Ethereum signature that another relayer has made.               *)
(***************************************************************************)
EXTENDS Integers, FiniteSets

CONSTANTS
    Relayers,
    Hashes,         \* message hashes that relayers sign
    MaxNonce,       \* bound: messages of one relayer
    MaxForged,      \* bound: messages that are not authentic or carry another's signature
    MaxRestarts     \* bound: restarts of all relayers

\* checkArgs, without the nil checks.
ASSUME BroadcasterAssumption ==
    /\ IsFiniteSet(Relayers) /\ Relayers # {}
    /\ {MaxNonce, MaxForged, MaxRestarts} \subseteq Nat

VARIABLES
    counter,        \* the nonce of a relayer's last message
    nonces,         \* nonces[r][s]: the highest nonce r has seen of s
    stored,         \* the signed messages in a relayer's signatures holder
    multiversXRoles,\* the relayers r knows from the MultiversX role provider
    ethereumRoles,  \* the signers r knows from the Ethereum role provider
    sent,           \* the messages that the network may deliver
    restarts,
    cleared         \* history: the messages r has cleared since it started

broadcasterVars == <<counter, nonces, stored, multiversXRoles, ethereumRoles, sent,
                     restarts, cleared>>

JoinTopic == "join"
SignTopic == "sign"
JoinPayload == "join topic"

\* core.SignedMessage with its topic; UniqueID is the pair of sender and nonce.  The
\* payload of a sign message is a hash with the Ethereum signature of signer on it.
SignedMessages ==
    [topic : {JoinTopic, SignTopic}, from : Relayers, nonce : 1 .. MaxNonce,
     payload : Hashes \cup {JoinPayload}, signer : Relayers, authentic : BOOLEAN]

NewNoncesOfPublicKeys == [s \in Relayers |-> 0]

\* The role providers know nobody before they are first polled.
NewMultiversXRoleProvider == {}
NewEthereumRoleProvider == {}

\* NewBroadcaster and RegisterOnTopics of all relayers; nothing was polled so far.
BroadcasterInit ==
    /\ counter = [r \in Relayers |-> 0]
    /\ nonces = [r \in Relayers |-> NewNoncesOfPublicKeys]
    /\ stored = [r \in Relayers |-> {}]
    /\ multiversXRoles = [r \in Relayers |-> NewMultiversXRoleProvider]
    /\ ethereumRoles = [r \in Relayers |-> NewEthereumRoleProvider]
    /\ sent = {}
    /\ restarts = 0
    /\ cleared = [r \in Relayers |-> {}]

------------------------------------------------------------------------------
(* Sending *)

\* Messages that a correct relayer does not send.
Forged == {m \in sent : ~m.authentic \/ m.signer # m.from}

\* createMessage and broadcastMessage, with the counter of a relayer.
BroadcastMessage(r, topic, payload, signer) ==
    /\ counter[r] < MaxNonce
    /\ counter' = [counter EXCEPT ![r] = @ + 1]
    /\ sent' = sent \cup {[topic |-> topic, from |-> r, nonce |-> counter[r] + 1,
                           payload |-> payload, signer |-> signer, authentic |-> TRUE]}

BroadcastSignature(r, hash) ==
    /\ BroadcastMessage(r, SignTopic, hash, r)
    /\ UNCHANGED <<nonces, stored, multiversXRoles, ethereumRoles, restarts, cleared>>

\* At the start, and again and again in startBroadcastJoinRetriesLoop.
BroadcastJoinTopic(r) ==
    /\ BroadcastMessage(r, JoinTopic, JoinPayload, r)
    /\ UNCHANGED <<nonces, stored, multiversXRoles, ethereumRoles, restarts, cleared>>

\* A faulty relayer sends the Ethereum signature of another as its own message.
SendSignatureOfOther(r, msg) ==
    /\ msg.topic = SignTopic /\ msg.authentic /\ msg.signer # r
    /\ Cardinality(Forged) < MaxForged
    /\ BroadcastMessage(r, SignTopic, msg.payload, msg.signer)
    /\ UNCHANGED <<nonces, stored, multiversXRoles, ethereumRoles, restarts, cleared>>

------------------------------------------------------------------------------
(* Receiving *)

\* Mutant of PreProcessMessage: the signature of the message is not verified.
PreProcessMessageUnverified(msg) == TRUE

\* preProcessMessage; the lengths of the fields are not modelled.
PreProcessMessage(msg) == msg.authentic

\* Mutant of ProcessNonce: the last message is accepted again.
ProcessNonceSameAgain(r, msg) == nonces[r][msg.from] <= msg.nonce

\* processNonce accepts; the nonce is then remembered.
ProcessNonce(r, msg) == nonces[r][msg.from] < msg.nonce

\* Mutant of ProcessNewMessage: the message is kept under the receiver's own key.
ProcessNewMessageAsOwn(r, msg) ==
    stored' = [stored EXCEPT ![r] = @ \cup {[msg EXCEPT !.from = r]}]

\* ProcessNewMessage of the signatures holder.
ProcessNewMessage(r, msg) == stored' = [stored EXCEPT ![r] = @ \cup {msg}]

\* VerifyEthSignature: the Ethereum role provider knows the address recovered from the
\* signature, which need not be the sender of the message.
VerifyEthSignature(r, msg) == msg.signer \in ethereumRoles[r]

ProcessSignMessage(r, msg) ==
    /\ IF VerifyEthSignature(r, msg) THEN ProcessNewMessage(r, msg) ELSE UNCHANGED stored
    /\ UNCHANGED sent

\* broadcastCurrentSignatures: what a relayer sends to a peer that joins.
CurrentSignatures(r) == stored[r]

ProcessJoinMessage(r) ==
    /\ sent' = sent \cup CurrentSignatures(r)
    /\ UNCHANGED stored

\* IsWhitelisted of the MultiversX role provider
IsWhitelisted(r, msg) == msg.from \in multiversXRoles[r]

(***************************************************************************)
(* ProcessReceivedMessage.  Messages of unknown relayers are refused       *)
(* before their nonce is remembered, those that canProcessMessage refuses  *)
(* after it (allowed is FALSE): they are not accepted a second time.       *)
(***************************************************************************)
ProcessReceivedMessage(r, msg, allowed) ==
    /\ PreProcessMessage(msg)
    /\ IsWhitelisted(r, msg)
    /\ ProcessNonce(r, msg)
    /\ nonces' = [nonces EXCEPT ![r][msg.from] = msg.nonce]
    /\ \/ /\ ~allowed
          /\ UNCHANGED <<stored, sent>>
       \/ /\ allowed
          /\ msg.topic = JoinTopic
          /\ ProcessJoinMessage(r)
       \/ /\ allowed
          /\ msg.topic = SignTopic
          /\ ProcessSignMessage(r, msg)
    /\ UNCHANGED <<counter, multiversXRoles, ethereumRoles, restarts, cleared>>

------------------------------------------------------------------------------
(* The rest of a relayer, and the network *)

\* The polling handlers of the two role providers.
PollMultiversXRoles(r) ==
    /\ multiversXRoles' = [multiversXRoles EXCEPT ![r] = Relayers]
    /\ UNCHANGED <<counter, nonces, stored, ethereumRoles, sent, restarts, cleared>>

PollEthereumRoles(r) ==
    /\ ethereumRoles' = [ethereumRoles EXCEPT ![r] = Relayers]
    /\ UNCHANGED <<counter, nonces, stored, multiversXRoles, sent, restarts, cleared>>

\* Step ResolvingSetStatusOnMultiversX.
ClearStoredSignatures(r) ==
    /\ stored' = [stored EXCEPT ![r] = {}]
    /\ cleared' = [cleared EXCEPT ![r] = @ \cup stored[r]]
    /\ UNCHANGED <<counter, nonces, multiversXRoles, ethereumRoles, sent, restarts>>

\* Mutant of Restart: messages are numbered from the beginning.
RestartFromZero(r) ==
    /\ restarts < MaxRestarts
    /\ restarts' = restarts + 1
    /\ counter' = [counter EXCEPT ![r] = 0]
    /\ nonces' = [nonces EXCEPT ![r] = NewNoncesOfPublicKeys]
    /\ stored' = [stored EXCEPT ![r] = {}]
    /\ cleared' = [cleared EXCEPT ![r] = {}]
    /\ multiversXRoles' = [multiversXRoles EXCEPT ![r] = NewMultiversXRoleProvider]
    /\ ethereumRoles' = [ethereumRoles EXCEPT ![r] = NewEthereumRoleProvider]
    /\ UNCHANGED sent

(***************************************************************************)
(* NewBroadcaster in a process that starts again.  The counter starts at   *)
(* the time in nanoseconds, which is ahead of all messages sent before as  *)
(* long as the clock does not go back; only their order matters here.      *)
(***************************************************************************)
Restart(r) ==
    /\ restarts < MaxRestarts
    /\ restarts' = restarts + 1
    /\ nonces' = [nonces EXCEPT ![r] = NewNoncesOfPublicKeys]
    /\ stored' = [stored EXCEPT ![r] = {}]
    /\ cleared' = [cleared EXCEPT ![r] = {}]
    /\ multiversXRoles' = [multiversXRoles EXCEPT ![r] = NewMultiversXRoleProvider]
    /\ ethereumRoles' = [ethereumRoles EXCEPT ![r] = NewEthereumRoleProvider]
    /\ UNCHANGED <<counter, sent>>

\* Someone sends a message in the name of another relayer, with a signature that relayer
\* need not have made; what else could be in it does not matter, it is refused unread.
Forge(msg) ==
    /\ ~msg.authentic
    /\ msg.topic = SignTopic
    /\ msg.payload \in Hashes /\ msg.signer = msg.from
    /\ Cardinality(Forged) < MaxForged
    /\ sent' = sent \cup {msg}
    /\ UNCHANGED <<counter, nonces, stored, multiversXRoles, ethereumRoles, restarts, cleared>>

BroadcasterNext ==
    \/ \E r \in Relayers :
          \/ \E hash \in Hashes : BroadcastSignature(r, hash)
          \/ BroadcastJoinTopic(r)
          \/ \E msg \in sent : SendSignatureOfOther(r, msg)
          \/ \E msg \in sent, allowed \in BOOLEAN : ProcessReceivedMessage(r, msg, allowed)
          \/ PollMultiversXRoles(r)
          \/ PollEthereumRoles(r)
          \/ ClearStoredSignatures(r)
          \/ Restart(r)
    \/ \E msg \in SignedMessages : Forge(msg)

BroadcasterSpec == BroadcasterInit /\ [][BroadcasterNext]_broadcasterVars

------------------------------------------------------------------------------
(* Properties *)

\* Type invariant of the exchange of signatures.
BroadcasterTypeOK ==
    /\ counter \in [Relayers -> 0 .. MaxNonce]
    /\ nonces \in [Relayers -> [Relayers -> 0 .. MaxNonce]]
    /\ sent \subseteq SignedMessages
    /\ \A r \in Relayers : stored[r] \subseteq sent /\ cleared[r] \subseteq sent
    /\ multiversXRoles \in [Relayers -> SUBSET Relayers]
    /\ ethereumRoles \in [Relayers -> SUBSET Relayers]
    /\ restarts \in 0 .. MaxRestarts

(***************************************************************************)
(* No relayer has seen a nonce that its sender has not reached, also after *)
(* restarts and forged messages.  So the next message of a relayer is new  *)
(* to everyone: signatures that were refused (overtaken by a later join    *)
(* message, or beyond the limit of messages) are made good by signing      *)
(* again (createMessage, processNonce, NewBroadcaster).                    *)
(***************************************************************************)
NeverAheadOfSender ==
    \A r, s \in Relayers : nonces[r][s] <= counter[s]

(***************************************************************************)
(* A message that a relayer has cleared with its batch does not come back  *)
(* while the relayer runs, although the others send all they hold after    *)
(* every join message (processNonce, broadcastCurrentSignatures,           *)
(* ClearStoredSignatures).  The signature in it may: in a new message.     *)
(***************************************************************************)
ClearedStaysCleared == \A r \in Relayers : stored[r] \cap cleared[r] = {}

SignatureOf(msg) == [signer |-> msg.signer, hash |-> msg.payload]

(***************************************************************************)
(* The exchange is the one SignatureExchange describes: what a relayer     *)
(* holds was signed by its signer, whoever has sent it                     *)
(* (VerifyEthSignature, preProcessMessage).                                *)
(***************************************************************************)
Exchange == INSTANCE SignatureExchange
            WITH Signatures <- [signer : Relayers, hash : Hashes],
                 made <- {SignatureOf(m) : m \in {x \in sent : x.topic = SignTopic /\ x.authentic}},
                 held <- [r \in Relayers |-> {SignatureOf(m) : m \in stored[r]}]

ImplementsExchange == Exchange!ExchangeSpec
==============================================================================
