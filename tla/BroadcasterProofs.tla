-------------------------- MODULE BroadcasterProofs --------------------------
(***************************************************************************)
(* Theorems about the exchange of signatures, for any number of relayers,  *)
(* messages, forged messages and restarts.                                 *)
(***************************************************************************)
EXTENDS Broadcaster, TLAPS

------------------------------------------------------------------------------
(* The inductive invariant *)

\* Signatures holders, and the history of what they have cleared, hold sent messages.
HoldersTypeOK ==
    /\ stored \in [Relayers -> SUBSET sent]
    /\ cleared \in [Relayers -> SUBSET sent]

\* A sender's counter is at its last message; a sign message carries a hash.
SendersCount ==
    \A m \in sent : m.authentic =>
        /\ m.nonce <= counter[m.from]
        /\ m.topic = SignTopic => m.payload \in Hashes

\* Whatever a relayer has ever kept was authentic, and its nonce is remembered.
KeptIsRemembered ==
    \A r \in Relayers : \A m \in stored[r] \cup cleared[r] :
        /\ m.authentic
        /\ m.topic = SignTopic
        /\ m.nonce <= nonces[r][m.from]

ExchangeInv ==
    /\ BroadcasterTypeOK
    /\ HoldersTypeOK
    /\ SendersCount
    /\ KeptIsRemembered
    /\ NeverAheadOfSender
    /\ ClearedStaysCleared

\* Fields of a message.
LEMMA MessageFields ==
    ASSUME NEW m \in SignedMessages
    PROVE  /\ m.topic \in {JoinTopic, SignTopic}
           /\ m.from \in Relayers
           /\ m.nonce \in 1 .. MaxNonce
           /\ m.signer \in Relayers
           /\ m.authentic \in BOOLEAN
BY DEF SignedMessages

\* createMessage: the counter moves on with the message it numbers.
LEMMA BroadcastKeepsInv ==
    ASSUME ExchangeInv, NEW r \in Relayers, NEW topic \in {JoinTopic, SignTopic},
           NEW payload \in Hashes \cup {JoinPayload}, NEW signer \in Relayers,
           topic = SignTopic => payload \in Hashes,
           BroadcastMessage(r, topic, payload, signer),
           UNCHANGED <<nonces, stored, multiversXRoles, ethereumRoles, restarts, cleared>>
    PROVE  ExchangeInv'
<1> DEFINE new == [topic |-> topic, from |-> r, nonce |-> counter[r] + 1,
                   payload |-> payload, signer |-> signer, authentic |-> TRUE]
<1> USE BroadcasterAssumption
<1>1. /\ counter' \in [Relayers -> 0 .. MaxNonce]
      /\ counter'[r] = counter[r] + 1
      /\ \A s \in Relayers : counter[s] \in Nat /\ counter[s] <= counter'[s]
  BY DEF BroadcastMessage, ExchangeInv, BroadcasterTypeOK
<1>2. new \in SignedMessages /\ sent' = sent \cup {new}
  BY DEF BroadcastMessage, ExchangeInv, BroadcasterTypeOK, SignedMessages
<1>3. BroadcasterTypeOK' /\ HoldersTypeOK'
  BY <1>1, <1>2 DEF ExchangeInv, BroadcasterTypeOK, HoldersTypeOK
<1>4. SendersCount'
  <2> SUFFICES ASSUME NEW m \in sent', m.authentic
               PROVE  m.nonce <= counter'[m.from] /\ (m.topic = SignTopic => m.payload \in Hashes)
    BY DEF SendersCount
  <2>1. CASE m = new
    BY <1>1, <2>1 DEF ExchangeInv, BroadcasterTypeOK
  <2>2. CASE m \in sent
    <3>1. m \in SignedMessages /\ m.nonce <= counter[m.from]
      BY <2>2 DEF ExchangeInv, BroadcasterTypeOK, SendersCount
    <3>2. counter[m.from] \in Nat /\ counter[m.from] <= counter'[m.from] /\ m.nonce \in Nat
      BY <1>1, <3>1, MessageFields
    <3>3. counter'[m.from] \in Nat
      BY <1>1, <3>1, MessageFields
    <3> QED BY <2>2, <3>1, <3>2, <3>3 DEF ExchangeInv, SendersCount
  <2> QED BY <1>2, <2>1, <2>2
<1>5. NeverAheadOfSender'
  BY <1>1 DEF ExchangeInv, BroadcasterTypeOK, NeverAheadOfSender
<1>6. KeptIsRemembered' /\ ClearedStaysCleared'
  BY DEF ExchangeInv, KeptIsRemembered, ClearedStaysCleared
<1> QED BY <1>3, <1>4, <1>5, <1>6 DEF ExchangeInv

\* What ProcessReceivedMessage does when it accepts a message.
LEMMA Received ==
    ASSUME ExchangeInv, NEW r \in Relayers, NEW msg \in sent, NEW allowed \in BOOLEAN,
           ProcessReceivedMessage(r, msg, allowed)
    PROVE  /\ msg \in SignedMessages
           /\ msg.authentic
           /\ nonces[r][msg.from] < msg.nonce
           /\ nonces' = [nonces EXCEPT ![r][msg.from] = msg.nonce]
           /\ sent' = sent
           /\ \/ stored' = stored
              \/ msg.topic = SignTopic /\ stored' = [stored EXCEPT ![r] = @ \cup {msg}]
           /\ UNCHANGED <<counter, multiversXRoles, ethereumRoles, restarts, cleared>>
<1>1. sent \cup stored[r] = sent
  BY DEF ExchangeInv, HoldersTypeOK
<1> QED BY <1>1 DEF ProcessReceivedMessage, PreProcessMessage, ProcessNonce,
              ProcessJoinMessage, CurrentSignatures, ProcessSignMessage, ProcessNewMessage,
              ExchangeInv, BroadcasterTypeOK

\* A message is kept only with a nonce above all that were kept before.
LEMMA ReceivingKeepsInv ==
    ASSUME ExchangeInv, NEW r \in Relayers, NEW msg \in sent, NEW allowed \in BOOLEAN,
           ProcessReceivedMessage(r, msg, allowed)
    PROVE  ExchangeInv'
<1> USE BroadcasterAssumption
<1>1. msg.from \in Relayers /\ msg.nonce \in 1 .. MaxNonce /\ msg.authentic
  BY Received, MessageFields
<1>2. nonces' \in [Relayers -> [Relayers -> 0 .. MaxNonce]]
  <2>1. nonces' = [nonces EXCEPT ![r] = [nonces[r] EXCEPT ![msg.from] = msg.nonce]]
    BY Received DEF ExchangeInv, BroadcasterTypeOK
  <2>2. [nonces[r] EXCEPT ![msg.from] = msg.nonce] \in [Relayers -> 0 .. MaxNonce]
    BY <1>1 DEF ExchangeInv, BroadcasterTypeOK
  <2> QED BY <2>1, <2>2 DEF ExchangeInv, BroadcasterTypeOK
<1>3. nonces'[r][msg.from] = msg.nonce /\ nonces[r][msg.from] < msg.nonce
  BY <1>1, Received DEF ExchangeInv, BroadcasterTypeOK
<1>4. \A q, s \in Relayers : q # r \/ s # msg.from => nonces'[q][s] = nonces[q][s]
  BY <1>1, Received DEF ExchangeInv, BroadcasterTypeOK
<1>5. \A q, s \in Relayers : nonces[q][s] \in Nat /\ nonces'[q][s] \in Nat
                             /\ nonces[q][s] <= nonces'[q][s]
  BY <1>1, <1>2, <1>3, <1>4 DEF ExchangeInv, BroadcasterTypeOK
<1>6. /\ HoldersTypeOK'
      /\ \A q \in Relayers : stored'[q] \subseteq stored[q] \cup (IF q = r THEN {msg} ELSE {})
      /\ stored'[r] # stored[r] => msg.topic = SignTopic
  BY Received DEF ExchangeInv, HoldersTypeOK
<1>7. BroadcasterTypeOK'
  BY <1>2, <1>6, Received DEF ExchangeInv, BroadcasterTypeOK, HoldersTypeOK
<1>8. SendersCount'
  BY Received DEF ExchangeInv, SendersCount
<1>9. NeverAheadOfSender'
  <2> SUFFICES ASSUME NEW q \in Relayers, NEW s \in Relayers
               PROVE  nonces'[q][s] <= counter[s]
    BY Received DEF NeverAheadOfSender
  <2>1. CASE q = r /\ s = msg.from
    BY <1>1, <1>3, <2>1 DEF ExchangeInv, SendersCount
  <2>2. CASE q # r \/ s # msg.from
    BY <1>4, <2>2 DEF ExchangeInv, NeverAheadOfSender
  <2> QED BY <2>1, <2>2
<1>10. KeptIsRemembered'
  <2> SUFFICES ASSUME NEW q \in Relayers, NEW m \in stored'[q] \cup cleared'[q]
               PROVE  m.authentic /\ m.topic = SignTopic /\ m.nonce <= nonces'[q][m.from]
    BY DEF KeptIsRemembered
  <2>1. CASE m \in stored[q] \cup cleared[q]
    <3>1. m \in SignedMessages
      BY <2>1 DEF ExchangeInv, BroadcasterTypeOK
    <3>2. m.from \in Relayers /\ m.nonce \in Nat
      BY <3>1, MessageFields
    <3>3. m.authentic /\ m.topic = SignTopic /\ m.nonce <= nonces[q][m.from]
      BY <2>1 DEF ExchangeInv, KeptIsRemembered
    <3> QED BY <1>5, <3>2, <3>3
  <2>2. CASE m \notin stored[q] \cup cleared[q]
    <3>1. q = r /\ m = msg /\ msg.topic = SignTopic
      BY <1>6, <2>2, Received
    <3> QED BY <1>1, <1>3, <3>1
  <2> QED BY <2>1, <2>2
<1>11. ClearedStaysCleared'
  <2> SUFFICES ASSUME NEW q \in Relayers, NEW m \in stored'[q], m \in cleared'[q]
               PROVE  FALSE
    BY DEF ClearedStaysCleared
  <2>1. m \in cleared[q]
    BY Received
  <2>2. CASE m \in stored[q]
    BY <2>1, <2>2 DEF ExchangeInv, ClearedStaysCleared
  <2>3. CASE m \notin stored[q]
    <3>1. q = r /\ m = msg
      BY <1>6, <2>3
    <3>2. msg.nonce <= nonces[r][msg.from]
      BY <2>1, <3>1 DEF ExchangeInv, KeptIsRemembered
    <3> QED BY <1>1, <1>3, <1>5, <3>2
  <2> QED BY <2>2, <2>3
<1> QED BY <1>7, <1>6, <1>8, <1>9, <1>10, <1>11 DEF ExchangeInv

\* A restart forgets nonces and messages together; the counter stays ahead.
LEMMA RestartKeepsInv ==
    ASSUME ExchangeInv, NEW r \in Relayers, Restart(r)
    PROVE  ExchangeInv'
<1> USE BroadcasterAssumption DEF Restart, NewNoncesOfPublicKeys, ExchangeInv
<1>1. BroadcasterTypeOK' /\ HoldersTypeOK'
  BY DEF BroadcasterTypeOK, HoldersTypeOK, NewMultiversXRoleProvider, NewEthereumRoleProvider
<1>2. SendersCount'
  BY DEF SendersCount
<1>3. NeverAheadOfSender'
  BY DEF NeverAheadOfSender, BroadcasterTypeOK
<1>4. KeptIsRemembered' /\ ClearedStaysCleared'
  BY DEF KeptIsRemembered, ClearedStaysCleared, BroadcasterTypeOK, HoldersTypeOK
<1> QED BY <1>1, <1>2, <1>3, <1>4

\* Clearing the holder moves its messages to the history.
LEMMA ClearingKeepsInv ==
    ASSUME ExchangeInv, NEW r \in Relayers, ClearStoredSignatures(r)
    PROVE  ExchangeInv'
<1> USE DEF ClearStoredSignatures, ExchangeInv
<1>1. /\ HoldersTypeOK'
      /\ \A q \in Relayers : stored'[q] \cup cleared'[q] = stored[q] \cup cleared[q]
  BY DEF HoldersTypeOK
<1>2. BroadcasterTypeOK'
  BY <1>1 DEF BroadcasterTypeOK, HoldersTypeOK
<1>3. SendersCount' /\ NeverAheadOfSender'
  BY DEF SendersCount, NeverAheadOfSender
<1>4. KeptIsRemembered'
  BY <1>1 DEF KeptIsRemembered
<1>5. ClearedStaysCleared'
  BY DEF ClearedStaysCleared, HoldersTypeOK
<1> QED BY <1>1, <1>2, <1>3, <1>4, <1>5

\* The invariant of the exchange, through lost, late, repeated and forged messages.
LEMMA ExchangeInvAlways == BroadcasterSpec => []ExchangeInv
<1>1. BroadcasterInit => ExchangeInv
  BY BroadcasterAssumption DEF BroadcasterInit, ExchangeInv, BroadcasterTypeOK, HoldersTypeOK,
     SendersCount, KeptIsRemembered, NeverAheadOfSender, ClearedStaysCleared,
     NewNoncesOfPublicKeys, NewMultiversXRoleProvider, NewEthereumRoleProvider
<1>2. ExchangeInv /\ [BroadcasterNext]_broadcasterVars => ExchangeInv'
  <2> SUFFICES ASSUME ExchangeInv, [BroadcasterNext]_broadcasterVars PROVE ExchangeInv'
    OBVIOUS
  <2>1. ASSUME NEW r \in Relayers, NEW hash \in Hashes, BroadcastSignature(r, hash)
        PROVE  ExchangeInv'
    BY <2>1, BroadcastKeepsInv DEF BroadcastSignature
  <2>2. ASSUME NEW r \in Relayers, BroadcastJoinTopic(r) PROVE ExchangeInv'
    <3>1. JoinTopic # SignTopic
      BY DEF JoinTopic, SignTopic
    <3> QED BY <2>2, <3>1, BroadcastKeepsInv DEF BroadcastJoinTopic
  <2>3. ASSUME NEW r \in Relayers, NEW msg \in sent, NEW allowed \in BOOLEAN,
               ProcessReceivedMessage(r, msg, allowed)
        PROVE  ExchangeInv'
    BY <2>3, ReceivingKeepsInv
  <2>4. ASSUME NEW r \in Relayers, PollMultiversXRoles(r) \/ PollEthereumRoles(r)
        PROVE  ExchangeInv'
    <3>1. UNCHANGED <<counter, nonces, stored, sent, restarts, cleared>>
      BY <2>4 DEF PollMultiversXRoles, PollEthereumRoles
    <3>2. /\ multiversXRoles' \in [Relayers -> SUBSET Relayers]
          /\ ethereumRoles' \in [Relayers -> SUBSET Relayers]
      BY <2>4 DEF PollMultiversXRoles, PollEthereumRoles, ExchangeInv, BroadcasterTypeOK
    <3> QED BY <3>1, <3>2 DEF ExchangeInv, BroadcasterTypeOK, HoldersTypeOK, SendersCount,
            KeptIsRemembered, NeverAheadOfSender, ClearedStaysCleared
  <2>5. ASSUME NEW r \in Relayers, ClearStoredSignatures(r) PROVE ExchangeInv'
    BY <2>5, ClearingKeepsInv
  <2>6. ASSUME NEW r \in Relayers, Restart(r) PROVE ExchangeInv'
    BY <2>6, RestartKeepsInv
  <2>9. ASSUME NEW r \in Relayers, NEW msg \in sent, SendSignatureOfOther(r, msg)
        PROVE  ExchangeInv'
    <3>1. msg.payload \in Hashes /\ msg.signer \in Relayers
      BY <2>9, MessageFields DEF SendSignatureOfOther, ExchangeInv, BroadcasterTypeOK, SendersCount
    <3> QED BY <2>9, <3>1, BroadcastKeepsInv DEF SendSignatureOfOther
  <2>7. ASSUME NEW msg \in SignedMessages, Forge(msg) PROVE ExchangeInv'
    BY <2>7 DEF Forge, ExchangeInv, BroadcasterTypeOK, HoldersTypeOK, SendersCount,
       KeptIsRemembered, NeverAheadOfSender, ClearedStaysCleared
  <2>8. CASE UNCHANGED broadcasterVars
    BY <2>8 DEF broadcasterVars, ExchangeInv, BroadcasterTypeOK, HoldersTypeOK, SendersCount,
       KeptIsRemembered, NeverAheadOfSender, ClearedStaysCleared
  <2> QED BY <2>1, <2>2, <2>3, <2>4, <2>5, <2>6, <2>7, <2>8, <2>9 DEF BroadcasterNext
<1> QED BY <1>1, <1>2, PTL DEF BroadcasterSpec

------------------------------------------------------------------------------
(* Theorems *)

\* Type correctness of the broadcaster, the signatures holder and the role providers.
THEOREM BroadcasterTypeCorrect == BroadcasterSpec => []BroadcasterTypeOK
<1>1. ExchangeInv => BroadcasterTypeOK
  BY DEF ExchangeInv
<1> QED BY <1>1, ExchangeInvAlways, PTL

(***************************************************************************)
(* No relayer remembers a nonce that its sender has not reached            *)
(* (processNonce, NewBroadcaster): the next message of every relayer is    *)
(* accepted by everyone who knows it.                                      *)
(***************************************************************************)
THEOREM NobodyIsAheadOfSender == BroadcasterSpec => []NeverAheadOfSender
<1>1. ExchangeInv => NeverAheadOfSender
  BY DEF ExchangeInv
<1> QED BY <1>1, ExchangeInvAlways, PTL

(***************************************************************************)
(* A cleared signature does not come back into the signatures holder of a  *)
(* relayer that keeps running (processNonce, broadcastCurrentSignatures).  *)
(***************************************************************************)
THEOREM ClearedSignaturesStayCleared == BroadcasterSpec => []ClearedStaysCleared
<1>1. ExchangeInv => ClearedStaysCleared
  BY DEF ExchangeInv
<1> QED BY <1>1, ExchangeInvAlways, PTL

------------------------------------------------------------------------------
(* The broadcaster implements the exchange of signatures *)

madeBar == {SignatureOf(m) : m \in {x \in sent : x.topic = SignTopic /\ x.authentic}}
heldBar == [r \in Relayers |-> {SignatureOf(m) : m \in stored[r]}]

\* A step of the broadcaster makes a signature, adds a made one to a holder, empties a
\* holder or is invisible to the exchange.
LEMMA StepImplementsExchange ==
    ASSUME ExchangeInv, [BroadcasterNext]_broadcasterVars
    PROVE  [Exchange!Make \/ \E r \in DOMAIN heldBar : Exchange!Hold(r) \/ Exchange!Drop(r)]_<<madeBar, heldBar>>
<1> DEFINE Step == [Exchange!Make \/ \E r \in DOMAIN heldBar : Exchange!Hold(r) \/ Exchange!Drop(r)]_<<madeBar, heldBar>>
<1> SUFFICES Step
  OBVIOUS
<1>1. DOMAIN heldBar = Relayers
  BY DEF heldBar
<1>2. ASSUME NEW r \in Relayers, NEW hash \in Hashes, BroadcastSignature(r, hash)
      PROVE  Step
  <2> DEFINE new == [topic |-> SignTopic, from |-> r, nonce |-> counter[r] + 1,
                     payload |-> hash, signer |-> r, authentic |-> TRUE]
  <2>0. /\ sent' = sent \cup {new}
        /\ SignatureOf(new) = [signer |-> r, hash |-> hash]
        /\ new.topic = SignTopic /\ new.authentic
    BY <1>2 DEF BroadcastSignature, BroadcastMessage, SignatureOf
  <2> HIDE DEF new
  <2>1. madeBar' = madeBar \cup {[signer |-> r, hash |-> hash]}
    BY <2>0, Zenon DEF madeBar
  <2>2. heldBar' = heldBar
    BY <1>2 DEF BroadcastSignature, heldBar
  <2>3. Exchange!Make
    BY <2>1, <2>2 DEF Exchange!Make, madeBar, heldBar
  <2> QED BY <2>3
<1>3. ASSUME NEW r \in Relayers, BroadcastJoinTopic(r) PROVE Step
  <2>1. madeBar' = madeBar
    BY <1>3 DEF BroadcastJoinTopic, BroadcastMessage, madeBar, JoinTopic, SignTopic
  <2>2. heldBar' = heldBar
    BY <1>3 DEF BroadcastJoinTopic, heldBar
  <2> QED BY <2>1, <2>2
<1>4. ASSUME NEW r \in Relayers, NEW msg \in sent, NEW allowed \in BOOLEAN,
             ProcessReceivedMessage(r, msg, allowed)
      PROVE  Step
  <2>1. madeBar' = madeBar
    BY <1>4, Received DEF madeBar
  <2>2. CASE stored' = stored
    <3>1. heldBar' = heldBar
      BY <2>2 DEF heldBar
    <3> QED BY <2>1, <3>1
  <2>3. CASE msg.topic = SignTopic /\ stored' = [stored EXCEPT ![r] = @ \cup {msg}]
    <3>1. SignatureOf(msg) \in madeBar
      BY <1>4, <2>3, Received DEF madeBar
    <3>2. heldBar' = [heldBar EXCEPT ![r] = @ \cup {SignatureOf(msg)}]
      BY <2>3 DEF heldBar, ExchangeInv, HoldersTypeOK
    <3>3. Exchange!Hold(r)
      BY <2>1, <3>1, <3>2 DEF Exchange!Hold, madeBar, heldBar
    <3> QED BY <1>1, <3>3
  <2> QED BY <1>4, <2>2, <2>3, Received
<1>5. ASSUME NEW r \in Relayers, ClearStoredSignatures(r) \/ Restart(r) PROVE Step
  <2>1. madeBar' = madeBar
    BY <1>5 DEF ClearStoredSignatures, Restart, madeBar
  <2>2. heldBar' = [heldBar EXCEPT ![r] = {}]
    <3>1. stored' = [stored EXCEPT ![r] = {}]
      BY <1>5 DEF ClearStoredSignatures, Restart
    <3>2. \A q \in Relayers : stored'[q] = IF q = r THEN {} ELSE stored[q]
      BY <3>1 DEF ExchangeInv, HoldersTypeOK
    <3>3. {SignatureOf(m) : m \in {}} = {}
      OBVIOUS
    <3> QED BY <3>2, <3>3 DEF heldBar
  <2>3. Exchange!Drop(r)
    BY <2>1, <2>2 DEF Exchange!Drop, madeBar, heldBar
  <2> QED BY <1>1, <2>3
<1>9. ASSUME NEW r \in Relayers, NEW msg \in sent, SendSignatureOfOther(r, msg) PROVE Step
  <2> DEFINE new == [topic |-> SignTopic, from |-> r, nonce |-> counter[r] + 1,
                     payload |-> msg.payload, signer |-> msg.signer, authentic |-> TRUE]
  <2>0. /\ sent' = sent \cup {new}
        /\ SignatureOf(new) = SignatureOf(msg)
        /\ new.topic = SignTopic /\ new.authentic
        /\ msg.topic = SignTopic /\ msg.authentic
    BY <1>9 DEF SendSignatureOfOther, BroadcastMessage, SignatureOf
  <2> HIDE DEF new
  <2>1. madeBar' = madeBar
    <3>1. madeBar' = madeBar \cup {SignatureOf(new)}
      BY <2>0, Zenon DEF madeBar
    <3>2. SignatureOf(msg) \in madeBar
      BY <2>0, Zenon DEF madeBar
    <3> QED BY <2>0, <3>1, <3>2
  <2>2. heldBar' = heldBar
    BY <1>9 DEF SendSignatureOfOther, heldBar
  <2> QED BY <2>1, <2>2
<1>6. ASSUME NEW msg \in SignedMessages, Forge(msg) PROVE Step
  <2>1. madeBar' = madeBar
    BY <1>6 DEF Forge, madeBar
  <2>2. heldBar' = heldBar
    BY <1>6 DEF Forge, heldBar
  <2> QED BY <2>1, <2>2
<1>7. ASSUME NEW r \in Relayers, PollMultiversXRoles(r) \/ PollEthereumRoles(r) PROVE Step
  <2>1. madeBar' = madeBar /\ heldBar' = heldBar
    BY <1>7 DEF PollMultiversXRoles, PollEthereumRoles, madeBar, heldBar
  <2> QED BY <2>1
<1>8. CASE UNCHANGED broadcasterVars
  <2>1. madeBar' = madeBar /\ heldBar' = heldBar
    BY <1>8 DEF broadcasterVars, madeBar, heldBar
  <2> QED BY <2>1
<1> QED BY <1>2, <1>3, <1>4, <1>5, <1>6, <1>7, <1>8, <1>9 DEF BroadcasterNext

(***************************************************************************)
(* The broadcaster with its signatures holder implements the exchange the  *)
(* MultiversX to Ethereum half bridge relies on: whatever the network      *)
(* does, a holder has only signatures that their signers have made, and    *)
(* loses them only all at once (ProcessNewMessage, ClearStoredSignatures). *)
(***************************************************************************)
THEOREM BroadcasterImplementsExchange == BroadcasterSpec => ImplementsExchange
<1>1. BroadcasterInit => Exchange!ExchangeInit
  BY DEF BroadcasterInit, Exchange!ExchangeInit
<1>2. ExchangeInv /\ [BroadcasterNext]_broadcasterVars =>
        [Exchange!Make \/ \E r \in DOMAIN heldBar : Exchange!Hold(r) \/ Exchange!Drop(r)]_<<madeBar, heldBar>>
  BY StepImplementsExchange
<1> QED BY <1>1, <1>2, ExchangeInvAlways, PTL
        DEF BroadcasterSpec, ImplementsExchange, Exchange!ExchangeSpec, madeBar, heldBar
==============================================================================
