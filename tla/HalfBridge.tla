------------------------------ MODULE HalfBridge ------------------------------
(***************************************************************************)
(* What one direction of the bridge promises, seen from outside: transfers *)
(* are handed in on one chain, one after the other, and come out on the    *)
(* other chain unaltered, each once and in the order they were handed in,  *)
(* some of them together.                                                  *)
(***************************************************************************)
EXTENDS Integers, Sequences

CONSTANT Transfers

VARIABLES
    handedIn,       \* the transfers users have made on one chain
    handedOut       \* the transfers processed on the other chain

HandIn ==
    /\ \E t \in Transfers : handedIn' = Append(handedIn, t)
    /\ UNCHANGED handedOut

HandOut ==
    /\ \E n \in Len(handedOut) + 1 .. Len(handedIn) :
          handedOut' = SubSeq(handedIn, 1, n)
    /\ UNCHANGED handedIn

HalfInit == handedIn = <<>> /\ handedOut = <<>>

HalfNext == HandIn \/ HandOut

HalfSpec == HalfInit /\ [][HalfNext]_<<handedIn, handedOut>>
==============================================================================
