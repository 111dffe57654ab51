-------------------------- MODULE SignatureExchange --------------------------
(***************************************************************************)
(* What the half bridge needs of the exchange of signatures: a relayer     *)
(* holds only signatures that their signers have made, whatever the        *)
(* network does, and drops all it holds at once.                           *)
(***************************************************************************)
CONSTANT
    Signatures      \* every signature there may be

VARIABLES
    made,           \* the signatures that were made
    held            \* the signatures each relayer holds

Make ==
    /\ \E s \in Signatures : made' = made \cup {s}
    /\ UNCHANGED held

Hold(r) ==
    /\ \E s \in made : held' = [held EXCEPT ![r] = @ \cup {s}]
    /\ UNCHANGED made

Drop(r) ==
    /\ held' = [held EXCEPT ![r] = {}]
    /\ UNCHANGED made

ExchangeInit == made = {} /\ held = [r \in DOMAIN held |-> {}]

ExchangeSpec ==
    ExchangeInit /\ [][Make \/ \E r \in DOMAIN held : Hold(r) \/ Drop(r)]_<<made, held>>
==============================================================================
