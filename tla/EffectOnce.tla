------------------------------ MODULE EffectOnce ------------------------------
(* What the send ledger promises about a key, a (campaign, customer) pair or an *)
(* agent's draft: the customer gets the message once. The only excuse for a     *)
(* second one is a first that Twilio took but answered with an error, after     *)
(* which nobody could know.                                                     *)
EXTENDS Naturals

CONSTANT Key
VARIABLES delivered,   \* messages Twilio took, per key
          blurred      \* keys with a message taken and an error returned

Init == /\ delivered = [k \in Key |-> 0]
        /\ blurred = {}

Deliver(k) ==
    /\ delivered[k] = 0 \/ k \in blurred
    /\ delivered' = [delivered EXCEPT ![k] = @ + 1]
    /\ blurred' \in {blurred, blurred \cup {k}}

Next == \E k \in Key : Deliver(k)

Spec == Init /\ [][Next]_<<delivered, blurred>>

===============================================================================
