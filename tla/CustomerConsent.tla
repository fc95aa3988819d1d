---------------------------- MODULE CustomerConsent ----------------------------
(* What the approval machinery promises the owner about each piece of work that *)
(* would message customers: it is acted on only while the owner's last word on  *)
(* it is yes, a no is never taken back, and a yes may still be withdrawn.       *)

CONSTANT Work
VARIABLES word,    \* the owner's last word on a piece of work: open, yes, no
          acted    \* work whose messages were set going

Init == word = [w \in Work |-> "open"] /\ acted = {}

Say(w) ==
    /\ word[w] = "open"
    /\ \E v \in {"yes", "no"} : word' = [word EXCEPT ![w] = v]
    /\ UNCHANGED acted

Withdraw(w) ==
    /\ word[w] = "yes"
    /\ word' = [word EXCEPT ![w] = "no"]
    /\ UNCHANGED acted

Act(w) ==
    /\ word[w] = "yes"
    /\ acted' = acted \cup {w}
    /\ UNCHANGED word

Next == \E w \in Work : Say(w) \/ Withdraw(w) \/ Act(w)

Spec == Init /\ [][Next]_<<word, acted>>

===============================================================================
