-------------------------- MODULE MCCampaignFanout ---------------------------
(* Small instances of CampaignFanout for TLC.                                   *)
EXTENDS CampaignFanout, TLC

\* Campaigns armed the same way, customers and processes are interchangeable.
FanoutSymmetry ==
    Permutations(Customer) \cup Permutations(Exec)
        \cup (IF GraphArmed \in {{}, Campaign} THEN Permutations(Campaign) ELSE {})

===============================================================================
