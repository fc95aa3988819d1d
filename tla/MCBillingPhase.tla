--------------------------- MODULE MCBillingPhase ---------------------------
(* Small instances of BillingPhase for TLC.                                     *)
EXTENDS BillingPhase, TLC

===============================================================================
