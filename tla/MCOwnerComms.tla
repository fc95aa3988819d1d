----------------------------- MODULE MCOwnerComms -----------------------------
(* OwnerComms on small instances: the end of a workflow and one other settler.   *)
EXTENDS OwnerComms

CONSTANT Reaper

===============================================================================
