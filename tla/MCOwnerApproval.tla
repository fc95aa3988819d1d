---------------------------- MODULE MCOwnerApproval ----------------------------
(* OwnerApproval on small instances.                                            *)
EXTENDS OwnerApproval, TLC

ApprovalSymmetry == Permutations(Msg)

===============================================================================
