---------------------------- MODULE MCManagerTask ----------------------------
(* Small instances of ManagerTask for TLC.                                      *)
EXTENDS ManagerTask, TLC

TaskSymmetry == Permutations(Task)

===============================================================================
