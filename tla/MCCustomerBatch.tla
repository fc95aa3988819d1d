--------------------------- MODULE MCCustomerBatch ---------------------------
(* Small instances of CustomerBatch for TLC.                                    *)
EXTENDS CustomerBatch, TLC

BatchSymmetry == Permutations(Batch)

===============================================================================
