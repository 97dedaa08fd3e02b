------------------------- MODULE MCCheckpointStore --------------------------
(* CheckpointStore for TLC: the constants are given in the .cfg files.     *)
EXTENDS CheckpointStoreInv

=============================================================================
