------------------------------ MODULE MCBinSwap ------------------------------
(* BinSwap on four inodes: all but the first installed one are alike.       *)
EXTENDS BinSwap, TLC

Symmetry == Permutations(Inode \ {FirstInode})
=============================================================================
