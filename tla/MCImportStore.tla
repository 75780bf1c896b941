---------------------------- MODULE MCImportStore ----------------------------
(* ImportStore with callers and digests that are alike.                     *)
EXTENDS ImportStore, TLC

Symmetry == Permutations(Proc) \cup Permutations(Digest)
=============================================================================
