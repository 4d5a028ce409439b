----------------------------- MODULE MCStaging -----------------------------
(* NFS calls and delayed commits are alike.                                 *)
EXTENDS Staging, TLC

Interchangeable == Permutations(Job)
=============================================================================
