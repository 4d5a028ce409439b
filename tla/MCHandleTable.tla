--------------------------- MODULE MCHandleTable ---------------------------
(* Three NFS workers intern the root and two more nodes. *)
EXTENDS HandleTable, TLC

Interchangeable == Permutations(Thread) \cup Permutations(Node \ {Root})
=============================================================================
