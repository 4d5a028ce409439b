---------------------------- MODULE MCNamespace ----------------------------
(* NFS calls are alike.  Every object's handle goes to the next one when    *)
(* the phone is connected again, or to the one before.                      *)
EXTENDS Namespace, TLC

CONSTANTS h1, h2, h3, h4

Interchangeable == Permutations(Job)
Handles == {h1, h2, h3, h4}
Shifted == {(h1 :> h2) @@ (h2 :> h3) @@ (h3 :> h4) @@ (h4 :> h1),
            (h1 :> h4) @@ (h2 :> h1) @@ (h3 :> h2) @@ (h4 :> h3)}
=============================================================================
