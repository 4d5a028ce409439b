------------------------------ MODULE NodeIds ------------------------------
(***************************************************************************)
(* What the NFS server promises about the numbers it hands to clients as   *)
(* file ids: a number, once handed out for a node, always means that node, *)
(* and a node always has the same number (within one run of the daemon).   *)
(* HandleTable shows how the daemon keeps the promise.                     *)
(***************************************************************************)
EXTENDS Naturals

CONSTANTS Node,      \* everything a file id can name
          Root       \* the export root

VARIABLE issued      \* the <<node, inode>> pairs callers have received

RootInode == 1

IsInjection(R) ==
  \A p, q \in R : (p[1] = q[1]) <=> (p[2] = q[2])

Init == issued = {}

\* A caller receives the pair p: a new one, or one that was issued before.
Issue(p) ==
  /\ p \in Node \X (Nat \ {0})
  /\ issued' = issued \cup {p}
  /\ IsInjection(issued' \cup {<<Root, RootInode>>})

Next == \E p \in issued' : Issue(p)

Spec == Init /\ [][Next]_issued
=============================================================================
