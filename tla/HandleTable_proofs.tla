------------------------ MODULE HandleTable_proofs ------------------------
(***************************************************************************)
(* Theorems about the inode table, for any set of nodes and of threads.    *)
(* The inductive invariant is HandleTable's IInv: by_handle and by_inode   *)
(* are inverse to each other, except for the one node whose writer is      *)
(* between its two insertions and still holds by_handle's lock.            *)
(***************************************************************************)
EXTENDS HandleTable, TLAPS

\* Before any call the table holds the root alone, and the invariant holds.
LEMMA InitIInv == Init => IInv
  BY RootAssumption, ThreadAssumption
  DEF Init, IInv, TypeOK, Known, RootInode

\* A thread that returns a number of the table leaves the invariant intact.
LEMMA ReturnKeepsIInv ==
  ASSUME IInv, NEW t \in Thread, pc[t] \in {"read", "write"},
         Unlocked, Known(want[t]), Return(t, by_handle[want[t]]),
         UNCHANGED <<tables, want>>
  PROVE  IInv'
<1> USE DEF IInv, Known, Unlocked, tables
<1>1. TypeOK'
  BY DEF TypeOK, Return
<1>2. \A u \in Thread : pc'[u] = "publish" <=> writer' = u
  BY ThreadAssumption DEF TypeOK, Return
<1>3. /\ by_handle[want[t]] \in DOMAIN by_inode
      /\ issued' = issued \cup {<<want[t], by_handle[want[t]]>>}
  BY DEF TypeOK, Return
<1>4. \A p \in issued' :
        /\ Known(p[1])' /\ by_handle'[p[1]] = p[2]
        /\ p[2] \in DOMAIN by_inode'
  <2> TAKE p \in issued'
  <2>1. CASE p \in issued
    BY <2>1
  <2>2. CASE p = <<want[t], by_handle[want[t]]>>
    BY <1>3, <2>2
  <2> QED BY <1>3, <2>1, <2>2
<1> QED BY <1>1, <1>2, <1>4

\* The step that draws a number opens the gap between the two maps.
LEMMA DrawKeepsIInv ==
  ASSUME IInv, NEW t \in Thread, Draw(t)
  PROVE  IInv'
<1> USE DEF IInv, Known, Unlocked, Draw, StillMissing, Drawn, Extend
<1>1. /\ next \in Nat \ {0, 1} /\ next' = next + 1
      /\ want[t] \in Node
      /\ DOMAIN by_handle' = DOMAIN by_handle \cup {want[t]}
      /\ by_handle'[want[t]] = next
      /\ \A h \in DOMAIN by_handle : /\ by_handle'[h] = by_handle[h]
                                     /\ by_handle[h] \in 1 .. next - 1
                                     /\ h # want[t]
  BY DEF TypeOK
<1>2. TypeOK'
  <2>1. next' \in Nat \ {0, 1} /\ DOMAIN by_handle' \subseteq Node
    BY <1>1 DEF TypeOK
  <2>2. by_handle' \in [DOMAIN by_handle' -> 1 .. next' - 1]
    BY <1>1 DEF TypeOK
  <2>3. DOMAIN by_inode' \subseteq 1 .. next' - 1
    BY <1>1 DEF TypeOK
  <2>4. issued' \subseteq Node \X (1 .. next' - 1)
    BY <1>1 DEF TypeOK
  <2> QED BY <2>1, <2>2, <2>3, <2>4 DEF TypeOK
<1>3. \A u \in Thread : pc'[u] = "publish" <=> writer' = u
  BY ThreadAssumption DEF TypeOK
<1>4. \A g, h \in DOMAIN by_handle' : by_handle'[g] = by_handle'[h] => g = h
  BY <1>1
<1>5. \A h \in DOMAIN by_handle' :
        \/ /\ by_handle'[h] \in DOMAIN by_inode'
           /\ by_inode'[by_handle'[h]] = h
        \/ /\ writer' # NoThread /\ want'[writer'] = h
           /\ by_handle'[h] \notin DOMAIN by_inode'
  <2> TAKE h \in DOMAIN by_handle'
  <2>1. CASE h = want[t]
    BY <1>1, <2>1, ThreadAssumption DEF TypeOK
  <2>2. CASE h \in DOMAIN by_handle
    BY <1>1, <2>2 DEF TypeOK
  <2> QED BY <1>1, <2>1, <2>2
<1>6. \A u \in Thread : writer' = u => Known(want[u])'
  BY <1>1 DEF TypeOK
<1>7. \A p \in issued' :
        /\ Known(p[1])' /\ by_handle'[p[1]] = p[2]
        /\ p[2] \in DOMAIN by_inode'
  BY <1>1
<1> QED BY <1>1, <1>2, <1>3, <1>4, <1>5, <1>6, <1>7

\* The step that fills by_inode closes it and only then lets readers in.
LEMMA PublishKeepsIInv ==
  ASSUME IInv, NEW t \in Thread, Publish(t)
  PROVE  IInv'
<1> USE DEF IInv, Known, Publish, Return, Extend
<1>1. writer = t /\ want[t] \in DOMAIN by_handle /\ want[t] \in Node
  BY DEF TypeOK
<1> DEFINE i == by_handle[want[t]]
<1>2. i \in 1 .. next - 1
  BY <1>1 DEF TypeOK
<1>3. i \notin DOMAIN by_inode \/ by_inode[i] = want[t]
  BY <1>1
<1>4. /\ DOMAIN by_inode' = DOMAIN by_inode \cup {i} /\ by_inode'[i] = want[t]
      /\ \A j \in DOMAIN by_inode : by_inode'[j] = by_inode[j]
  BY <1>1, <1>3
<1>5. TypeOK'
  <2>1. by_inode' \in [DOMAIN by_inode' -> Node]
    BY <1>1, <1>4 DEF TypeOK
  <2>2. issued' \subseteq Node \X (1 .. next' - 1)
    BY <1>1, <1>2 DEF TypeOK
  <2> QED BY <1>2, <1>4, <2>1, <2>2 DEF TypeOK
<1>6. \A u \in Thread : pc'[u] = "publish" <=> writer' = u
  BY <1>1, ThreadAssumption DEF TypeOK
<1>7. \A h \in DOMAIN by_handle' :
        /\ by_handle'[h] \in DOMAIN by_inode'
        /\ by_inode'[by_handle'[h]] = h
  BY <1>1, <1>4
<1>8. \A p \in issued' :
        /\ Known(p[1])' /\ by_handle'[p[1]] = p[2]
        /\ p[2] \in DOMAIN by_inode'
  <2> TAKE p \in issued'
  <2>1. CASE p \in issued
    BY <1>4, <2>1
  <2>2. CASE p = <<want[t], i>>
    BY <1>1, <1>4, <2>2
  <2> QED BY <2>1, <2>2
<1>9. \A u \in Thread : writer' = u => Known(want[u])'
  BY ThreadAssumption
<1> QED BY <1>5, <1>6, <1>7, <1>8, <1>9

\* Every step of every thread keeps the invariant.
LEMMA NextIInv == IInv /\ [Next]_vars => IInv'
<1> SUFFICES ASSUME IInv, [Next]_vars PROVE IInv'
  OBVIOUS
<1>1. CASE UNCHANGED vars
  BY <1>1 DEF vars, IInv, TypeOK, Known
<1>2. ASSUME NEW t \in Thread, NEW h \in Node, Call(t, h) PROVE IInv'
  BY <1>2, ThreadAssumption DEF Call, tables, IInv, TypeOK, Known
<1>3. ASSUME NEW t \in Thread, ReadHit(t) PROVE IInv'
  BY <1>3, ReturnKeepsIInv DEF ReadHit
<1>4. ASSUME NEW t \in Thread, ReadMiss(t) PROVE IInv'
  BY <1>4, ThreadAssumption DEF ReadMiss, tables, IInv, TypeOK, Known, Unlocked
<1>5. ASSUME NEW t \in Thread, WriteHit(t) PROVE IInv'
  BY <1>5, ReturnKeepsIInv DEF WriteHit
<1>6. ASSUME NEW t \in Thread, Draw(t) PROVE IInv'
  BY <1>6, DrawKeepsIInv
<1>7. ASSUME NEW t \in Thread, Publish(t) PROVE IInv'
  BY <1>7, PublishKeepsIInv
<1> QED BY <1>1, <1>2, <1>3, <1>4, <1>5, <1>6, <1>7 DEF Next, Step

\* In every reachable state the two maps of the inode table (nfs.rs
\* HandleTable) are inverse to each other outside the writer's gap.
THEOREM MapsAreInverse == Spec => []IInv
  BY InitIInv, NextIInv, PTL DEF Spec

\* Type correctness of the inode table.
THEOREM TypeCorrect == Spec => []TypeOK
<1>1. IInv => TypeOK
  BY DEF IInv
<1> QED BY <1>1, MapsAreInverse, PTL

\* A file id that has been sent to a client resolves to its node, never to
\* NFS3ERR_STALE, however the threads of the server interleave.
THEOREM IssuedAlwaysResolves == Spec => []IssuedResolves
<1>1. IInv => IssuedResolves
  BY DEF IInv, TypeOK, IssuedResolves, Resolve, Known
<1> QED BY <1>1, MapsAreInverse, PTL

\* A step returns at most one pair, of a node and a positive number.
LEMMA StepIssuesAtMostOne ==
  ASSUME IInv, [Next]_vars
  PROVE  \/ issued' = issued
         \/ \E p \in Node \X (Nat \ {0}) : issued' = issued \cup {p}
<1> DEFINE P(t) == <<want[t], by_handle[want[t]]>>
<1>1. ASSUME NEW t \in Thread, Return(t, by_handle[want[t]]), Known(want[t])
      PROVE  /\ issued' = issued \cup {P(t)}
             /\ P(t) \in Node \X (Nat \ {0})
  BY <1>1 DEF IInv, TypeOK, Return, Known
<1>2. ASSUME NEW t \in Thread, Publish(t) PROVE Known(want[t])
  BY <1>2 DEF IInv, Publish, Known
<1>3. CASE UNCHANGED vars
  BY <1>3 DEF vars
<1>4. CASE \E t \in Thread, h \in Node : Call(t, h)
  BY <1>4 DEF Call
<1>5. ASSUME NEW t \in Thread, Step(t)
      PROVE  issued' = issued \/ (Return(t, by_handle[want[t]]) /\ Known(want[t]))
  BY <1>2, <1>5 DEF Step, ReadHit, ReadMiss, WriteHit, Draw, Publish
<1> QED BY <1>1, <1>3, <1>4, <1>5 DEF Next

\* The table implements NodeIds: each return of intern issues a pair that
\* agrees with all earlier ones, and everything else is invisible.
THEOREM ImplementsNodeIds == Spec => IdsSpec
<1>1. Init => Ids!Init
  BY DEF Init, Ids!Init
<1>2. IInv /\ IInv' /\ [Next]_vars => [Ids!Next]_issued
  <2> SUFFICES ASSUME IInv, IInv', [Next]_vars, issued' # issued
               PROVE  Ids!Next
    OBVIOUS
  <2>1. PICK p \in Node \X (Nat \ {0}) : issued' = issued \cup {p}
    BY StepIssuesAtMostOne
  <2>2. Ids!IsInjection(issued' \cup {<<Root, RootInode>>})
    <3>1. \A q \in issued' \cup {<<Root, RootInode>>} :
            q[1] \in DOMAIN by_handle' /\ by_handle'[q[1]] = q[2]
      BY DEF IInv, Known
    <3> QED BY <3>1 DEF IInv, Ids!IsInjection
  <2> QED BY <2>1, <2>2 DEF Ids!Next, Ids!Issue, Ids!RootInode, RootInode
<1> QED BY <1>1, <1>2, MapsAreInverse, PTL DEF Spec, IdsSpec, Ids!Spec
=============================================================================
