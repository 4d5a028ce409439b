---------------------------- MODULE HandleTable ----------------------------
(***************************************************************************)
(* The NFS server's inode table (crates/mtpdrive-core/src/nfs.rs).         *)
(*                                                                         *)
(* Two maps, each behind its own lock, and an atomic counter.  `intern`    *)
(* reads by_handle, and only if the node is missing takes by_handle's      *)
(* write lock, looks again, draws a number, and fills the two maps one     *)
(* after the other while it still holds by_handle's lock.  `resolve` reads *)
(* by_inode alone, so it can run between the two insertions.               *)
(***************************************************************************)
EXTENDS Naturals, FiniteSets

CONSTANTS Node, Root, Thread, NoThread

ASSUME RootAssumption   == Root \in Node
ASSUME ThreadAssumption == NoThread \notin Thread

RootInode == 1

VARIABLES
  next,        \* AtomicU64: the next number to draw
  by_inode,    \* partial map from numbers to nodes
  by_handle,   \* partial map from nodes to numbers
  writer,      \* the thread that holds by_handle's write lock
  pc, want,    \* where each thread is in intern, and for which node
  issued       \* history: the <<node, inode>> pairs intern has returned

tables == <<next, by_inode, by_handle, writer>>
vars   == <<next, by_inode, by_handle, writer, pc, want, issued>>

Extend(f, x, y) == [z \in DOMAIN f \cup {x} |-> IF z = x THEN y ELSE f[z]]

Init ==
  /\ next = RootInode + 1
  /\ by_inode  = [i \in {RootInode} |-> Root]
  /\ by_handle = [h \in {Root} |-> RootInode]
  /\ writer = NoThread
  /\ pc = [t \in Thread |-> "idle"]
  /\ want = [t \in Thread |-> Root]
  /\ issued = {}

-----------------------------------------------------------------------------
Known(h) == h \in DOMAIN by_handle
LockIgnored == TRUE  \* mutant: by_handle is read while a writer is at work
Unlocked == writer = NoThread

Return(t, inode) ==
  /\ issued' = issued \cup {<<want[t], inode>>}
  /\ pc' = [pc EXCEPT ![t] = "idle"]

\* An NFS procedure needs a number for h.
Call(t, h) ==
  /\ pc[t] = "idle"
  /\ pc' = [pc EXCEPT ![t] = "read"]
  /\ want' = [want EXCEPT ![t] = h]
  /\ UNCHANGED <<tables, issued>>

\* The first look, under the read lock: a hit returns at once.
ReadHit(t) ==
  /\ pc[t] = "read" /\ Unlocked /\ Known(want[t])
  /\ Return(t, by_handle[want[t]])
  /\ UNCHANGED <<tables, want>>

\* mutant: the read guard of the first look is still held at the second
ReadMissKeepsGuard(t) ==
  /\ pc[t] = "read" /\ Unlocked /\ ~Known(want[t])
  /\ pc' = [pc EXCEPT ![t] = "write"]
  /\ writer' = t
  /\ UNCHANGED <<next, by_inode, by_handle, want, issued>>

ReadMiss(t) ==
  /\ pc[t] = "read" /\ Unlocked /\ ~Known(want[t])
  /\ pc' = [pc EXCEPT ![t] = "write"]
  /\ UNCHANGED <<tables, want, issued>>

\* The second look, under the write lock: another thread may have been faster.
WriteHit(t) ==
  /\ pc[t] = "write" /\ Unlocked /\ Known(want[t])
  /\ Return(t, by_handle[want[t]])
  /\ UNCHANGED <<tables, want>>

NotLookedUpAgain(h) == TRUE  \* mutant: no second look under the write lock
StillMissing(h) == ~Known(h)
NotDrawn == next             \* mutant: the counter is read, not incremented
Drawn == next + 1

\* Draw a number and fill by_handle; the lock stays held.
Draw(t) ==
  /\ pc[t] = "write" /\ Unlocked /\ StillMissing(want[t])
  /\ writer' = t
  /\ next' = Drawn
  /\ by_handle' = Extend(by_handle, want[t], next)
  /\ pc' = [pc EXCEPT ![t] = "publish"]
  /\ UNCHANGED <<by_inode, want, issued>>

\* Fill by_inode, release the lock and return the number.
Publish(t) ==
  /\ pc[t] = "publish"
  /\ by_inode' = Extend(by_inode, by_handle[want[t]], want[t])
  /\ writer' = NoThread
  /\ Return(t, by_handle[want[t]])
  /\ UNCHANGED <<next, by_handle, want>>

\* resolve: the node behind a number a client presents, or NFS3ERR_STALE.
Resolve(i, Stale) == IF i \in DOMAIN by_inode THEN by_inode[i] ELSE Stale

Step(t) == ReadHit(t) \/ ReadMiss(t) \/ WriteHit(t) \/ Draw(t) \/ Publish(t)

Next == \E t \in Thread : Step(t) \/ \E h \in Node : Call(t, h)

Spec     == Init /\ [][Next]_vars
FairSpec == Spec /\ \A t \in Thread : WF_vars(Step(t))

-----------------------------------------------------------------------------
TypeOK ==
  /\ next \in Nat \ {0, 1}
  /\ DOMAIN by_inode \subseteq 1 .. next - 1
  /\ by_inode \in [DOMAIN by_inode -> Node]
  /\ DOMAIN by_handle \subseteq Node
  /\ by_handle \in [DOMAIN by_handle -> 1 .. next - 1]
  /\ writer \in Thread \cup {NoThread}
  /\ pc \in [Thread -> {"idle", "read", "write", "publish"}]
  /\ want \in [Thread -> Node]
  /\ issued \subseteq Node \X (1 .. next - 1)

\* A number that any caller of intern has received resolves, from then on, to
\* the node it was handed out for: a client never gets NFS3ERR_STALE, or
\* another file, for a file id the server has just sent it (nfs.rs intern,
\* resolve).  It depends on the order lock, by_handle, by_inode, unlock.
IssuedResolves ==
  \A p \in issued : Resolve(p[2], "stale") = p[1]

\* The promise of NodeIds, which no reader of the two maps can see broken:
\* concurrent first lookups of a node agree on its number, and no number is
\* given to two nodes.
Ids == INSTANCE NodeIds
IdsSpec == Ids!Spec

\* Every call of intern returns, whatever the other threads do.
InternReturns == \A t \in Thread : pc[t] # "idle" ~> pc[t] = "idle"

\* The inductive invariant behind both: outside the moment between the two
\* insertions the maps are inverse to each other.
IInv ==
  /\ TypeOK
  /\ Known(Root) /\ by_handle[Root] = RootInode
  /\ \A t \in Thread : pc[t] = "publish" <=> writer = t
  /\ \A g, h \in DOMAIN by_handle : by_handle[g] = by_handle[h] => g = h
  /\ \A h \in DOMAIN by_handle :
       \/ /\ by_handle[h] \in DOMAIN by_inode
          /\ by_inode[by_handle[h]] = h
       \/ /\ writer # NoThread /\ want[writer] = h
          /\ by_handle[h] \notin DOMAIN by_inode
  /\ \A t \in Thread : writer = t => Known(want[t])
  /\ \A p \in issued :
       /\ Known(p[1]) /\ by_handle[p[1]] = p[2]
       /\ p[2] \in DOMAIN by_inode

=============================================================================
