----------------------------- MODULE WriteBack -----------------------------
(***************************************************************************)
(* What staging promises for each file written through Finder: what the    *)
(* phone stores is always one complete version of the file, and it goes    *)
(* from one version to the then current one in a single step.  Only a file *)
(* whose object the phone has refused to rename is first taken away.       *)
(***************************************************************************)
EXTENDS Naturals

CONSTANTS File, None

VARIABLES
  content,  \* the version Finder reads and writes; None: no such file
  stored,   \* the version the phone holds; None: none yet
  refused   \* files the phone has refused to rename

vars == <<content, stored, refused>>

Init ==
  /\ content = [f \in File |-> None]
  /\ stored  = [f \in File |-> None]
  /\ refused = {}

Changes(f, v) == v \in Nat /\ content' = [content EXCEPT ![f] = v]

\* A new file, or one the phone already stores.
Open(f) ==
  /\ content[f] = None
  /\ Changes(f, content'[f])
  /\ stored' \in {stored, [stored EXCEPT ![f] = content'[f]]}
  /\ UNCHANGED refused

\* Every write makes a new version.
Write(f) ==
  /\ content[f] # None
  /\ Changes(f, content'[f]) /\ content'[f] > content[f]
  /\ UNCHANGED <<stored, refused>>

Store(f) ==
  /\ content[f] # None
  /\ stored' = [stored EXCEPT ![f] = content[f]]
  /\ refused' = refused \ {f}
  /\ UNCHANGED content

Refuse(f) ==
  /\ refused' = refused \cup {f}
  /\ UNCHANGED <<content, stored>>

\* The old version goes before the new one comes.
Withdraw(f) ==
  /\ f \in refused
  /\ stored' = [stored EXCEPT ![f] = None]
  /\ UNCHANGED <<content, refused>>

Remove(f) ==
  /\ content' = [content EXCEPT ![f] = None]
  /\ stored'  = [stored EXCEPT ![f] = None]
  /\ refused' \in {refused, refused \ {f}}

Next ==
  \E f \in File : Open(f) \/ Write(f) \/ Store(f) \/ Refuse(f) \/ Withdraw(f) \/ Remove(f)

Spec == Init /\ [][Next]_vars
=============================================================================
