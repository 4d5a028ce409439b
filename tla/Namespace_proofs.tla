--------------------------- MODULE Namespace_proofs ---------------------------
(***************************************************************************)
(* Theorems about the namespace, for any number of objects, staged files,  *)
(* calls and replugs: what a directory read in pages has shown, and that a *)
(* call changes and reads what it was given the name of.                   *)
(***************************************************************************)
EXTENDS Namespace, FoldFacts, SequenceTheorems

-----------------------------------------------------------------------------
(* Listings.                                                               *)

Largest(S) == CHOOSE e \in S : \A x \in S : x.name <= e.name

LEMMA LargestType ==
  ASSUME NEW S, IsFiniteSet(S), \A e \in S : e.name \in Nat, S # {}
  PROVE  Largest(S) \in S /\ \A x \in S : x.name <= Largest(S).name
<1> DEFINE T == {e.name : e \in S}
<1>1. IsFiniteSet(T)
  <2> DEFINE f == [e \in S |-> e.name]
  <2>1. f \in Surjection(S, T)
    BY DEF Surjection
  <2> HIDE DEF f, T
  <2> QED BY <2>1, FS_Surjection
<1>2. PICK n \in T : \A m \in T : m <= n
  <2>1. T \subseteq Nat /\ T # {}
    OBVIOUS
  <2> HIDE DEF T
  <2> QED BY <1>1, <2>1, FiniteLargest
<1>3. PICK e \in S : e.name = n
  OBVIOUS
<1>4. \A x \in S : x.name <= e.name
  BY <1>2, <1>3
<1> QED BY <1>4 DEF Largest

\* ByName is what its recursion says.
LEMMA ByNameUnfolds ==
  ASSUME NEW E, IsFiniteSet(E), \A e \in E : e.name \in Nat
  PROVE  \E f : /\ ByName(E) = f[E]
                /\ \A S \in SUBSET E :
                     f[S] = IF S = {} THEN <<>> ELSE Append(f[S \ {Largest(S)}], Largest(S))
<1> DEFINE pick == [S \in SUBSET E |-> Largest(S)]
           step == [p \in E \X Seq(E) |-> Append(p[2], p[1])]
           Unfolds(f) == f = [S \in SUBSET E |->
             IF S = {} THEN <<>> ELSE Append(f[S \ {Largest(S)}], Largest(S))]
<1>1. \A S \in SUBSET E : S # {} => pick[S] \in S
  <2> SUFFICES ASSUME NEW S \in SUBSET E, S # {} PROVE Largest(S) \in S
    OBVIOUS
  <2>1. IsFiniteSet(S) /\ \A e \in S : e.name \in Nat
    BY FS_Subset
  <2> QED BY <2>1, LargestType
<1>2. step \in [E \X Seq(E) -> Seq(E)] /\ <<>> \in Seq(E)
  OBVIOUS
<1>3. PICK f \in [SUBSET E -> Seq(E)] : IsFold(f, E, pick, <<>>, step)
  <2>1. Picks(pick, E)
    BY <1>1 DEF Picks
  <2> HIDE DEF pick, step
  <2> QED BY <1>2, <2>1, FoldExists
<1>4. \A S \in SUBSET E : S # {} => step[<<pick[S], f[S \ {pick[S]}]>>] =
                                      Append(f[S \ {Largest(S)}], Largest(S))
  BY <1>1
<1>5. Unfolds(f)
  BY <1>3, <1>4 DEF IsFold
<1>6. ByName(E) = (CHOOSE g : Unfolds(g))[E]
  BY DEF ByName, MapThenFoldSet, Largest
<1>7. Unfolds(CHOOSE g : Unfolds(g))
  <2> HIDE DEF Unfolds
  <2> QED BY <1>5
<1> QED BY <1>6, <1>7

\* It lists every entry once, by name.
Lists(s, S) ==
  /\ s \in Seq(S) /\ Len(s) = Cardinality(S)
  /\ \A e \in S : \E k \in 1 .. Len(s) : s[k] = e
  /\ \A i, k \in 1 .. Len(s) : i < k => s[i].name <= s[k].name /\ s[i] # s[k]

LEMMA ByNameLists ==
  ASSUME NEW E, IsFiniteSet(E), \A e \in E : e.name \in Nat
  PROVE  Lists(ByName(E), E)
<1>1. PICK f : /\ ByName(E) = f[E]
               /\ \A S \in SUBSET E :
                    f[S] = IF S = {} THEN <<>> ELSE Append(f[S \ {Largest(S)}], Largest(S))
  BY ByNameUnfolds
<1> DEFINE Done(n) == \A S \in SUBSET E : Cardinality(S) = n => Lists(f[S], S)
           T == {n \in Nat : Done(n)}
<1>2. \A S \in SUBSET E : IsFiniteSet(S) /\ Cardinality(S) \in Nat
  BY FS_Subset, FS_CardinalityType
<1>3. 0 \in T
  <2> SUFFICES ASSUME NEW S \in SUBSET E, Cardinality(S) = 0 PROVE Lists(f[S], S)
    OBVIOUS
  <2>1. S = {}
    BY <1>2, FS_EmptySet
  <2>2. f[S] = <<>>
    BY <1>1, <2>1
  <2> QED BY <2>1, <2>2, FS_EmptySet DEF Lists
<1>4. ASSUME NEW n \in Nat, n \in T PROVE n + 1 \in T
  <2> SUFFICES ASSUME NEW S \in SUBSET E, Cardinality(S) = n + 1 PROVE Lists(f[S], S)
    <3>1. n + 1 \in Nat
      OBVIOUS
    <3> QED BY <3>1
  <2> DEFINE e == Largest(S)
             s == f[S \ {e}]
  <2>1. S # {} /\ IsFiniteSet(S)
    BY <1>2, FS_EmptySet
  <2>2. e \in S /\ \A x \in S : x.name <= e.name
    BY <2>1, LargestType
  <2>3. Cardinality(S \ {e}) = n
    <3>1. Cardinality(S \ {e}) = Cardinality(S) - 1
      BY <2>1, <2>2, FS_RemoveElement
    <3> QED BY <3>1
  <2>4. Lists(s, S \ {e})
    BY <1>4, <2>3
  <2>5. f[S] = Append(s, e)
    BY <1>1, <2>1
  <2> HIDE DEF e, s
  <2>6. s \in Seq(S \ {e}) /\ s \in Seq(S) /\ Len(s) = n
    BY <2>3, <2>4 DEF Lists
  <2>7. \A k \in 1 .. n : s[k] \in S /\ s[k] # e
    BY <2>6
  <2>8. /\ Append(s, e) \in Seq(S) /\ Len(Append(s, e)) = n + 1
        /\ Append(s, e)[n + 1] = e /\ \A k \in 1 .. n : Append(s, e)[k] = s[k]
    BY <2>2, <2>6
  <2>9. \A x \in S : \E k \in 1 .. n + 1 : Append(s, e)[k] = x
    <3> SUFFICES ASSUME NEW x \in S PROVE \E k \in 1 .. n + 1 : Append(s, e)[k] = x
      OBVIOUS
    <3>1. CASE x = e
      BY <2>8, <3>1
    <3>2. CASE x # e
      <4>1. PICK k \in 1 .. n : s[k] = x
        BY <2>4, <2>6, <3>2 DEF Lists
      <4> QED BY <2>8, <4>1
    <3> QED BY <3>1, <3>2
  <2>10. ASSUME NEW i \in 1 .. n + 1, NEW k \in 1 .. n + 1, i < k
         PROVE  /\ Append(s, e)[i].name <= Append(s, e)[k].name
                /\ Append(s, e)[i] # Append(s, e)[k]
    <3> DEFINE a == Append(s, e)
    <3>1. i \in 1 .. n
      BY <2>10
    <3> HIDE DEF a
    <3> SUFFICES a[i].name <= a[k].name /\ a[i] # a[k]
      BY DEF a
    <3>4. a[n + 1] = e /\ \A m \in 1 .. n : a[m] = s[m]
      BY <2>8 DEF a
    <3>2. CASE k = n + 1
      BY <2>2, <2>7, <3>1, <3>2, <3>4
    <3>3. CASE k \in 1 .. n
      <4>1. s[i].name <= s[k].name /\ s[i] # s[k]
        BY <2>4, <2>6, <2>10, <3>1, <3>3 DEF Lists
      <4> QED BY <3>1, <3>3, <3>4, <4>1
    <3> QED BY <3>2, <3>3
  <2> QED BY <2>5, <2>8, <2>9, <2>10 DEF Lists
<1>5. Cardinality(E) \in T
  <2> HIDE DEF T
  <2> QED BY <1>2, <1>3, <1>4, Reaches
<1> QED BY <1>1, <1>5
-----------------------------------------------------------------------------
(* Types, and what a call has at hand.                                     *)

CallRecord ==
  [pc : PC, call : Call(Dir) \cup {NoCall}, gen : Generation,
   node : Node \cup {None}, victim : Node \cup {None},
   doc : Doc \cup {None}, data : Doc \cup {None}, aimed : SUBSET Doc]

ReaderRecord ==
  [on : BOOLEAN, dir : Dir \cup {None}, gen : Generation, cookie : Nat, last : Nat,
   eof : BOOLEAN, seen : SUBSET Name, twice : BOOLEAN, pc : {"idle", "listed", "asking"},
   entries : SUBSET [name : Name, object : Handle \cup {None}], ids : SUBSET File]

\* TypeOK without the history variables.
StateOK ==
  /\ gen \in Generation
  /\ phone \in [Handle -> Object \cup {None}]
  /\ staged \in [File -> Staged \cup {None}]
  /\ files \subseteq {i \in File : staged[i] # None}
  /\ origins \in [Generation -> [Handle -> File \cup {None}]]
  /\ job \in [Job -> CallRecord]
  /\ reader \in ReaderRecord
  /\ reader.on => reader.dir \in Dir
  /\ IsFiniteSet(reader.entries) /\ (reader.pc # "idle" => reader.on)
  /\ used \subseteq Doc /\ calls \in 0 .. MaxCalls /\ failures \in 0 .. MaxFailures

\* Folders lie in a storage's root, and what lies in a folder goes with it.
Forest(objects) ==
  \A h \in Handle : objects[h] # None /\ objects[h].parent \notin Storage =>
    /\ objects[objects[h].parent] # None /\ objects[objects[h].parent].folder
    /\ ~objects[h].folder

\* A handle that a call keeps is of the session the call was begun in.
Keeps(r, node) ==
  /\ node \in File => staged[node] # None /\ staged[node].gen = r.gen
  /\ node \notin File => node.gen = r.gen

Fits(r) ==
  /\ r.gen <= gen
  /\ r.node # None => Keeps(r, r.node)
  /\ r.victim # None => Keeps(r, r.victim)
  /\ r.pc \notin {"idle", "create", "mkdir"} => r.node # None
  /\ r.pc = "clear" => r.victim # None
  /\ r.pc \in {"create", "mkdir"} => r.call \in Call(Dir)
  /\ r.pc = "mkdir" => r.call.dir \in Storage
  /\ r.pc \in {"target", "clear", "rename", "name"} =>
       r.call \in Call(Dir) /\ r.call.op = "rename"
  /\ r.pc = "name" => r.node \notin File

\* Sessions to come have left nothing behind.
Past ==
  /\ \A i \in File : staged[i] # None => staged[i].gen <= gen
  /\ \A g \in Generation, h \in Handle : origins[g][h] # None =>
       g <= gen /\ staged[origins[g][h]] # None /\ staged[origins[g][h]].gen = g
  /\ \A i \in File : staged[i] # None => staged[i].doc \in used
  /\ \A h \in Handle : phone[h] # None => phone[h].doc \in used

StateInv == StateOK /\ Forest(phone) /\ Past /\ \A j \in Job : Fits(job[j])

-----------------------------------------------------------------------------
(* What the operators return.                                              *)

LEMMA Apart == /\ \A h \in Handle : h \notin Storage /\ h # None /\ h # Top
               /\ \A s \in Storage : s # None
               /\ \A i \in File : i # None
               /\ \A d \in Doc : d # None
               /\ \A n \in Node : n # None
               /\ \A o \in Object : o # None
               /\ \A f \in Staged : f # None
  BY SetAssumption, NodeAssumption

LEMMA NewHandleType ==
  ASSUME HandleLeft
  PROVE  NewHandle \in Handle /\ ~Known(NewHandle)
  BY DEF HandleLeft, NewHandle

LEMMA OverlayType ==
  ASSUME StateInv, NEW node \in Node
  PROVE  Overlay(node) \in File \cup {None}
<1>1. CASE node \in File
  BY <1>1 DEF Overlay
<1>2. CASE node \in [gen : Generation, object : Handle]
  BY <1>2 DEF Overlay, StateInv, StateOK
<1> QED BY <1>1, <1>2 DEF Node

LEMMA StorageOfType ==
  ASSUME StateInv, NEW d \in Dir, IsFolder(d)
  PROVE  StorageOf(d) \in Storage /\ ParentIn(d) \in Handle \cup {Top}
<1>1. CASE d \in Storage
  BY <1>1 DEF StorageOf, ParentIn
<1>2. CASE d \in Handle /\ phone[d] # None /\ phone[d].folder
  <2>1. phone[d] \in Object
    BY <1>2 DEF StateInv, StateOK
  <2> QED BY <1>2, <2>1, Apart DEF StorageOf, ParentIn, StateInv, Forest, Object, Dir
<1> QED BY <1>1, <1>2 DEF Dir, IsFolder, Exists

LEMMA DocAtType ==
  ASSUME StateInv, NEW node \in Node
  PROVE  DocAt(node) \in Doc \cup {None}
<1>1. CASE Overlay(node) # None
  <2>1. Overlay(node) \in files => staged[Overlay(node)] \in Staged
    BY DEF StateInv, StateOK
  <2> QED BY <1>1, <2>1 DEF DocAt, Staged
<1>2. CASE Overlay(node) = None
  <2>1. Exists(node.object) => phone[node.object] \in Object
    BY DEF StateInv, StateOK, Exists
  <2> QED BY <1>2, <2>1 DEF DocAt, Object
<1> QED BY <1>1, <1>2

LEMMA DenotedType ==
  ASSUME StateInv, NEW d, NEW name
  PROVE  Denoted(d, name) \subseteq Doc
<1>1. \A i \in files : staged[i] \in Staged /\ staged[i].doc \in Doc
  BY DEF StateInv, StateOK, Staged
<1>2. \A h \in Handle : phone[h] # None => phone[h] \in Object /\ phone[h].doc \in Doc
  BY DEF StateInv, StateOK, Object
<1> QED BY <1>1, <1>2 DEF Denoted, Named, StagedIn, Children

LEMMA FindType ==
  ASSUME StateInv, NEW g \in Generation, NEW d, NEW name, NEW node \in Find(g, d, name)
  PROVE  /\ node \in Node
         /\ node \in File => staged[node] # None /\ staged[node].gen = g
         /\ node \notin File => node.gen = g
<1>1. ASSUME NEW i \in StagedIn(g, d), node = NodeOf(i)
      PROVE  /\ node \in Node
             /\ node \in File => staged[node] # None /\ staged[node].gen = g
             /\ node \notin File => node.gen = g
  <2>1. i \in File /\ staged[i] \in Staged /\ staged[i].gen = g /\ staged[i] # None
    BY Apart DEF StagedIn, StateInv, StateOK
  <2>2. CASE staged[i].remote = None
    BY <1>1, <2>1, <2>2 DEF NodeOf, Node
  <2>3. CASE staged[i].remote # None
    <3>1. staged[i].remote \in Handle
      BY <2>1, <2>3 DEF Staged
    <3>2. node \in [gen : Generation, object : Handle] /\ node.gen = g
      BY <1>1, <2>1, <2>3, <3>1 DEF NodeOf
    <3> QED BY <3>2, NodeAssumption DEF Node
  <2> QED BY <2>2, <2>3
<1>2. ASSUME NEW h \in Handle, node = [gen |-> g, object |-> h]
      PROVE  node \in Node /\ node \notin File /\ node.gen = g
  <2>1. node \in [gen : Generation, object : Handle] /\ node.gen = g
    BY <1>2
  <2> QED BY <2>1, NodeAssumption DEF Node
<1> QED BY <1>1, <1>2 DEF Find, Children

-----------------------------------------------------------------------------
(* How calls go on.                                                        *)

\* Staged files stay what they are.
Lasts ==
  /\ gen' \in {gen, gen + 1}
  /\ \A i \in File : staged[i] # None =>
       staged'[i] # None /\ staged'[i].gen = staged[i].gen /\ staged'[i].doc = staged[i].doc

LEMMA FitsOn ==
  ASSUME StateInv, Lasts, NEW q \in CallRecord, Fits(q)
  PROVE  Fits(q)'
<1>1. gen \in Nat /\ gen' \in Nat /\ gen <= gen' /\ q.gen \in Nat
  BY BoundAssumption DEF StateInv, StateOK, Lasts, Generation, CallRecord
<1>2. \A n \in Node \cup {None} : Keeps(q, n) => Keeps(q, n)'
  BY DEF Keeps, Lasts
<1>3. q.node \in Node \cup {None} /\ q.victim \in Node \cup {None}
  BY DEF CallRecord
<1> QED BY <1>1, <1>2, <1>3 DEF Fits

LEMMA CallsMove ==
  ASSUME StateInv, Lasts, NEW j \in Job, NEW r \in CallRecord, Fits(r)',
         job' = [job EXCEPT ![j] = r]
  PROVE  job' \in [Job -> CallRecord] /\ \A k \in Job : Fits(job[k])'
<1>1. job' \in [Job -> CallRecord] /\ job'[j] = r /\ \A k \in Job \ {j} : job'[k] = job[k]
  BY DEF StateInv, StateOK
<1>2. ASSUME NEW k \in Job \ {j} PROVE Fits(job[k])'
  <2>1. PICK q : q = job[k]
    OBVIOUS
  <2>2. Fits(q)'
    BY <2>1, FitsOn DEF StateInv, StateOK
  <2> QED BY <1>1, <2>1, <2>2
<1> QED BY <1>1, <1>2

LEMMA IdleFits == StateInv => IdleJob \in CallRecord /\ Fits(IdleJob)
<1> SUFFICES ASSUME StateInv PROVE IdleJob \in CallRecord /\ Fits(IdleJob)
  OBVIOUS
<1>1. 1 \in Generation /\ 1 <= gen
  BY BoundAssumption DEF StateInv, StateOK, Generation
<1> QED BY <1>1 DEF IdleJob, CallRecord, Fits, PC

LEMMA CallEnds ==
  ASSUME StateInv, Lasts, NEW j \in Job, Ends(j)
  PROVE  job' \in [Job -> CallRecord] /\ \A k \in Job : Fits(job[k])'
<1>1. 1 \in Generation /\ 1 <= gen'
  BY BoundAssumption DEF StateInv, StateOK, Generation, Lasts
<1>2. IdleJob \in CallRecord /\ Fits(IdleJob)'
  BY <1>1 DEF IdleJob, CallRecord, Fits, PC
<1> QED BY <1>2, CallsMove DEF Ends

-----------------------------------------------------------------------------
(* What stays when an object goes.                                         *)

Objects == [Handle -> Object \cup {None}]

LEMMA WithoutIs ==
  ASSUME NEW objects \in Objects, NEW h \in Handle \cup {None}
  PROVE  /\ Without(objects, h) \in Objects
         /\ \A x \in Handle :
              /\ Without(objects, h)[x] =
                   IF objects[x] # None /\ (x = h \/ objects[x].parent = h) THEN None ELSE objects[x]
              /\ objects[x] # None => objects[x] \in Object /\ objects[x].parent # None
<1>1. \A x \in Handle : objects[x] # None => objects[x] \in Object /\ objects[x].parent # None
  BY Apart DEF Objects, Object, Dir
<1> QED BY <1>1 DEF Without, Objects

LEMMA WithoutForest ==
  ASSUME NEW objects \in Objects, NEW h \in Handle \cup {None}, Forest(objects)
  PROVE  Forest(Without(objects, h))
<1> DEFINE rest == Without(objects, h)
<1> SUFFICES ASSUME NEW x \in Handle, rest[x] # None, rest[x].parent \notin Storage
             PROVE  /\ rest[rest[x].parent] # None /\ rest[rest[x].parent].folder
                    /\ ~rest[x].folder
  BY DEF Forest
<1>1. rest[x] = objects[x] /\ objects[x] # None /\ objects[x].parent # h /\ objects[x] \in Object
  BY WithoutIs
<1> DEFINE p == objects[x].parent
<1>2. p \in Handle /\ objects[p] # None /\ objects[p].folder /\ ~objects[x].folder
  BY <1>1 DEF Forest, Object, Dir
<1>3. objects[p] \in Object /\ objects[p].parent # None
  BY <1>2, WithoutIs
<1>4. objects[p].parent \in Storage
  BY <1>2 DEF Forest
<1>5. objects[p].parent # h
  BY <1>4, Apart
<1>6. rest[p] = objects[p]
  BY <1>1, <1>2, <1>5, WithoutIs, SMTT(30)
<1> QED BY <1>1, <1>2, <1>6

-----------------------------------------------------------------------------
(* Types, step by step.                                                    *)

\* A step that changes neither the phone nor what is staged.
LEMMA QuietStep ==
  ASSUME StateInv, UNCHANGED <<gen, phone, area, used>>,
         job' \in [Job -> CallRecord], \A k \in Job : Fits(job[k])',
         calls' \in 0 .. MaxCalls, failures' \in 0 .. MaxFailures,
         UNCHANGED reader
  PROVE  StateInv'
  BY DEF StateInv, StateOK, Forest, Past, area

LEMMA NothingAges == UNCHANGED <<gen, phone, area>> => Lasts
  BY DEF Lasts, area

LEMMA Spent ==
  ASSUME StateInv, NEW request, UNCHANGED failures \/ Breaks(request)
  PROVE  failures' \in 0 .. MaxFailures
  BY BoundAssumption DEF StateInv, StateOK, Breaks

LEMMA FoundKeepsTypes ==
  ASSUME StateInv, NEW j \in Job, NEW call \in Call(Folder), Found(j, call)
  PROVE  StateInv' /\ Lasts
<1>1. Lasts /\ UNCHANGED <<gen, phone, area, reader, used, failures>>
  BY NothingAges DEF Found
<1>2. calls' \in 0 .. MaxCalls
  BY BoundAssumption DEF StateInv, StateOK, Found, Free
<1>3. PICK node \in Find(gen, call.dir, call.name), pc \in {"read", "write", "remove", "target"} :
        /\ Goes(j, pc, call, node)
        /\ pc = "target" => call.op = "rename"
  BY DEF Found
<1>4. gen \in Generation
  BY DEF StateInv, StateOK
<1>5. /\ node \in Node /\ node # None
      /\ node \in File => staged[node] # None /\ staged[node].gen = gen
      /\ node \notin File => node.gen = gen
  BY <1>4, FindType, Apart
<1>6. call \in Call(Dir)
  BY DEF Call, Folder
<1> DEFINE r0 == [IdleJob EXCEPT !.pc = pc, !.gen = gen, !.node = node,
                    !.call = IF pc \in {"create", "mkdir", "target"} THEN call ELSE @,
                    !.doc = IF pc \in {"read", "write", "target"} THEN DocAt(node) ELSE @,
                    !.aimed = IF pc = "remove" THEN Denoted(call.dir, call.name) ELSE @]
<1>7. PICK r : r = r0
  OBVIOUS
<1>8. r \in CallRecord /\ Fits(r)'
  <2>1. DocAt(node) \in Doc \cup {None} /\ Denoted(call.dir, call.name) \subseteq Doc
    BY <1>5, DocAtType, DenotedType
  <2>2. r \in CallRecord
    BY <1>4, <1>5, <1>6, <1>7, <2>1 DEF IdleJob, CallRecord, PC
  <2>3. /\ r.gen = gen /\ r.node = node /\ r.victim = None /\ r.pc = pc
        /\ pc = "target" => r.call = call
    BY <1>7 DEF IdleJob
  <2>4. gen <= gen
    BY <1>4, BoundAssumption DEF Generation
  <2> QED BY <1>1, <1>3, <1>5, <1>6, <2>2, <2>3, <2>4 DEF Fits, Keeps, area
<1>9. job' = [job EXCEPT ![j] = r]
  BY <1>3, <1>7 DEF Goes
<1>10. job' \in [Job -> CallRecord] /\ \A k \in Job : Fits(job[k])'
  BY <1>1, <1>8, <1>9, CallsMove
<1> QED BY <1>1, <1>2, <1>10, QuietStep DEF StateInv, StateOK

LEMMA NotFoundKeepsTypes ==
  ASSUME StateInv, NEW j \in Job, NEW call \in Call(Folder), NotFound(j, call)
  PROVE  StateInv' /\ Lasts
<1>1. Lasts /\ UNCHANGED <<gen, phone, area, reader, used>>
  BY NothingAges DEF NotFound
<1>2. calls' \in 0 .. MaxCalls
  BY BoundAssumption DEF StateInv, StateOK, NotFound, Free
<1>3. failures' \in 0 .. MaxFailures
  BY Spent DEF NotFound
<1>4. gen \in Generation /\ call \in Call(Dir) /\ gen <= gen
  BY BoundAssumption DEF StateInv, StateOK, Call, Folder, Generation
<1>5. PICK pc \in {"create", "mkdir"} :
        /\ Goes(j, pc, call, None)
        /\ pc = "mkdir" => call.dir \in Storage
  BY DEF NotFound
<1>6. PICK r : r = [IdleJob EXCEPT !.pc = pc, !.gen = gen, !.node = None,
                    !.call = IF pc \in {"create", "mkdir", "target"} THEN call ELSE @,
                    !.doc = IF pc \in {"read", "write", "target"} THEN DocAt(None) ELSE @,
                    !.aimed = IF pc = "remove" THEN Denoted(call.dir, call.name) ELSE @]
  OBVIOUS
<1>7. job' = [job EXCEPT ![j] = r]
  BY <1>5, <1>6 DEF Goes
<1>8. r \in CallRecord /\ Fits(r)'
  <2>1. r \in CallRecord
    BY <1>4, <1>5, <1>6 DEF IdleJob, CallRecord, PC
  <2>2. r.gen = gen /\ r.node = None /\ r.victim = None /\ r.pc = pc /\ r.call = call
    BY <1>5, <1>6 DEF IdleJob
  <2> QED BY <1>1, <1>4, <1>5, <2>1, <2>2 DEF Fits
<1>9. job' \in [Job -> CallRecord] /\ \A k \in Job : Fits(job[k])'
  BY <1>1, <1>7, <1>8, CallsMove
<1> QED BY <1>1, <1>2, <1>3, <1>9, QuietStep

LEMMA CreatesKeepsTypes ==
  ASSUME StateInv, NEW j \in Job, Creates(j)
  PROVE  StateInv' /\ Lasts
<1> DEFINE call == job[j].call
           i == CHOOSE k \in File : staged[k] = None
           d == CHOOSE x \in Doc : x \notin used
           f == [gen |-> job[j].gen, storage |-> StorageOf(call.dir), parent |-> ParentIn(call.dir),
                 name |-> call.name, remote |-> None, dirty |-> TRUE, doc |-> d]
<1>1. i \in File /\ staged[i] = None
  BY DEF Creates
<1>2. d \in Doc /\ d \notin used
  BY DEF Creates
<1>3. job[j] \in CallRecord /\ Fits(job[j]) /\ call \in Call(Dir) /\ IsFolder(call.dir)
  BY DEF StateInv, StateOK, Creates, Fits
<1>4. call.dir \in Dir /\ call.name \in Name
  BY <1>3 DEF Call
<1>5. f \in Staged
  <2>1. StorageOf(call.dir) \in Storage /\ ParentIn(call.dir) \in Handle \cup {Top}
    BY <1>3, <1>4, StorageOfType
  <2> HIDE DEF d, call
  <2> QED BY <1>2, <1>3, <1>4, <2>1 DEF CallRecord, Staged
<1>6. staged' = [staged EXCEPT ![i] = f] /\ files' = files \cup {i} /\ used' = used \cup {d}
  BY DEF Creates
<1>7. f.gen = job[j].gen /\ f.doc = d /\ job[j].gen <= gen
  BY <1>3 DEF Fits
<1>8. UNCHANGED <<gen, phone, origins, reader, calls, failures>> /\ Ends(j)
  BY DEF Creates
<1> HIDE DEF call, i, d, f
<1>9. Lasts
  BY <1>1, <1>6, <1>8 DEF Lasts, StateInv, StateOK
<1>10. job' \in [Job -> CallRecord] /\ \A k \in Job : Fits(job[k])'
  BY <1>8, <1>9, CallEnds
<1>11. f # None
  BY <1>5, Apart
<1>12. staged' \in [File -> Staged \cup {None}] /\ files' \subseteq {k \in File : staged'[k] # None}
  BY <1>1, <1>5, <1>6, <1>11 DEF StateInv, StateOK
<1>13. StateOK'
  BY <1>2, <1>6, <1>8, <1>10, <1>12 DEF StateInv, StateOK
<1>14. Past'
  <2>1. \A k \in File : staged'[k] # None => staged'[k].gen <= gen' /\ staged'[k].doc \in used'
    BY <1>1, <1>6, <1>7, <1>8 DEF StateInv, StateOK, Past
  <2>2. \A g \in Generation, h \in Handle : origins'[g][h] # None =>
          g <= gen' /\ staged'[origins'[g][h]] # None /\ staged'[origins'[g][h]].gen = g
    <3>1. \A g \in Generation, h \in Handle : origins[g][h] # None => origins[g][h] \in File
      BY DEF StateInv, StateOK
    <3> QED BY <1>8, <1>9, <3>1 DEF StateInv, Past, Lasts
  <2> QED BY <1>6, <1>8, <2>1, <2>2 DEF StateInv, Past
<1> QED BY <1>8, <1>9, <1>10, <1>13, <1>14 DEF StateInv, Forest

LEMMA MakesFolderKeepsTypes ==
  ASSUME StateInv, NEW j \in Job, MakesFolder(j)
  PROVE  StateInv' /\ Lasts
<1> DEFINE call == job[j].call
           d == CHOOSE x \in Doc : x \notin used
           o == [parent |-> call.dir, name |-> call.name, folder |-> TRUE, doc |-> d]
           h == NewHandle
<1>1. h \in Handle /\ phone[h] = None
  BY NewHandleType DEF MakesFolder, Known
<1>2. d \in Doc /\ d \notin used
  BY DEF MakesFolder
<1>3. job[j] \in CallRecord /\ call \in Call(Dir) /\ call.dir \in Storage /\ call.name \in Name
  BY DEF StateInv, StateOK, MakesFolder, Fits, Call
<1>4. o \in Object
  <2> HIDE DEF d, call
  <2> QED BY <1>2, <1>3 DEF Object, Dir
<1>5. phone' = [phone EXCEPT ![h] = o] /\ used' = used \cup {d}
  BY DEF MakesFolder
<1>6. UNCHANGED <<gen, area, reader, calls, failures>> /\ Ends(j)
  BY DEF MakesFolder
<1>7. o.parent \in Storage /\ o.doc = d
  BY <1>3
<1> HIDE DEF call, d, o, h
<1>8. Lasts
  BY <1>6 DEF Lasts, area
<1>9. job' \in [Job -> CallRecord] /\ \A k \in Job : Fits(job[k])'
  BY <1>6, <1>8, CallEnds
<1>10. phone' \in [Handle -> Object \cup {None}]
  BY <1>4, <1>5 DEF StateInv, StateOK
<1>11. StateOK'
  BY <1>2, <1>5, <1>6, <1>9, <1>10 DEF StateInv, StateOK, area
<1>12. Past'
  BY <1>1, <1>5, <1>6, <1>7 DEF StateInv, StateOK, Past, area
<1>13. Forest(phone)'
  <2> SUFFICES ASSUME NEW x \in Handle, phone'[x] # None, phone'[x].parent \notin Storage
               PROVE  /\ phone'[phone'[x].parent] # None /\ phone'[phone'[x].parent].folder
                      /\ ~phone'[x].folder
    BY DEF Forest
  <2>1. x # h /\ phone'[x] = phone[x]
    BY <1>1, <1>5, <1>7 DEF StateInv, StateOK
  <2>2. phone[x].parent \in Handle
    BY <2>1 DEF StateInv, StateOK, Object, Dir
  <2>3. phone[phone[x].parent] # None /\ phone[phone[x].parent].folder /\ ~phone[x].folder
    BY <2>1 DEF StateInv, Forest
  <2> QED BY <1>1, <1>5, <2>1, <2>2, <2>3 DEF StateInv, StateOK
<1> QED BY <1>8, <1>9, <1>11, <1>12, <1>13 DEF StateInv

\* What is removed: the object is there no more, nor what is in it; the file is no more found.
LEMMA DiscardsKeepsTypes ==
  ASSUME StateInv, NEW node \in Node, NEW strict, Removable(node, strict), Discards(node),
         UNCHANGED <<gen, staged, origins, used>>
  PROVE  /\ Lasts /\ Past' /\ Forest(phone)'
         /\ phone' \in Objects /\ files' \subseteq files
         /\ \A h \in Handle : phone'[h] # None => phone'[h] = phone[h]
<1>1. PICK h \in Handle \cup {None} : phone' = Without(phone, h)
  <2>1. CASE Overlay(node) = None
    BY <2>1 DEF Discards, Removable, Exists
  <2>2. CASE Overlay(node) # None
    <3>1. staged[Overlay(node)] \in Staged
      BY <2>2 DEF Removable, StateInv, StateOK
    <3> QED BY <2>2, <3>1 DEF Discards, Staged
  <2> QED BY <2>1, <2>2
<1>2. phone \in Objects /\ Forest(phone)
  BY DEF StateInv, StateOK, Objects
<1>3. phone' \in Objects /\ \A x \in Handle : phone'[x] # None => phone'[x] = phone[x]
  BY <1>1, <1>2, WithoutIs
<1>4. Forest(phone')
  BY <1>1, <1>2, WithoutForest
<1>5. Past'
  BY <1>3 DEF Past, StateInv
<1> QED BY <1>3, <1>4, <1>5 DEF Lasts, Discards, Forest

LEMMA RemovesKeepsTypes ==
  ASSUME StateInv, NEW j \in Job, RemoveObject(j)
  PROVE  StateInv' /\ Lasts
<1>1. UNCHANGED <<gen, staged, origins, reader, used, calls>> /\ Ends(j)
  BY DEF RemoveObject
<1>2. job[j].node \in Node
  BY DEF StateInv, StateOK, Fits, CallRecord, RemoveObject
<1>3. Lasts
  BY <1>1 DEF Lasts
<1>4. job' \in [Job -> CallRecord] /\ \A k \in Job : Fits(job[k])'
  BY <1>1, <1>3, CallEnds
<1>5. CASE Removable(job[j].node, FALSE) /\ Discards(job[j].node) /\ UNCHANGED failures
  <2>1. /\ Past' /\ Forest(phone)' /\ phone' \in Objects /\ files' \subseteq files
    BY <1>1, <1>2, <1>5, DiscardsKeepsTypes
  <2>2. StateOK'
    BY <1>1, <1>4, <1>5, <2>1 DEF StateInv, StateOK, Objects
  <2> QED BY <1>3, <1>4, <2>1, <2>2 DEF StateInv
<1>6. CASE UNCHANGED <<phone, files>> /\ (UNCHANGED failures \/ Breaks("delete"))
  <2>1. failures' \in 0 .. MaxFailures
    BY <1>6, Spent
  <2> QED BY <1>1, <1>3, <1>4, <1>6, <2>1, QuietStep DEF area, StateInv, StateOK
<1> QED BY <1>5, <1>6 DEF RemoveObject

LEMMA WriteKeepsTypes ==
  ASSUME StateInv, NEW j \in Job, Write(j)
  PROVE  StateInv' /\ Lasts
<1> DEFINE node == job[j].node
           i == Overlay(node)
           k == CHOOSE x \in File : staged[x] = None
           o == phone[node.object]
           f == [gen |-> node.gen, storage |-> StorageOf(o.parent), parent |-> ParentIn(o.parent),
                 name |-> o.name, remote |-> node.object, dirty |-> TRUE, doc |-> o.doc]
<1>1. UNCHANGED <<gen, phone, reader, bounds>> /\ Ends(j)
  BY DEF Write
<1>2. node \in Node /\ i \in File \cup {None} /\ (node.gen <= gen \/ node \in File)
  <2>1. node \in Node
    BY DEF StateInv, StateOK, Fits, CallRecord, Write
  <2>2. job[j].gen <= gen /\ (node \notin File => node.gen = job[j].gen)
    BY <2>1, Apart DEF StateInv, Fits, Keeps
  <2> QED BY <2>1, <2>2, OverlayType
<1>3. CASE UNCHANGED area
  <2>1. Lasts
    BY <1>1, <1>3, NothingAges
  <2>2. job' \in [Job -> CallRecord] /\ \A x \in Job : Fits(job[x])'
    BY <1>1, <2>1, CallEnds
  <2> QED BY <1>1, <1>3, <2>1, <2>2, QuietStep DEF bounds, StateInv, StateOK
<1>4. CASE staged' = [staged EXCEPT ![i].dirty = TRUE] /\ i \in files /\ UNCHANGED <<files, origins>>
  <2> HIDE DEF i, k, o, f
  <2>1. i \in File /\ staged[i] \in Staged /\ staged[i] # None
    BY <1>4, Apart DEF StateInv, StateOK
  <2>2. PICK f1 : f1 = [staged[i] EXCEPT !.dirty = TRUE]
    OBVIOUS
  <2>3. f1 \in Staged /\ f1 # None /\ f1.gen = staged[i].gen /\ f1.doc = staged[i].doc
    BY <2>1, <2>2, Apart DEF Staged
  <2>4. staged' = [staged EXCEPT ![i] = f1]
    BY <1>4, <2>2
  <2>5. /\ staged' \in [File -> Staged \cup {None}]
        /\ \A x \in File : /\ staged[x] = None <=> staged'[x] = None
                           /\ staged[x] # None => staged'[x].gen = staged[x].gen
                                                  /\ staged'[x].doc = staged[x].doc
    BY <2>1, <2>3, <2>4 DEF StateInv, StateOK
  <2>6. Lasts
    BY <1>1, <2>5 DEF Lasts
  <2>7. job' \in [Job -> CallRecord] /\ \A x \in Job : Fits(job[x])'
    BY <1>1, <2>6, CallEnds
  <2>8. StateOK'
    BY <1>1, <1>4, <2>5, <2>7 DEF StateInv, StateOK, bounds
  <2>9. Past'
    <3>1. \A g \in Generation, h \in Handle : origins[g][h] # None => origins[g][h] \in File
      BY DEF StateInv, StateOK
    <3> QED BY <1>1, <1>4, <2>5, <3>1 DEF StateInv, Past, bounds
  <2> QED BY <1>1, <2>6, <2>7, <2>8, <2>9 DEF StateInv, Forest
<1>5. CASE /\ i = None /\ Exists(node.object) /\ ~o.folder /\ \E x \in File : staged[x] = None
           /\ staged' = [staged EXCEPT ![k] = f] /\ files' = files \cup {k}
           /\ origins' = [origins EXCEPT ![node.gen][node.object] = k]
  <2>1. k \in File /\ staged[k] = None
    BY <1>5
  <2>2. node \notin File /\ node.gen \in Generation /\ node.object \in Handle /\ node.gen <= gen
    <3>1. node \notin File
      BY <1>5, Apart DEF Overlay
    <3> QED BY <1>2, <3>1 DEF Node
  <2>3. phone[node.object] # None /\ o \in Object
    BY <1>5, <2>2 DEF Exists, StateInv, StateOK
  <2>4. o.doc \in Doc /\ o.doc \in used /\ o.name \in Name
    BY <2>2, <2>3 DEF Object, StateInv, Past
  <2>5. StorageOf(o.parent) \in Storage /\ ParentIn(o.parent) \in Handle \cup {Top}
    <3>1. o.parent \in Dir
      BY <2>3 DEF Object
    <3>2. IsFolder(o.parent)
      BY <2>2, <2>3, <3>1 DEF StateInv, Forest, IsFolder, Exists, Dir
    <3> QED BY <3>1, <3>2, StorageOfType
  <2> HIDE DEF i, k, o
  <2>6. f \in Staged /\ f.gen = node.gen /\ f.doc = o.doc
    BY <2>2, <2>4, <2>5 DEF Staged
  <2> HIDE DEF f, node
  <2>7. f # None
    BY <2>6, Apart
  <2>8. /\ staged' \in [File -> Staged \cup {None}] /\ staged'[k] = f
        /\ \A x \in File : x # k => staged'[x] = staged[x]
    BY <1>5, <2>1, <2>6 DEF StateInv, StateOK
  <2>9. Lasts
    BY <1>1, <2>1, <2>8 DEF Lasts
  <2>10. job' \in [Job -> CallRecord] /\ \A x \in Job : Fits(job[x])'
    BY <1>1, <2>9, CallEnds
  <2>11. /\ origins' \in [Generation -> [Handle -> File \cup {None}]]
         /\ \A g \in Generation, h \in Handle : origins'[g][h] =
              IF g = node.gen /\ h = node.object THEN k ELSE origins[g][h]
    BY <1>5, <2>1, <2>2 DEF StateInv, StateOK
  <2>12. files' \subseteq {x \in File : staged'[x] # None}
    BY <1>5, <2>1, <2>7, <2>8 DEF StateInv, StateOK
  <2>13. StateOK'
    BY <1>1, <2>8, <2>10, <2>11, <2>12 DEF StateInv, StateOK, bounds
  <2>14. Past'
    <3>1. \A x \in File : staged'[x] # None => staged'[x].gen <= gen' /\ staged'[x].doc \in used'
      BY <1>1, <2>2, <2>4, <2>6, <2>8 DEF StateInv, Past, bounds
    <3>2. ASSUME NEW g \in Generation, NEW h \in Handle, origins'[g][h] # None
          PROVE  g <= gen' /\ staged'[origins'[g][h]] # None /\ staged'[origins'[g][h]].gen = g
      <4>1. CASE g = node.gen /\ h = node.object
        BY <1>1, <2>1, <2>2, <2>6, <2>7, <2>8, <2>11, <4>1
      <4>2. CASE ~(g = node.gen /\ h = node.object)
        <5>1. origins'[g][h] = origins[g][h] /\ origins[g][h] \in File
          BY <2>11, <3>2, <4>2 DEF StateInv, StateOK
        <5>2. g <= gen /\ staged[origins[g][h]] # None /\ staged[origins[g][h]].gen = g
          BY <3>2, <5>1 DEF StateInv, Past
        <5> QED BY <1>1, <2>1, <2>8, <5>1, <5>2
      <4> QED BY <4>1, <4>2
    <3>3. \A h \in Handle : phone'[h] # None => phone'[h].doc \in used'
      BY <1>1 DEF StateInv, Past, bounds
    <3> QED BY <3>1, <3>2, <3>3 DEF Past
  <2> QED BY <1>1, <2>9, <2>10, <2>13, <2>14 DEF StateInv, Forest
<1>6. CASE i # None
  BY <1>3, <1>4, <1>6 DEF Write, area
<1>7. CASE i = None
  <2>1. UNCHANGED area \/ ~(~Exists(node.object) \/ o.folder)
    BY <1>7 DEF Write
  <2>2. UNCHANGED area \/
          /\ Exists(node.object) /\ ~o.folder /\ \E x \in File : staged[x] = None
          /\ staged' = [staged EXCEPT ![k] = f] /\ files' = files \cup {k}
          /\ origins' = [origins EXCEPT ![node.gen][node.object] = k]
    BY <1>7, <2>1 DEF Write
  <2> QED BY <1>3, <1>5, <1>7, <2>2
<1> QED BY <1>6, <1>7

\* A call goes on with the same, or with what it has looked up.
LEMMA CallTurns ==
  ASSUME StateInv, Lasts, NEW j \in Job, NEW r \in CallRecord, job' = [job EXCEPT ![j] = r],
         r.gen = job[j].gen, r.node = job[j].node, r.node # None, r.call = job[j].call,
         r.victim # None => Keeps(job[j], r.victim),
         r.pc \notin {"create", "mkdir"}, r.pc = "clear" => r.victim # None,
         r.pc \in {"target", "clear", "rename", "name"} =>
           r.call \in Call(Dir) /\ r.call.op = "rename",
         r.pc = "name" => r.node \notin File
  PROVE  job' \in [Job -> CallRecord] /\ \A k \in Job : Fits(job[k])'
<1>1. Fits(job[j])
  BY DEF StateInv
<1>2. Fits(r)
  BY <1>1 DEF Fits, Keeps
<1> QED BY <1>2, FitsOn, CallsMove

LEMMA ReadKeepsTypes ==
  ASSUME StateInv, NEW j \in Job, Read(j)
  PROVE  StateInv' /\ Lasts
<1>1. UNCHANGED <<gen, phone, area, reader, bounds>> /\ Lasts
  BY NothingAges DEF Read
<1>2. job[j] \in CallRecord /\ Fits(job[j])
  BY DEF StateInv, StateOK
<1>3. job[j].node \in Node /\ job[j].node # None
  BY <1>2, Apart DEF Fits, CallRecord, Read
<1>4. job' \in [Job -> CallRecord] /\ \A k \in Job : Fits(job[k])'
  <2>1. CASE Ends(j)
    BY <1>1, <2>1, CallEnds
  <2>2. CASE job' = [job EXCEPT ![j].pc = "attrs", ![j].data = DocAt(job[j].node)]
    <3>1. PICK data \in Doc \cup {None} : data = DocAt(job[j].node)
      BY <1>3, DocAtType
    <3>2. PICK r : r = [job[j] EXCEPT !.pc = "attrs", !.data = data]
      OBVIOUS
    <3>3. /\ r \in CallRecord /\ r.gen = job[j].gen /\ r.node = job[j].node
          /\ r.call = job[j].call /\ r.victim = job[j].victim /\ r.pc = "attrs"
      BY <1>2, <3>1, <3>2 DEF CallRecord, PC
    <3>4. job' = [job EXCEPT ![j] = r]
      BY <2>2, <3>1, <3>2
    <3>5. r.victim # None => Keeps(job[j], r.victim)
      BY <1>2, <3>3 DEF Fits
    <3> QED BY <1>1, <1>3, <3>3, <3>4, <3>5, CallTurns
  <2> QED BY <2>1, <2>2 DEF Read, Ends
<1> QED BY <1>1, <1>4, QuietStep DEF bounds, StateInv, StateOK

LEMMA ReadEndsKeepsTypes ==
  ASSUME StateInv, NEW j \in Job, ReadAnswers(j) \/ ReadRefused(j)
  PROVE  StateInv' /\ Lasts
<1>1. UNCHANGED <<gen, phone, area, reader, bounds>> /\ Lasts /\ Ends(j)
  BY NothingAges DEF ReadAnswers, ReadRefused
<1>2. job' \in [Job -> CallRecord] /\ \A k \in Job : Fits(job[k])'
  BY <1>1, CallEnds
<1> QED BY <1>1, <1>2, QuietStep DEF bounds, StateInv, StateOK

LEMMA TargetKeepsTypes ==
  ASSUME StateInv, NEW j \in Job, TargetFound(j) \/ TargetMissing(j)
  PROVE  StateInv' /\ Lasts
<1>1. UNCHANGED <<gen, phone, area, reader, used, calls>> /\ Lasts
  BY NothingAges DEF TargetFound, TargetMissing, bounds
<1>2. failures' \in 0 .. MaxFailures
  BY Spent DEF TargetFound, TargetMissing, bounds
<1>3. job[j] \in CallRecord /\ Fits(job[j]) /\ job[j].pc = "target"
  BY DEF StateInv, StateOK, TargetFound, TargetMissing
<1>4. /\ job[j].node # None /\ job[j].call \in Call(Dir) /\ job[j].call.op = "rename"
      /\ job[j].gen \in Generation /\ job[j].victim \in Node \cup {None}
      /\ job[j].aimed \in SUBSET Doc /\ job[j].data \in Doc \cup {None}
      /\ (job[j].victim # None => Keeps(job[j], job[j].victim))
      /\ "rename" \in PC /\ "clear" \in PC
  BY <1>3 DEF CallRecord, Fits, PC
<1>5. job' \in [Job -> CallRecord] /\ \A k \in Job : Fits(job[k])'
  <2>1. CASE To(j, "rename")
    <3>1. PICK r : r = [job[j] EXCEPT !.pc = "rename"]
      OBVIOUS
    <3>2. /\ r \in CallRecord /\ r.gen = job[j].gen /\ r.node = job[j].node
          /\ r.call = job[j].call /\ r.victim = job[j].victim /\ r.pc = "rename"
      BY <1>3, <1>4, <3>1 DEF CallRecord
    <3>3. job' = [job EXCEPT ![j] = r]
      BY <2>1, <3>1 DEF To
    <3> QED BY <1>1, <1>4, <3>2, <3>3, CallTurns
  <2>2. ASSUME NEW node \in Find(job[j].gen, job[j].call.to, job[j].call.toName),
               job' = [job EXCEPT ![j].pc = "clear", ![j].victim = node,
                         ![j].aimed = Denoted(job[j].call.to, job[j].call.toName)]
        PROVE  job' \in [Job -> CallRecord] /\ \A k \in Job : Fits(job[k])'
    <3>1. node \in Node /\ node # None /\ Keeps(job[j], node)
      BY <1>4, FindType, Apart DEF Keeps
    <3>2. PICK aimed \in SUBSET Doc : aimed = Denoted(job[j].call.to, job[j].call.toName)
      BY DenotedType
    <3>3. PICK r : r = [job[j] EXCEPT !.pc = "clear", !.victim = node, !.aimed = aimed]
      OBVIOUS
    <3>4. /\ r \in CallRecord /\ r.gen = job[j].gen /\ r.node = job[j].node
          /\ r.call = job[j].call /\ r.victim = node /\ r.pc = "clear"
      BY <1>3, <1>4, <3>1, <3>2, <3>3 DEF CallRecord
    <3>5. job' = [job EXCEPT ![j] = r]
      BY <2>2, <3>2, <3>3
    <3> QED BY <1>1, <1>4, <3>1, <3>4, <3>5, CallTurns
  <2> QED BY <2>1, <2>2 DEF TargetFound, TargetMissing, To
<1> QED BY <1>1, <1>2, <1>5, QuietStep DEF StateInv, StateOK

LEMMA ClearKeepsTypes ==
  ASSUME StateInv, NEW j \in Job, Clear(j)
  PROVE  StateInv' /\ Lasts
<1>1. UNCHANGED <<gen, staged, origins, reader, used, calls>> /\ Lasts
  BY DEF Clear, Lasts
<1>2. job[j] \in CallRecord /\ Fits(job[j]) /\ job[j].pc = "clear"
  BY DEF StateInv, StateOK, Clear
<1>3. /\ job[j].node # None /\ job[j].call \in Call(Dir) /\ job[j].call.op = "rename"
      /\ job[j].aimed \in SUBSET Doc /\ job[j].data \in Doc \cup {None}
      /\ job[j].victim \in Node /\ "rename" \in PC
  BY <1>2 DEF CallRecord, Fits, PC
<1>4. CASE /\ Removable(job[j].victim, TRUE) /\ Discards(job[j].victim) /\ UNCHANGED failures
           /\ job' = [job EXCEPT ![j].pc = "rename", ![j].victim = None]
  <2>1. /\ Past' /\ Forest(phone)' /\ phone' \in Objects /\ files' \subseteq files
    BY <1>1, <1>3, <1>4, DiscardsKeepsTypes
  <2>2. job' \in [Job -> CallRecord] /\ \A k \in Job : Fits(job[k])'
    <3>1. PICK r : r = [job[j] EXCEPT !.pc = "rename", !.victim = None]
      OBVIOUS
    <3>2. /\ r \in CallRecord /\ r.gen = job[j].gen /\ r.node = job[j].node
          /\ r.call = job[j].call /\ r.victim = None /\ r.pc = "rename"
      BY <1>2, <1>3, <3>1 DEF CallRecord
    <3>3. job' = [job EXCEPT ![j] = r]
      BY <1>4, <3>1
    <3> QED BY <1>1, <1>3, <3>2, <3>3, CallTurns
  <2>3. StateOK'
    BY <1>1, <1>4, <2>1, <2>2 DEF StateInv, StateOK, Objects
  <2> QED BY <1>1, <2>1, <2>2, <2>3 DEF StateInv
<1>5. CASE UNCHANGED <<phone, files>> /\ Ends(j) /\ (UNCHANGED failures \/ Breaks("delete"))
  <2>1. failures' \in 0 .. MaxFailures
    BY <1>5, Spent
  <2>2. job' \in [Job -> CallRecord] /\ \A k \in Job : Fits(job[k])'
    BY <1>1, <1>5, CallEnds
  <2> QED BY <1>1, <1>5, <2>1, <2>2, QuietStep DEF area, StateInv, StateOK
<1> QED BY <1>4, <1>5 DEF Clear

LEMMA RenamesStagedKeepsTypes ==
  ASSUME StateInv, NEW j \in Job, RenamesStaged(j)
  PROVE  StateInv' /\ Lasts
<1> DEFINE i == Overlay(job[j].node)
           call == job[j].call
<1>1. /\ UNCHANGED <<gen, phone, files, origins, reader, bounds>> /\ Ends(j) /\ i \in files
      /\ staged' = [staged EXCEPT ![i].parent = ParentIn(call.to), ![i].name = call.toName,
                                  ![i].dirty = TRUE]
  BY DEF RenamesStaged
<1>2. call \in Call(Dir) /\ call.op = "rename"
  BY DEF StateInv, Fits, RenamesStaged
<1>3. call.to \in Dir /\ call.toName \in Name
  BY <1>2 DEF Call
<1>4. ParentIn(call.to) \in Handle \cup {Top}
  BY <1>3 DEF ParentIn, Dir
<1>5. i \in File /\ staged[i] \in Staged /\ staged[i] # None
  BY <1>1, Apart DEF StateInv, StateOK
<1> HIDE DEF i, call
<1>6. PICK f : f = [staged[i] EXCEPT !.parent = ParentIn(call.to), !.name = call.toName,
                                     !.dirty = TRUE]
  OBVIOUS
<1>7. staged' = [staged EXCEPT ![i] = f]
  BY <1>1, <1>6
<1>8. f \in Staged /\ f # None /\ f.gen = staged[i].gen /\ f.doc = staged[i].doc
  BY <1>3, <1>4, <1>5, <1>6, Apart DEF Staged
<1>9. /\ staged' \in [File -> Staged \cup {None}]
      /\ \A x \in File : /\ staged[x] = None <=> staged'[x] = None
                         /\ staged[x] # None => staged'[x].gen = staged[x].gen
                                                /\ staged'[x].doc = staged[x].doc
  BY <1>5, <1>7, <1>8 DEF StateInv, StateOK
<1>10. Lasts
  BY <1>1, <1>9 DEF Lasts
<1>11. job' \in [Job -> CallRecord] /\ \A x \in Job : Fits(job[x])'
  BY <1>1, <1>10, CallEnds
<1>12. StateOK'
  BY <1>1, <1>9, <1>11 DEF StateInv, StateOK, bounds
<1>13. Past'
  <2>1. \A g \in Generation, h \in Handle : origins[g][h] # None => origins[g][h] \in File
    BY DEF StateInv, StateOK
  <2> QED BY <1>1, <1>9, <2>1 DEF StateInv, Past, bounds
<1> QED BY <1>1, <1>10, <1>11, <1>12, <1>13 DEF StateInv, Forest

LEMMA MovesKeepsTypes ==
  ASSUME StateInv, NEW j \in Job, Moves(j)
  PROVE  StateInv' /\ Lasts
<1> DEFINE call == job[j].call
           h == job[j].node.object
<1>1. /\ UNCHANGED <<gen, area, reader, bounds>> /\ Movable(h, call.to)
      /\ phone' = [phone EXCEPT ![h].parent = call.to]
      /\ Ends(j) \/ To(j, "name")
      /\ job[j].pc = "rename" /\ Overlay(job[j].node) = None
  BY DEF Moves
<1>2. Lasts
  BY <1>1 DEF Lasts, area
<1>3. job[j] \in CallRecord /\ Fits(job[j]) /\ call \in Call(Dir) /\ call.op = "rename"
  BY <1>1 DEF StateInv, StateOK, Fits
<1>4. call.to \in Dir
  BY <1>3 DEF Call
<1>5. job[j].node \notin File /\ job[j].node # None
  BY <1>1, <1>3, Apart DEF Overlay, Fits
<1>6. job' \in [Job -> CallRecord] /\ \A k \in Job : Fits(job[k])'
  <2>1. CASE Ends(j)
    BY <1>2, <2>1, CallEnds
  <2>2. CASE To(j, "name")
    <3>1. PICK r : r = [job[j] EXCEPT !.pc = "name"]
      OBVIOUS
    <3>2. /\ r \in CallRecord /\ r.gen = job[j].gen /\ r.node = job[j].node
          /\ r.call = job[j].call /\ r.victim = job[j].victim /\ r.pc = "name"
      BY <1>3, <3>1 DEF CallRecord, PC
    <3>3. job' = [job EXCEPT ![j] = r]
      BY <2>2, <3>1 DEF To
    <3>4. r.victim # None => Keeps(job[j], r.victim)
      BY <1>3, <3>2 DEF Fits
    <3> QED BY <1>2, <1>3, <1>5, <3>2, <3>3, <3>4, CallTurns
  <2> QED BY <1>1, <2>1, <2>2
<1>7. /\ h \in Handle /\ phone[h] # None /\ phone[h] \in Object /\ IsFolder(call.to)
      /\ phone[h].folder => call.to \in Storage
  BY <1>1 DEF Movable, Exists, StateInv, StateOK
<1> HIDE DEF h, call
<1>8. PICK o : o = [phone[h] EXCEPT !.parent = call.to]
  OBVIOUS
<1>9. o \in Object /\ o # None /\ o.parent = call.to /\ o.folder = phone[h].folder
      /\ o.doc = phone[h].doc
  BY <1>4, <1>7, <1>8, Apart DEF Object
<1>10. /\ phone' \in Objects /\ phone'[h] = o
       /\ \A x \in Handle : /\ x # h => phone'[x] = phone[x]
                            /\ phone'[x] = None <=> phone[x] = None
                            /\ phone[x] # None => phone'[x].folder = phone[x].folder
                                                  /\ phone'[x].doc = phone[x].doc
  BY <1>1, <1>7, <1>8, <1>9 DEF StateInv, StateOK, Objects
<1>11. StateOK'
  BY <1>1, <1>6, <1>10 DEF StateInv, StateOK, Objects, area, bounds
<1>12. Past'
  BY <1>1, <1>10 DEF StateInv, Past, area, bounds
<1>13. Forest(phone)'
  <2> SUFFICES ASSUME NEW x \in Handle, phone'[x] # None, phone'[x].parent \notin Storage
               PROVE  /\ phone'[phone'[x].parent] # None /\ phone'[phone'[x].parent].folder
                      /\ ~phone'[x].folder
    BY DEF Forest
  <2>1. CASE x = h
    <3>1. call.to \in Handle /\ phone[call.to] # None /\ phone[call.to].folder
      BY <1>7, <1>9, <1>10, <2>1 DEF IsFolder, Exists
    <3> QED BY <1>7, <1>9, <1>10, <2>1, <3>1
  <2>2. CASE x # h
    <3>1. phone[x] # None /\ phone'[x] = phone[x]
      BY <1>10, <2>2
    <3>2. phone[x].parent \in Handle
      BY <3>1 DEF StateInv, StateOK, Object, Dir
    <3> QED BY <1>10, <3>1, <3>2 DEF StateInv, Forest
  <2> QED BY <2>1, <2>2
<1> QED BY <1>2, <1>6, <1>11, <1>12, <1>13 DEF StateInv

LEMMA RenamesKeepsTypes ==
  ASSUME StateInv, NEW j \in Job, Renames(j)
  PROVE  StateInv' /\ Lasts
<1> DEFINE call == job[j].call
           h == job[j].node.object
<1>1. /\ UNCHANGED <<gen, area, reader, bounds>> /\ Exists(h)
      /\ phone' = [phone EXCEPT ![h].name = call.toName]
      /\ Ends(j) /\ job[j].pc \in {"rename", "name"}
  BY DEF Renames
<1>2. Lasts
  BY <1>1 DEF Lasts, area
<1>3. call \in Call(Dir) /\ call.op = "rename"
  BY <1>1 DEF StateInv, Fits
<1>4. call.toName \in Name
  BY <1>3 DEF Call
<1>5. job' \in [Job -> CallRecord] /\ \A k \in Job : Fits(job[k])'
  BY <1>1, <1>2, CallEnds
<1>6. h \in Handle /\ phone[h] # None /\ phone[h] \in Object
  BY <1>1 DEF Exists, StateInv, StateOK
<1> HIDE DEF h, call
<1>7. PICK o : o = [phone[h] EXCEPT !.name = call.toName]
  OBVIOUS
<1>8. o \in Object /\ o # None /\ o.parent = phone[h].parent /\ o.folder = phone[h].folder
      /\ o.doc = phone[h].doc
  BY <1>4, <1>6, <1>7, Apart DEF Object
<1>9. /\ phone' \in Objects
      /\ \A x \in Handle : /\ phone'[x] = None <=> phone[x] = None
                           /\ phone[x] # None => /\ phone'[x].folder = phone[x].folder
                                                 /\ phone'[x].doc = phone[x].doc
                                                 /\ phone'[x].parent = phone[x].parent
  BY <1>1, <1>6, <1>7, <1>8 DEF StateInv, StateOK, Objects
<1>10. StateOK'
  BY <1>1, <1>5, <1>9 DEF StateInv, StateOK, Objects, area, bounds
<1>11. Past'
  BY <1>1, <1>9 DEF StateInv, Past, area, bounds
<1>12. Forest(phone)'
  <2>1. \A x \in Handle : phone[x] # None => phone[x].parent \in Storage \cup Handle
    BY DEF StateInv, StateOK, Object, Dir
  <2> QED BY <1>9, <2>1 DEF StateInv, Forest
<1> QED BY <1>2, <1>5, <1>10, <1>11, <1>12 DEF StateInv

LEMMA RenameFailsKeepsTypes ==
  ASSUME StateInv, NEW j \in Job, RenameFails(j)
  PROVE  StateInv' /\ Lasts
<1>1. UNCHANGED <<gen, phone, area, reader, used, calls>> /\ Lasts /\ Ends(j)
  BY NothingAges DEF RenameFails
<1>2. UNCHANGED failures \/ Breaks("rename")
  BY DEF RenameFails
<1>3. failures' \in 0 .. MaxFailures
  BY <1>2, Spent
<1>4. job' \in [Job -> CallRecord] /\ \A k \in Job : Fits(job[k])'
  BY <1>1, CallEnds
<1> QED BY <1>1, <1>3, <1>4, QuietStep DEF StateInv, StateOK

\* What has names and can be listed.
EntryType == [name : Name, object : Handle \cup {None}]
Listable(E) == IsFiniteSet(E) /\ E \subseteq EntryType

LEMMA ListableHas ==
  ASSUME NEW E, Listable(E)
  PROVE  /\ Cardinality(E) \in Nat
         /\ \A e \in E : e.name \in Name /\ e.name \in Nat \ {0}
<1>1. \A e \in E : e.name \in Name
  BY DEF Listable, EntryType
<1> QED BY <1>1, FS_CardinalityType, SetAssumption DEF Listable

LEMMA WithNamesIs ==
  ASSUME NEW E, Listable(E), NEW names, names \subseteq Name, IsFiniteSet(names)
  PROVE  Listable(WithNames(E, names))
<1> DEFINE A == {e \in E : e.name \notin names}
           B == {[name |-> n, object |-> None] : n \in names}
           b == [n \in names |-> [name |-> n, object |-> None]]
<1>1. WithNames(E, names) = A \cup B
  BY DEF WithNames
<1>2. IsFiniteSet(A)
  BY FS_Subset DEF Listable
<1>3. b \in Surjection(names, B)
  BY DEF Surjection
<1>4. A \subseteq EntryType /\ B \subseteq EntryType
  BY DEF Listable, EntryType
<1> HIDE DEF A, B, b
<1>5. IsFiniteSet(B)
  BY <1>3, FS_Surjection
<1>6. IsFiniteSet(A \cup B)
  BY <1>2, <1>5, FS_Union
<1> QED BY <1>1, <1>4, <1>6 DEF Listable

LEMMA NamesOfIs ==
  ASSUME StateInv, NEW new, new \subseteq files
  PROVE  NamesOf(new) \subseteq Name /\ IsFiniteSet(NamesOf(new))
<1>1. IsFiniteSet(new)
  BY FiniteAssumption, FS_Subset DEF StateInv, StateOK
<1>2. \A i \in new : staged[i].name \in Name
  BY DEF StateInv, StateOK, Staged
<1> DEFINE f == [i \in new |-> staged[i].name]
<1>3. f \in Surjection(new, NamesOf(new))
  BY DEF Surjection, NamesOf
<1> HIDE DEF f
<1>4. IsFiniteSet(NamesOf(new))
  BY <1>1, <1>3, FS_Surjection
<1> QED BY <1>2, <1>4 DEF NamesOf

LEMMA ObjectsInIs ==
  ASSUME StateInv, NEW d
  PROVE  Listable(ObjectsIn(d))
<1>1. Children(d) \subseteq Handle /\ IsFiniteSet(Children(d))
  BY FiniteAssumption, FS_Subset DEF Children
<1>2. ObjectsIn(d) \subseteq EntryType
  BY DEF ObjectsIn, Children, EntryType, StateInv, StateOK, Object
<1> DEFINE f == [h \in Children(d) |-> [name |-> phone[h].name, object |-> h]]
<1>3. f \in Surjection(Children(d), ObjectsIn(d))
  BY DEF Surjection, ObjectsIn
<1> HIDE DEF f
<1>4. IsFiniteSet(ObjectsIn(d))
  BY <1>1, <1>3, FS_Surjection
<1> QED BY <1>2, <1>4 DEF Listable

\* A directory's entries are few and have names.
LEMMA EntriesType ==
  ASSUME StateInv, NEW g, NEW d
  PROVE  Listable(Entries(g, d))
<1>1. NewIn(g, d) \subseteq files
  BY DEF NewIn, StagedIn
<1> QED BY <1>1, NamesOfIs, ObjectsInIs, WithNamesIs DEF Entries

\* A listing: "." and "..", then every entry once, by name.
LEMMA ListingIs ==
  ASSUME NEW E, Listable(E)
  PROVE  LET s == ByName(E)
             all == Listing(E)
         IN  /\ Lists(s, E)
             /\ Len(all) = Cardinality(E) + 2 /\ Len(all) \in Nat
             /\ \A k \in 1 .. Len(all) :
                  /\ k <= 2 => all[k].name = 0
                  /\ k > 2 => /\ k - 2 \in 1 .. Cardinality(E) /\ all[k] = s[k - 2]
                              /\ all[k] \in E /\ all[k].name \in Name
                              /\ all[k].name \in Nat \ {0}
<1> DEFINE s == ByName(E)
           all == Listing(E)
           dot == [name |-> 0, object |-> None]
<1>1. /\ IsFiniteSet(E) /\ Cardinality(E) \in Nat
      /\ \A e \in E : e.name \in Name /\ e.name \in Nat \ {0}
  BY ListableHas DEF Listable
<1>2. Lists(s, E)
  BY <1>1, ByNameLists
<1>3. all = Dots \o s
  BY DEF Listing
<1> HIDE DEF s, all
<1>4. s \in Seq(E) /\ Len(s) = Cardinality(E) /\ \A k \in 1 .. Cardinality(E) : s[k] \in E
  BY <1>2 DEF Lists
<1>5. /\ Len(Dots) = 2 /\ \A k \in 1 .. 2 : Dots[k] = dot
      /\ Dots \in Seq({dot})
  BY DEF Dots
<1>6. /\ Len(all) = 2 + Len(s)
      /\ \A k \in 1 .. 2 + Len(s) : all[k] = IF k <= 2 THEN Dots[k] ELSE s[k - 2]
  <2>1. PICK T : T = E \cup {dot}
    OBVIOUS
  <2>2. s \in Seq(T) /\ Dots \in Seq(T)
    <3>1. \A S : S \subseteq T => Seq(S) \subseteq Seq(T)
      OBVIOUS
    <3> QED BY <1>4, <1>5, <2>1, <3>1
  <2>3. /\ Len(Dots \o s) = Len(Dots) + Len(s)
        /\ \A k \in 1 .. Len(Dots) + Len(s) :
             (Dots \o s)[k] = IF k <= Len(Dots) THEN Dots[k] ELSE s[k - Len(Dots)]
    BY <2>2, ConcatProperties
  <2> QED BY <1>3, <1>5, <2>3
<1>7. ASSUME NEW k \in 1 .. Len(all), k <= 2
      PROVE  all[k].name = 0
  BY <1>1, <1>4, <1>5, <1>6, <1>7
<1>8. ASSUME NEW k \in 1 .. Len(all), k > 2
      PROVE  /\ k - 2 \in 1 .. Cardinality(E) /\ all[k] = s[k - 2]
             /\ all[k] \in E /\ all[k].name \in Name
             /\ all[k].name \in Nat \ {0}
  <2>1. k - 2 \in 1 .. Cardinality(E) /\ all[k] = s[k - 2]
    BY <1>1, <1>4, <1>6, <1>8
  <2> QED BY <1>1, <1>4, <2>1
<1>9. Len(all) = Cardinality(E) + 2 /\ Len(all) \in Nat
  BY <1>1, <1>4, <1>6
<1> QED BY <1>2, <1>7, <1>8, <1>9 DEF s, all

\* An answer: the entries after the first start ones, up to the one numbered end.
Shows(r, q, start, end) ==
  LET all == Listing(r.entries)
      got == {all[k].name : k \in {x \in start + 1 .. end : x > 2}}
  IN
  /\ start <= r.cookie /\ (start = r.cookie \/ start = Len(all))
  /\ start <= end /\ end <= start + Page /\ (end = start + Page \/ end = Len(all))
  /\ q \in ReaderRecord /\ q.entries = {}
  /\ q.on = r.on /\ q.dir = r.dir /\ q.gen = r.gen /\ q.pc = "idle"
  /\ q.eof = (end = Len(all))
  /\ start < end => q.cookie = end /\ q.last = all[end].name
  /\ start = end => q.cookie = r.cookie /\ q.last = r.last
  /\ q.seen = r.seen \cup got
  /\ q.twice = (r.twice \/ got \cap r.seen # {})

LEMMA AnswerShows ==
  ASSUME NEW r \in ReaderRecord, IsFiniteSet(r.entries), Answer(r)
  PROVE  \E start, end \in 0 .. Len(Listing(r.entries)) : Shows(r, reader', start, end)
<1> DEFINE all == Listing(r.entries)
           start == IF r.cookie < Len(all) THEN r.cookie ELSE Len(all)
           end == IF start + Page < Len(all) THEN start + Page ELSE Len(all)
           shown == {all[k].name : k \in {x \in start + 1 .. end : all[x].name # 0}}
           got == {all[k].name : k \in {x \in start + 1 .. end : x > 2}}
           q == [r EXCEPT !.cookie = IF start < end THEN CookieOf(end) ELSE @,
                      !.last = IF start < end THEN all[end].name ELSE @,
                      !.eof = (end = Len(all)),
                      !.seen = @ \cup shown,
                      !.twice = @ \/ shown \cap r.seen # {},
                      !.pc = "idle", !.entries = {}]
<1>1. reader' = q
  BY DEF Answer
<1>2. /\ r.gen \in Generation /\ r.cookie \in Nat /\ r.last \in Nat /\ r.seen \subseteq Name
      /\ Page \in Nat \ {0} /\ Listable(r.entries)
  BY SetAssumption DEF ReaderRecord, Listable, EntryType
<1>3. /\ Len(all) \in Nat
      /\ \A k \in 1 .. Len(all) :
           /\ k <= 2 => all[k].name = 0
           /\ k > 2 => all[k].name \in Name /\ all[k].name \in Nat \ {0}
  BY <1>2, ListingIs
<1> HIDE DEF all
<1>4. /\ start \in Nat /\ end \in Nat /\ start <= end /\ end <= Len(all)
      /\ start <= r.cookie /\ (start = r.cookie \/ start = Len(all))
      /\ end <= start + Page /\ (end = start + Page \/ end = Len(all))
  BY <1>2, <1>3
<1> HIDE DEF start, end
<1>5. shown = got /\ got \subseteq Name
  <2>1. \A x \in start + 1 .. end : all[x].name # 0 <=> x > 2
    BY <1>3, <1>4
  <2>2. \A x \in start + 1 .. end : x > 2 => all[x].name \in Name
    BY <1>3, <1>4
  <2> QED BY <2>1, <2>2
<1> HIDE DEF shown, got
<1>6. /\ q.on = r.on /\ q.dir = r.dir /\ q.gen = r.gen /\ q.pc = "idle" /\ q.entries = {}
      /\ q.eof = (end = Len(all))
      /\ start < end => q.cookie = end /\ q.last = all[end].name
      /\ start = end => q.cookie = r.cookie /\ q.last = r.last
      /\ q.seen = r.seen \cup got
      /\ q.twice = (r.twice \/ got \cap r.seen # {})
  BY <1>4, <1>5 DEF ReaderRecord, CookieOf
<1>7. q \in ReaderRecord
  <2>1. start < end => all[end].name \in Nat
    BY <1>3, <1>4
  <2> QED BY <1>2, <1>4, <1>5, <2>1, ZenonT(60) DEF ReaderRecord, CookieOf
<1> HIDE DEF q
<1>8. Shows(r, q, start, end)
  BY <1>4, <1>6, <1>7 DEF Shows, all, got
<1>9. Shows(r, reader', start, end)
  BY <1>1, <1>8
<1>10. start \in 0 .. Len(all) /\ end \in 0 .. Len(all)
  BY <1>3, <1>4
<1>11. \E a, b \in 0 .. Len(all) : Shows(r, reader', a, b)
  BY <1>9, <1>10, Zenon
<1> QED BY <1>11 DEF all

\* Reading a directory changes nothing else.
LEMMA ReadingLeaves ==
  ASSUME ReadsDirectory
  PROVE  /\ UNCHANGED <<gen, phone, area, job, used, failures>>
         /\ calls' = calls \/ (calls > 0 /\ calls' = calls - 1)
  BY DEF ReadsDirectory, FirstPage, NextPage, TakesFiles, AsksFile, ShowsPage, CloseDirectory,
         bounds

LEMMA ReadingKeepsTypes ==
  ASSUME StateInv, ReadsDirectory
  PROVE  StateInv' /\ Lasts
<1>1. UNCHANGED <<gen, phone, area, job, used, failures>> /\ Lasts
  BY ReadingLeaves, NothingAges
<1>2. calls' \in 0 .. MaxCalls
  BY ReadingLeaves, BoundAssumption DEF StateInv, StateOK
<1>3. /\ reader \in ReaderRecord /\ (reader.on => reader.dir \in Dir) /\ IsFiniteSet(reader.entries)
      /\ (reader.pc # "idle" => reader.on) /\ gen \in Generation
  BY DEF StateInv, StateOK
<1>4. 1 \in Generation
  BY BoundAssumption DEF Generation
<1>5. \A d : IsFiniteSet(ObjectsIn(d)) /\ ObjectsIn(d) \subseteq EntryType
  BY ObjectsInIs DEF Listable
<1>6. /\ reader' \in ReaderRecord /\ (reader'.on => reader'.dir \in Dir)
      /\ IsFiniteSet(reader'.entries) /\ (reader'.pc # "idle" => reader'.on)
  <2>1. CASE NextPage
    BY <1>3, <1>5, <2>1 DEF NextPage, ReaderRecord, EntryType
  <2>2. CASE CloseDirectory
    <3>1. reader' = IdleReader
      BY <2>2 DEF CloseDirectory
    <3> QED BY <1>4, <3>1, FS_EmptySet DEF IdleReader, ReaderRecord
  <2>3. ASSUME NEW d \in Folder, FirstPage(d)
        PROVE  /\ reader' \in ReaderRecord /\ (reader'.on => reader'.dir \in Dir)
               /\ IsFiniteSet(reader'.entries) /\ (reader'.pc # "idle" => reader'.on)
    <3>1. d \in Dir
      BY DEF Folder
    <3> QED BY <1>3, <1>5, <2>3, <3>1 DEF FirstPage, IdleReader, ReaderRecord, EntryType
  <2>4. CASE TakesFiles
    <3>1. files \subseteq File
      BY DEF StateInv, StateOK
    <3> QED BY <1>3, <2>4, <3>1 DEF TakesFiles, ReaderRecord
  <2>5. ASSUME NEW i \in File, AsksFile(i)
        PROVE  /\ reader' \in ReaderRecord /\ (reader'.on => reader'.dir \in Dir)
               /\ IsFiniteSet(reader'.entries) /\ (reader'.pc # "idle" => reader'.on)
    <3> DEFINE asked == {i} \cap NewIn(reader.gen, reader.dir)
               entries == WithNames(reader.entries, NamesOf(asked))
    <3>1. asked \subseteq files
      BY DEF NewIn, StagedIn
    <3>2. Listable(reader.entries)
      BY <1>3 DEF ReaderRecord, EntryType, Listable
    <3>3. Listable(entries)
      BY <3>1, <3>2, NamesOfIs, WithNamesIs
    <3>4. reader' = [reader EXCEPT !.ids = @ \ {i}, !.entries = entries]
      BY <2>5 DEF AsksFile
    <3> HIDE DEF entries
    <3> QED BY <1>3, <3>3, <3>4 DEF Listable, ReaderRecord, EntryType
  <2>6. CASE ShowsPage
    <3>1. PICK r : r = reader
      OBVIOUS
    <3>2. r \in ReaderRecord /\ IsFiniteSet(r.entries) /\ Answer(r)
      BY <1>3, <2>6, <3>1 DEF ShowsPage
    <3>3. PICK start, end \in 0 .. Len(Listing(r.entries)) : Shows(r, reader', start, end)
      BY <3>2, AnswerShows
    <3>4. r.dir \in Dir
      BY <1>3, <2>6, <3>1 DEF ShowsPage
    <3> QED BY <3>3, <3>4, FS_EmptySet DEF Shows
  <2> QED BY <2>1, <2>2, <2>3, <2>4, <2>5, <2>6 DEF ReadsDirectory
<1>7. \A k \in Job : Fits(job[k])'
  BY <1>1 DEF StateInv, Fits, Keeps, area
<1> QED BY <1>1, <1>2, <1>6, <1>7 DEF StateInv, StateOK, Past, Forest, area

\* The objects when a commit has put its new one there, before the old one goes.
WithNew(i) ==
  [phone EXCEPT ![NewHandle] =
     [parent |-> IF staged[i].parent = Top THEN staged[i].storage ELSE staged[i].parent,
      name |-> staged[i].name, folder |-> FALSE, doc |-> staged[i].doc]]

LEMMA WithNewIs ==
  ASSUME StateInv, NEW i \in File, Commit(i)
  PROVE  /\ WithNew(i) \in Objects /\ Forest(WithNew(i))
         /\ NewHandle \in Handle /\ ~Known(NewHandle) /\ phone[NewHandle] = None
         /\ \A x \in Handle : x # NewHandle => WithNew(i)[x] = phone[x]
         /\ WithNew(i)[NewHandle] # None /\ ~WithNew(i)[NewHandle].folder
         /\ WithNew(i)[NewHandle].doc = staged[i].doc
         /\ staged[i] \in Staged /\ staged[i] # None /\ staged[i].remote \in Handle \cup {None}
         /\ phone' = Without(WithNew(i), staged[i].remote)
<1>1. staged[i] \in Staged /\ staged[i] # None /\ staged[i].remote \in Handle \cup {None}
  BY Apart DEF Commit, StateInv, StateOK, Staged
<1>2. NewHandle \in Handle /\ ~Known(NewHandle) /\ phone[NewHandle] = None
  BY NewHandleType DEF Commit, Known
<1> DEFINE p == IF staged[i].parent = Top THEN staged[i].storage ELSE staged[i].parent
<1>3. p \in Dir /\ (p \notin Storage => p \in Handle /\ phone[p] # None /\ phone[p].folder)
  <2>1. CASE staged[i].parent = Top
    BY <1>1, <2>1 DEF Staged, Dir
  <2>2. CASE staged[i].parent # Top
    BY <1>1, <2>2 DEF Staged, Dir, Commit, IsFolder, Exists
  <2> QED BY <2>1, <2>2
<1>4. PICK o : o = [parent |-> p, name |-> staged[i].name, folder |-> FALSE, doc |-> staged[i].doc]
  OBVIOUS
<1>5. o \in Object /\ o # None /\ o.parent = p /\ ~o.folder /\ o.doc = staged[i].doc
  BY <1>1, <1>3, <1>4, Apart DEF Object, Staged
<1>6. WithNew(i) = [phone EXCEPT ![NewHandle] = o]
  BY <1>4 DEF WithNew
<1>7. /\ WithNew(i) \in Objects /\ WithNew(i)[NewHandle] = o
      /\ \A x \in Handle : x # NewHandle => WithNew(i)[x] = phone[x]
  BY <1>2, <1>5, <1>6 DEF StateInv, StateOK, Objects
<1> HIDE DEF p
<1>8. Forest(WithNew(i))
  <2> DEFINE w == WithNew(i)
  <2> SUFFICES ASSUME NEW x \in Handle, w[x] # None, w[x].parent \notin Storage
               PROVE  w[w[x].parent] # None /\ w[w[x].parent].folder /\ ~w[x].folder
    BY DEF Forest
  <2> HIDE DEF w
  <2>1. /\ w[NewHandle] = o /\ \A y \in Handle : y # NewHandle => w[y] = phone[y]
    BY <1>7 DEF w
  <2>2. CASE x = NewHandle
    <3>1. p # NewHandle /\ w[p] = phone[p]
      BY <1>2, <1>3, <1>5, <2>1, <2>2
    <3> QED BY <1>3, <1>5, <2>1, <2>2, <3>1
  <2>3. CASE x # NewHandle
    <3>1. w[x] = phone[x] /\ phone[x].parent \in Handle
      BY <2>1, <2>3 DEF StateInv, StateOK, Object, Dir
    <3>2. phone[phone[x].parent] # None /\ phone[phone[x].parent].folder /\ ~phone[x].folder
      BY <2>1, <2>3, <3>1 DEF StateInv, Forest
    <3> QED BY <1>2, <2>1, <3>1, <3>2
  <2> QED BY <2>2, <2>3
<1>9. phone' = Without(WithNew(i), staged[i].remote)
  BY DEF Commit, WithNew
<1> QED BY <1>1, <1>2, <1>5, <1>7, <1>8, <1>9

LEMMA CommitKeepsTypes ==
  ASSUME StateInv, NEW i \in File, Commit(i)
  PROVE  StateInv' /\ Lasts
<1>1. /\ WithNew(i) \in Objects /\ Forest(WithNew(i))
      /\ NewHandle \in Handle
      /\ \A x \in Handle : x # NewHandle => WithNew(i)[x] = phone[x]
      /\ WithNew(i)[NewHandle].doc = staged[i].doc
      /\ staged[i] \in Staged /\ staged[i] # None /\ staged[i].remote \in Handle \cup {None}
      /\ phone' = Without(WithNew(i), staged[i].remote)
  BY WithNewIs
<1>2. /\ staged' = [staged EXCEPT ![i].remote = NewHandle, ![i].dirty = FALSE]
      /\ origins' = [origins EXCEPT ![staged[i].gen][NewHandle] = i]
      /\ UNCHANGED <<gen, files, job, reader, bounds>>
  BY DEF Commit
<1>3. phone' \in Objects /\ Forest(phone')
  BY <1>1, WithoutIs, WithoutForest
<1>4. \A x \in Handle : phone'[x] # None => phone'[x] = WithNew(i)[x]
  BY <1>1, WithoutIs
<1>5. PICK f : f = [staged[i] EXCEPT !.remote = NewHandle, !.dirty = FALSE]
  OBVIOUS
<1>6. staged' = [staged EXCEPT ![i] = f]
  BY <1>2, <1>5
<1>7. f \in Staged /\ f # None /\ f.gen = staged[i].gen /\ f.doc = staged[i].doc
  BY <1>1, <1>5, Apart DEF Staged
<1>8. /\ staged' \in [File -> Staged \cup {None}]
      /\ \A x \in File : /\ staged[x] = None <=> staged'[x] = None
                         /\ staged[x] # None => staged'[x].gen = staged[x].gen
                                                /\ staged'[x].doc = staged[x].doc
  BY <1>1, <1>6, <1>7 DEF StateInv, StateOK
<1>9. Lasts
  BY <1>2, <1>8 DEF Lasts
<1>10. \A k \in Job : Fits(job[k])'
  <2> SUFFICES ASSUME NEW k \in Job PROVE Fits(job[k])'
    OBVIOUS
  <2>1. PICK q : q = job[k]
    OBVIOUS
  <2>2. Fits(q)'
    BY <1>9, <2>1, FitsOn DEF StateInv, StateOK
  <2> QED BY <1>2, <2>1, <2>2
<1>11. staged[i].gen \in Generation
  BY <1>1 DEF Staged
<1>12. /\ origins' \in [Generation -> [Handle -> File \cup {None}]]
       /\ \A g \in Generation, h \in Handle : origins'[g][h] =
            IF g = staged[i].gen /\ h = NewHandle THEN i ELSE origins[g][h]
  BY <1>1, <1>2, <1>11 DEF StateInv, StateOK
<1>13. StateOK'
  BY <1>2, <1>3, <1>8, <1>12 DEF StateInv, StateOK, Objects, bounds
<1>14. Past'
  <2>1. \A x \in File : staged'[x] # None => staged'[x].gen <= gen' /\ staged'[x].doc \in used'
    BY <1>2, <1>8 DEF StateInv, Past, bounds
  <2>2. ASSUME NEW g \in Generation, NEW h \in Handle, origins'[g][h] # None
        PROVE  g <= gen' /\ staged'[origins'[g][h]] # None /\ staged'[origins'[g][h]].gen = g
    <3>1. CASE g = staged[i].gen /\ h = NewHandle
      <4>1. staged[i].gen <= gen
        BY <1>1 DEF StateInv, Past
      <4> QED BY <1>1, <1>2, <1>8, <1>12, <3>1, <4>1
    <3>2. CASE ~(g = staged[i].gen /\ h = NewHandle)
      <4>1. origins'[g][h] = origins[g][h] /\ origins[g][h] \in File
        BY <1>12, <2>2, <3>2 DEF StateInv, StateOK
      <4>2. g <= gen /\ staged[origins[g][h]] # None /\ staged[origins[g][h]].gen = g
        BY <2>2, <4>1 DEF StateInv, Past
      <4> QED BY <1>2, <1>8, <4>1, <4>2
    <3> QED BY <3>1, <3>2
  <2>3. \A h \in Handle : phone'[h] # None => phone'[h].doc \in used'
    <3> SUFFICES ASSUME NEW h \in Handle, phone'[h] # None PROVE phone'[h].doc \in used
      BY <1>2 DEF bounds
    <3>1. CASE h = NewHandle
      BY <1>1, <1>4, <3>1 DEF StateInv, Past
    <3>2. CASE h # NewHandle
      BY <1>1, <1>4, <3>2 DEF StateInv, Past
    <3> QED BY <3>1, <3>2
  <2> QED BY <2>1, <2>2, <2>3 DEF Past
<1> QED BY <1>3, <1>9, <1>10, <1>13, <1>14 DEF StateInv, Forest

LEMMA ReplugKeepsTypes ==
  ASSUME StateInv, NEW old \in Renumbering, Replug(old)
  PROVE  StateInv' /\ Lasts
<1>1. /\ UNCHANGED <<area, job, reader, bounds>> /\ gen <= MaxReplugs /\ gen' = gen + 1
      /\ phone' = [h \in Handle |->
           IF phone[old[h]] = None THEN None
           ELSE [phone[old[h]] EXCEPT !.parent = NewDir(old, @)]]
  BY DEF Replug
<1>2. /\ old \in [Handle -> Handle]
      /\ \A g, h \in Handle : old[g] = old[h] => g = h
      /\ \A g \in Handle : \E h \in Handle : old[h] = g
  BY RenumberingAssumption
<1>3. Lasts
  BY <1>1 DEF Lasts, area
<1>4. \A g \in Handle : NewDir(old, g) \in Handle /\ old[NewDir(old, g)] = g
  BY <1>2, Apart DEF NewDir
<1>5. ASSUME NEW h \in Handle, phone[old[h]] # None
      PROVE  /\ phone'[h] \in Object /\ phone'[h] # None
             /\ phone'[h].folder = phone[old[h]].folder /\ phone'[h].doc = phone[old[h]].doc
             /\ phone'[h].parent = NewDir(old, phone[old[h]].parent)
  <2>1. PICK o : o = phone[old[h]]
    OBVIOUS
  <2>2. o \in Object
    BY <1>2, <1>5, <2>1 DEF StateInv, StateOK
  <2>3. NewDir(old, o.parent) \in Dir
    BY <1>4, <2>2 DEF Object, Dir, NewDir
  <2>4. phone'[h] = [o EXCEPT !.parent = NewDir(old, o.parent)]
    BY <1>1, <1>5, <2>1
  <2>5. phone'[h] \in Object
    BY <2>2, <2>3, <2>4 DEF Object
  <2> QED BY <2>1, <2>2, <2>4, <2>5, Apart DEF Object
<1>6. /\ phone' \in [Handle -> Object \cup {None}]
      /\ \A h \in Handle : phone'[h] = None <=> phone[old[h]] = None
  BY <1>1, <1>5
<1>7. gen' \in Generation /\ gen \in Nat
  BY <1>1, BoundAssumption DEF StateInv, StateOK, Generation
<1>8. \A k \in Job : Fits(job[k])'
  <2> SUFFICES ASSUME NEW k \in Job PROVE Fits(job[k])'
    OBVIOUS
  <2>1. PICK q : q = job[k]
    OBVIOUS
  <2>2. Fits(q)'
    BY <1>3, <2>1, FitsOn DEF StateInv, StateOK
  <2> QED BY <1>1, <2>1, <2>2
<1>9. StateOK'
  BY <1>1, <1>6, <1>7 DEF StateInv, StateOK, area, bounds
<1>10. Past'
  <2>1. \A i \in File : staged'[i] # None => staged'[i].gen <= gen' /\ staged'[i].doc \in used'
    <3>1. \A i \in File : staged[i] # None => staged[i].gen \in Nat
      BY Apart DEF StateInv, StateOK, Staged, Generation
    <3> QED BY <1>1, <1>7, <3>1 DEF StateInv, Past, area, bounds
  <2>2. \A g \in Generation, h \in Handle : origins'[g][h] # None =>
          g <= gen' /\ staged'[origins'[g][h]] # None /\ staged'[origins'[g][h]].gen = g
    <3>1. \A g \in Generation : g \in Nat
      BY DEF Generation
    <3> QED BY <1>1, <1>7, <3>1 DEF StateInv, Past, area
  <2>3. \A h \in Handle : phone'[h] # None => phone'[h].doc \in used'
    BY <1>1, <1>2, <1>5, <1>6 DEF StateInv, Past, bounds
  <2> QED BY <2>1, <2>2, <2>3 DEF Past
<1>11. Forest(phone)'
  <2> SUFFICES ASSUME NEW x \in Handle, phone'[x] # None, phone'[x].parent \notin Storage
               PROVE  /\ phone'[phone'[x].parent] # None /\ phone'[phone'[x].parent].folder
                      /\ ~phone'[x].folder
    BY DEF Forest
  <2>1. /\ old[x] \in Handle /\ phone[old[x]] # None /\ phone[old[x]] \in Object
        /\ phone'[x].parent = NewDir(old, phone[old[x]].parent)
        /\ phone'[x].folder = phone[old[x]].folder
    BY <1>2, <1>5, <1>6 DEF StateInv, StateOK
  <2>2. phone[old[x]].parent \in Handle
    BY <2>1 DEF Object, Dir, NewDir
  <2>3. /\ phone[phone[old[x]].parent] # None /\ phone[phone[old[x]].parent].folder
        /\ ~phone[old[x]].folder
    BY <2>1, <2>2, Apart DEF StateInv, Forest
  <2>4. PICK p \in Handle : p = phone'[x].parent /\ old[p] = phone[old[x]].parent
    BY <1>4, <2>1, <2>2
  <2>5. phone'[p] # None /\ phone'[p].folder = phone[old[p]].folder
    BY <1>5, <2>3, <2>4
  <2> QED BY <2>1, <2>3, <2>4, <2>5
<1> QED BY <1>3, <1>8, <1>9, <1>10, <1>11 DEF StateInv

\* Each step.
LEMMA StepKeepsTypes ==
  ASSUME StateInv, Step
  PROVE  StateInv' /\ Lasts
<1>1. ASSUME NEW j \in Job, Continues(j) PROVE StateInv' /\ Lasts
  BY <1>1, CreatesKeepsTypes, MakesFolderKeepsTypes, RemovesKeepsTypes, WriteKeepsTypes,
     ReadKeepsTypes, ReadEndsKeepsTypes, TargetKeepsTypes, ClearKeepsTypes,
     RenamesStagedKeepsTypes, MovesKeepsTypes, RenamesKeepsTypes, RenameFailsKeepsTypes
     DEF Continues
<1>2. ASSUME NEW j \in Job, NEW call \in Call(Folder), Found(j, call) \/ NotFound(j, call)
      PROVE  StateInv' /\ Lasts
  BY <1>2, FoundKeepsTypes, NotFoundKeepsTypes
<1>3. ASSUME ReadsDirectory PROVE StateInv' /\ Lasts
  BY <1>3, ReadingKeepsTypes
<1>4. ASSUME NEW i \in File, Commit(i) PROVE StateInv' /\ Lasts
  BY <1>4, CommitKeepsTypes
<1>5. ASSUME NEW old \in Renumbering, Replug(old) PROVE StateInv' /\ Lasts
  BY <1>5, ReplugKeepsTypes
<1> QED BY <1>1, <1>2, <1>3, <1>4, <1>5 DEF Step

LEMMA InitTypes == Init => StateInv
<1> SUFFICES ASSUME Init PROVE StateInv
  OBVIOUS
<1> DEFINE s == CHOOSE x \in Storage : TRUE
           h == CHOOSE f \in [1 .. 3 -> Handle] : \A a, b \in 1 .. 3 : f[a] = f[b] => a = b
           d == CHOOSE f \in [1 .. 3 -> Doc] : \A a, b \in 1 .. 3 : f[a] = f[b] => a = b
           i == CHOOSE x \in File : TRUE
<1>1. s \in Storage /\ i \in File
  BY SetAssumption, InitAssumption
<1>2. h \in [1 .. 3 -> Handle] /\ \A a, b \in 1 .. 3 : h[a] = h[b] => a = b
  BY InitAssumption
<1>3. d \in [1 .. 3 -> Doc]
  BY InitAssumption, SMTT(30)
<1>4. PICK p \in {s, h[1]} :
        phone = [x \in Handle |->
         IF x = h[1] THEN [parent |-> s, name |-> 1, folder |-> TRUE, doc |-> d[1]]
         ELSE IF x = h[2] THEN [parent |-> p, name |-> 2, folder |-> FALSE, doc |-> d[2]]
         ELSE IF x = h[3] THEN [parent |-> s, name |-> 3, folder |-> FALSE, doc |-> d[3]]
         ELSE None]
  BY DEF Init
<1>5. /\ gen = 1
      /\ staged = [x \in File |->
           IF x = i THEN [gen |-> 1, storage |-> s, parent |-> Top, name |-> 3,
                          remote |-> h[3], dirty |-> FALSE, doc |-> d[3]]
           ELSE None]
      /\ files = {i}
      /\ origins = [g \in Generation |->
           [x \in Handle |-> IF g = 1 /\ x = h[3] THEN i ELSE None]]
      /\ used = {d[1], d[2], d[3]}
  BY DEF Init
<1>6. /\ job = [j \in Job |-> IdleJob] /\ reader = IdleReader
      /\ calls = MaxCalls /\ failures = MaxFailures
  BY DEF Init
<1> HIDE DEF s, h, d, i
<1>7. 1 \in Generation /\ 1 \in Name /\ 2 \in Name /\ 3 \in Name
  BY BoundAssumption, SetAssumption DEF Generation
<1>8. phone \in [Handle -> Object \cup {None}]
  BY <1>1, <1>2, <1>3, <1>4, <1>7 DEF Object, Dir
<1>9. staged \in [File -> Staged \cup {None}] /\ files \subseteq {x \in File : staged[x] # None}
  <2>1. [gen |-> 1, storage |-> s, parent |-> Top, name |-> 3,
         remote |-> h[3], dirty |-> FALSE, doc |-> d[3]] \in Staged
    BY <1>1, <1>2, <1>3, <1>7 DEF Staged
  <2> QED BY <1>1, <1>5, <2>1, Apart
<1>10. origins \in [Generation -> [Handle -> File \cup {None}]] /\ used \subseteq Doc
  BY <1>1, <1>3, <1>5
<1>11. /\ job \in [Job -> CallRecord] /\ reader \in ReaderRecord /\ ~reader.on
       /\ reader.pc = "idle" /\ IsFiniteSet(reader.entries)
  BY <1>6, <1>7, FS_EmptySet DEF IdleJob, IdleReader, CallRecord, ReaderRecord, PC
<1>12. StateOK
  <2>1. gen \in Generation /\ calls \in 0 .. MaxCalls /\ failures \in 0 .. MaxFailures
    BY <1>5, <1>6, <1>7, BoundAssumption
  <2> QED BY <1>8, <1>9, <1>10, <1>11, <2>1 DEF StateOK
<1>13. \A j \in Job : Fits(job[j])
  BY <1>5, <1>6 DEF Fits, IdleJob
<1>14. Forest(phone)
  <2>1. h[1] \in Handle /\ h[2] \in Handle /\ h[3] \in Handle /\ h[1] # h[2] /\ h[1] # h[3]
        /\ h[2] # h[3]
    BY <1>2
  <2>2. phone[h[1]] = [parent |-> s, name |-> 1, folder |-> TRUE, doc |-> d[1]]
    BY <1>4, <2>1
  <2>3. ASSUME NEW x \in Handle, phone[x] # None, phone[x].parent \notin Storage
        PROVE  phone[x].parent = h[1] /\ ~phone[x].folder
    BY <1>1, <1>4, <2>3
  <2>4. phone[h[1]] # None /\ phone[h[1]].folder
    <3>1. phone[h[1]] \in Object
      BY <1>1, <1>3, <1>7, <2>2 DEF Object, Dir
    <3>2. phone[h[1]] # None
      BY <3>1, Apart
    <3>3. phone[h[1]].folder
      BY <2>2
    <3> QED BY <3>2, <3>3
  <2> QED BY <2>3, <2>4 DEF Forest
<1>15. Past
  <2>1. \A x \in File : staged[x] # None => staged[x].gen <= gen /\ staged[x].doc \in used
    BY <1>5
  <2>2. \A g \in Generation, x \in Handle : origins[g][x] # None =>
          g = 1 /\ origins[g][x] = i
    BY <1>5
  <2>3. staged[i] # None /\ staged[i].gen = 1
    BY <1>1, <1>5, <1>9
  <2>4. \A x \in Handle : phone[x] # None => phone[x].doc \in used
    BY <1>4, <1>5
  <2> QED BY <1>5, <2>1, <2>2, <2>3, <2>4 DEF Past
<1> QED BY <1>12, <1>13, <1>14, <1>15 DEF StateInv

-----------------------------------------------------------------------------
(* The history variables, and the theorem.                                 *)

HistoryOK ==
  /\ watch \in [steady : SUBSET Name, shrunk : BOOLEAN, grown : BOOLEAN, namesakes : BOOLEAN]
  /\ alone \in [Job -> BOOLEAN]

\* Said of a state, so that it can be said of the next one.
EntriesKnown ==
  \A g \in Generation, d \in Dir : StateInv => Listable(Entries(g, d))

LEMMA KnowsEntries == EntriesKnown
  BY EntriesType DEF EntriesKnown

LEMMA ObserveKeepsTypes ==
  ASSUME StateInv, StateInv', HistoryOK, Observe
  PROVE  HistoryOK'
<1>1. EntriesKnown'
  BY KnowsEntries, PTL
<1>2. PICK r \in {reader}, q \in {reader'} :
        watch' = IF ~q.on THEN IdleWatch
                 ELSE IF ~r.on THEN [IdleWatch EXCEPT !.steady = NamesIn(q)', !.namesakes = Namesakes(q)']
                 ELSE [steady |-> watch.steady \cap NamesIn(r)',
                       shrunk |-> \/ watch.shrunk
                                  \/ IF r.pc = "idle" THEN Before(r)' < Before(r) ELSE Loses(r),
                       grown  |-> \/ watch.grown
                                  \/ IF r.pc = "idle" THEN Before(r)' > Before(r)
                                     ELSE Content(r)' # Content(r),
                       namesakes |-> watch.namesakes \/ Namesakes(r)']
  BY DEF Observe
<1>3. q.on => q.gen \in Generation /\ q.dir \in Dir
  BY <1>2 DEF StateInv, StateOK, ReaderRecord
<1>4. q.on => NamesIn(q)' \subseteq Name
  BY <1>1, <1>3 DEF EntriesKnown, NamesIn, Listable, EntryType
<1>5. watch' \in [steady : SUBSET Name, shrunk : BOOLEAN, grown : BOOLEAN, namesakes : BOOLEAN]
  <2>1. CASE ~q.on
    BY <1>2, <2>1 DEF IdleWatch
  <2>2. CASE q.on /\ ~r.on
    <3>1. Namesakes(q)' \in BOOLEAN
      BY DEF Namesakes
    <3>2. PICK names \in SUBSET Name : names = NamesIn(q)'
      BY <1>4, <2>2
    <3>3. watch' = [IdleWatch EXCEPT !.steady = names, !.namesakes = Namesakes(q)']
      BY <1>2, <2>2, <3>2
    <3> QED BY <3>1, <3>3 DEF IdleWatch
  <2>3. CASE q.on /\ r.on
    BY <1>2, <2>3 DEF HistoryOK
  <2> QED BY <2>1, <2>2, <2>3
<1>6. alone' \in [Job -> BOOLEAN]
  BY DEF Observe
<1> QED BY <1>5, <1>6 DEF HistoryOK

TypeInv == StateInv /\ HistoryOK

LEMMA InitTypeInv == Init => TypeInv
<1>1. Init => HistoryOK
  BY DEF Init, HistoryOK, IdleWatch
<1> QED BY <1>1, InitTypes DEF TypeInv

LEMMA NextKeepsTypeInv == TypeInv /\ [Next]_vars => TypeInv'
<1> SUFFICES ASSUME TypeInv, [Next]_vars PROVE TypeInv'
  OBVIOUS
<1>1. CASE Next
  <2>1. StateInv'
    BY <1>1, StepKeepsTypes DEF Next, TypeInv
  <2> QED BY <1>1, <2>1, ObserveKeepsTypes DEF Next, TypeInv
<1>2. CASE UNCHANGED vars
  BY <1>2 DEF TypeInv, StateInv, StateOK, HistoryOK, Forest, Past, Fits, Keeps, vars, area, bounds
<1> QED BY <1>1, <1>2

LEMMA TypeAlways == Spec => []TypeInv
  BY InitTypeInv, NextKeepsTypeInv, PTL DEF Spec

\* Every variable always has its type, whatever the number of objects, files and calls: a
\* handle that a call has kept is one of the session it was given in, and a folder or a
\* storage is always found above an object (nfs.rs, staging.rs and device.rs keep these as
\* ids that are looked up).
THEOREM TypeCorrect == Spec => []TypeOK
<1>1. TypeInv => TypeOK
  BY DEF TypeInv, StateInv, StateOK, HistoryOK, CallRecord, ReaderRecord, TypeOK
<1> QED BY <1>1, TypeAlways, PTL

-----------------------------------------------------------------------------
(* What has been read of a directory.                                      *)

\* In a listing by name, the entries up to some name are the first ones.
LEMMA Counts ==
  ASSUME NEW E, IsFiniteSet(E), \A e \in E : e.name \in Nat, NEW s, Lists(s, E), NEW m \in Nat
  PROVE  LET c == Cardinality({e \in E : e.name <= m})
         IN  /\ c \in 0 .. Cardinality(E)
             /\ \A k \in 1 .. Cardinality(E) : s[k].name <= m <=> k <= c
<1> DEFINE S == {e \in E : e.name <= m}
           n == Cardinality(E)
           K == {k \in 1 .. n : s[k].name <= m}
           f == [k \in K |-> s[k]]
<1>1. /\ n \in Nat /\ s \in Seq(E) /\ Len(s) = n /\ \A k \in 1 .. n : s[k] \in E
      /\ \A i, k \in 1 .. n : i < k => s[i].name <= s[k].name /\ s[i] # s[k]
      /\ \A e \in E : \E k \in 1 .. n : s[k] = e
  BY FS_CardinalityType DEF Lists
<1>2. IsFiniteSet(K) /\ K \subseteq Nat
  <2>1. IsFiniteSet(1 .. n)
    BY <1>1, FS_Interval
  <2> QED BY <1>1, <2>1, FS_Subset
<1>3. ExistsBijection(K, S)
  <2>1. \A i, k \in K : f[i] = f[k] => i = k
    BY <1>1
  <2>2. \A e \in S : \E k \in K : f[k] = e
    BY <1>1
  <2>3. f \in [K -> S]
    BY <1>1
  <2> HIDE DEF K, S, f
  <2>4. f \in Bijection(K, S)
    BY <2>1, <2>2, <2>3 DEF Bijection, Injection, IsInjective, Surjection
  <2> QED BY <2>4 DEF ExistsBijection
<1>4. \E c \in 0 .. n : K = 1 .. c
  <2>1. CASE K = {}
    <3>1. K = 1 .. 0 /\ 0 \in 0 .. n
      BY <1>1, <2>1
    <3> QED BY <3>1
  <2>2. CASE K # {}
    <3>1. PICK c \in K : \A k \in K : k <= c
      <4> HIDE DEF K
      <4> QED BY <1>2, <2>2, FiniteLargest
    <3>2. c \in 1 .. n /\ s[c].name <= m /\ s[c] \in E
      BY <1>1, <3>1
    <3>3. ASSUME NEW k \in 1 .. c PROVE k \in K
      <4>1. k \in 1 .. n /\ s[k] \in E
        BY <1>1, <3>2
      <4>2. s[k].name <= s[c].name
        <5>1. CASE k = c
          BY <1>1, <3>2, <5>1
        <5>2. CASE k < c
          BY <1>1, <3>2, <4>1, <5>2
        <5> QED BY <3>2, <5>1, <5>2
      <4>3. s[k].name \in Nat /\ s[c].name \in Nat
        BY <3>2, <4>1
      <4> QED BY <3>2, <4>1, <4>2, <4>3
    <3>4. \A k \in K : k \in 1 .. c
      <4>1. \A k \in K : k \in 1 .. n
        OBVIOUS
      <4> HIDE DEF K
      <4> QED BY <1>1, <3>1, <3>2, <4>1
    <3>5. K = 1 .. c
      <4> HIDE DEF K
      <4> QED BY <3>3, <3>4
    <3> QED BY <1>1, <3>2, <3>5
  <2> QED BY <2>1, <2>2
<1>5. PICK c \in 0 .. n : K = 1 .. c
  BY <1>4
<1>6. Cardinality(S) = c
  <2> HIDE DEF K, S, f
  <2>1. 1 \in Int /\ c \in Int /\ c \in Nat
    BY <1>1
  <2>2. Cardinality(1 .. c) = IF 1 > c THEN 0 ELSE c - 1 + 1
    BY <2>1, FS_Interval
  <2>3. Cardinality(1 .. c) = c
    BY <2>1, <2>2
  <2> QED BY <1>2, <1>3, <1>5, <2>3, FS_Bijection
<1>7. \A k \in 1 .. n : s[k].name <= m <=> k <= c
  <2> HIDE DEF n, S, f
  <2>1. ASSUME NEW k \in 1 .. n PROVE s[k].name <= m <=> k \in K
    OBVIOUS
  <2> HIDE DEF K
  <2> QED BY <1>1, <1>5, <2>1
<1> QED BY <1>1, <1>6, <1>7

\* Entries, by name.
EntryNames(E) == {e.name : e \in E}
Upto(E, n) == Cardinality({e \in E : e.name <= n})
Unique(E) == \A e, x \in E : e.name = x.name => e = x

\* What has been read of a directory that has the entries E, while nothing has come or
\* gone before the cookie.
Reading(E, r, w) ==
  /\ r.cookie <= 2 => r.last = 0
  /\ ~w.shrunk => /\ w.steady \subseteq EntryNames(E)
                  /\ r.cookie <= 2 + Upto(E, r.last)
                  /\ \A n \in w.steady : n <= r.last \/ r.eof => n \in r.seen
  /\ ~w.grown /\ ~w.namesakes => /\ Unique(E)
                                 /\ ~r.twice
                                 /\ \A n \in r.seen : n <= r.last
                                 /\ Upto(E, r.last) = 0 \/ Upto(E, r.last) + 2 <= r.cookie

\* The entries of an answer that is being made, once those have been asked that are
\* still to be.
Waiting(r) == IF r.pc = "listed" THEN NewIn(r.gen, r.dir)
              ELSE r.ids \cap NewIn(r.gen, r.dir)
Coming(r) == IF r.pc = "idle" THEN Entries(r.gen, r.dir)
             ELSE WithNames(r.entries, NamesOf(Waiting(r)))

\* While nothing goes they are in the directory, and while nothing changes they are all
\* of it.
ReadOn(r, w) ==
  /\ w.steady \subseteq NamesIn(r)
  /\ Namesakes(r) => w.namesakes
  /\ ~w.shrunk => Coming(r) \subseteq Entries(r.gen, r.dir)
  /\ ~w.grown => Coming(r) = Entries(r.gen, r.dir)
  /\ Reading(Coming(r), r, w)

LEMMA EntriesSame ==
  ASSUME UNCHANGED <<phone, area>>, NEW g, NEW d
  PROVE  /\ Entries(g, d)' = Entries(g, d) /\ NewIn(g, d)' = NewIn(g, d)
         /\ \A new : NamesOf(new)' = NamesOf(new)
  BY DEF Entries, NewIn, NamesOf, ObjectsIn, WithNames, StagedIn, In, IsFolder, Exists, StorageOf,
         ParentIn, Children, area

LEMMA UptoIs ==
  ASSUME NEW E, Listable(E), NEW n \in Nat
  PROVE  LET s == ByName(E)
         IN  /\ Upto(E, n) \in 0 .. Cardinality(E)
             /\ \A k \in 1 .. Cardinality(E) : s[k].name <= n <=> k <= Upto(E, n)
<1>1. IsFiniteSet(E) /\ \A e \in E : e.name \in Nat
  BY ListableHas DEF Listable
<1>2. Lists(ByName(E), E)
  BY <1>1, ByNameLists
<1> QED BY <1>1, <1>2, Counts DEF Upto

LEMMA UptoNat ==
  ASSUME NEW E, Listable(E), NEW n \in Nat
  PROVE  Upto(E, n) \in Nat
<1>1. Upto(E, n) \in 0 .. Cardinality(E)
  BY UptoIs
<1>2. Cardinality(E) \in Nat
  BY ListableHas
<1> HIDE DEF Upto
<1> QED BY <1>1, <1>2

LEMMA UptoGrows ==
  ASSUME NEW E, Listable(E), NEW F, Listable(F), E \subseteq F, NEW n \in Nat
  PROVE  Upto(E, n) <= Upto(F, n)
<1> DEFINE A == {e \in E : e.name <= n}
           B == {e \in F : e.name <= n}
<1>1. A \subseteq B /\ IsFiniteSet(B)
  BY FS_Subset DEF Listable
<1> HIDE DEF A, B
<1>2. Cardinality(A) <= Cardinality(B)
  BY <1>1, FS_Subset
<1> QED BY <1>2 DEF A, B, Upto

\* Without namesakes, names are strictly in order.
LEMMA NamesDiffer ==
  ASSUME StateInv, NEW r \in ReaderRecord, ~Namesakes(r)
  PROVE  Unique(Entries(r.gen, r.dir))
<1>1. PICK E : E = Entries(r.gen, r.dir)
  OBVIOUS
<1>2. IsFiniteSet(E)
  BY <1>1, EntriesType DEF Listable
<1> DEFINE f == [e \in E |-> e.name]
<1>3. NamesIn(r) = {e.name : e \in E} /\ Cardinality(NamesIn(r)) = Cardinality(E)
  BY <1>1 DEF NamesIn, Namesakes
<1>4. f \in Surjection(E, NamesIn(r))
  BY <1>3 DEF Surjection
<1>5. f \in Injection(E, NamesIn(r))
  <2> HIDE DEF f
  <2> QED BY <1>2, <1>3, <1>4, FS_Surjection
<1>6. \A e, x \in E : f[e] = f[x] => e = x
  <2>1. DOMAIN f = E
    OBVIOUS
  <2> HIDE DEF f
  <2>2. IsInjective(f)
    BY <1>5 DEF Injection
  <2> QED BY <2>1, <2>2 DEF IsInjective
<1> QED BY <1>1, <1>6 DEF Unique

\* Reading goes on, while entries before the cookie stay.
LEMMA ReadingStays ==
  ASSUME NEW E, Listable(E), NEW F, Listable(F), NEW r, r.cookie \in Nat, r.last \in Nat, NEW v,
         NEW w, Reading(E, r, v), w.steady \subseteq v.steady,
         ~w.shrunk => ~v.shrunk /\ w.steady \subseteq EntryNames(F)
                      /\ Upto(E, r.last) <= Upto(F, r.last),
         ~w.grown /\ ~w.namesakes => ~v.grown /\ ~v.namesakes /\ Unique(F)
                                     /\ Upto(F, r.last) <= Upto(E, r.last)
  PROVE  Reading(F, r, w)
<1>1. Upto(E, r.last) \in Nat /\ Upto(F, r.last) \in Nat
  <2>1. Cardinality(E) \in Nat /\ Cardinality(F) \in Nat
    BY ListableHas
  <2> QED BY <2>1, UptoIs
<1>2. PICK b, c \in Nat : b = Upto(E, r.last) /\ c = Upto(F, r.last)
  BY <1>1
<1>3. ~w.shrunk => /\ w.steady \subseteq EntryNames(F)
                   /\ r.cookie <= 2 + c
                   /\ \A n \in w.steady : n <= r.last \/ r.eof => n \in r.seen
  BY <1>2 DEF Reading
<1>4. ~w.grown /\ ~w.namesakes => /\ Unique(F)
                                  /\ ~r.twice
                                  /\ \A n \in r.seen : n <= r.last
                                  /\ c = 0 \/ c + 2 <= r.cookie
  BY <1>2 DEF Reading
<1>5. r.cookie <= 2 => r.last = 0
  BY DEF Reading
<1> QED BY <1>2, <1>3, <1>4, <1>5 DEF Reading

\* So it does when the entries become more, or stay what they are.
LEMMA ReadingGrows ==
  ASSUME NEW E, Listable(E), NEW F, Listable(F), NEW r, r.cookie \in Nat, r.last \in Nat, NEW v,
         NEW w, Reading(E, r, v), w.steady \subseteq v.steady,
         ~w.shrunk => ~v.shrunk /\ E \subseteq F,
         ~w.grown => ~v.grown /\ F = E,
         ~w.namesakes => ~v.namesakes
  PROVE  Reading(F, r, w)
<1>1. ~w.shrunk => Upto(E, r.last) <= Upto(F, r.last)
  BY UptoGrows
<1>2. Upto(E, r.last) <= Upto(E, r.last)
  BY UptoGrows
<1>3. ~w.shrunk => w.steady \subseteq EntryNames(F)
  BY DEF Reading, EntryNames
<1>4. ~w.grown /\ ~w.namesakes => Unique(F) /\ Upto(F, r.last) <= Upto(E, r.last)
  BY <1>2 DEF Reading
<1> QED BY <1>1, <1>3, <1>4, ReadingStays

\* An answer goes on with the reading.
LEMMA PageReads ==
  ASSUME NEW r \in ReaderRecord, NEW E, E = r.entries, Listable(E), NEW w,
         Reading(E, r, w),
         NEW q, NEW start \in Nat, NEW end \in Nat, end <= Len(Listing(r.entries)),
         Shows(r, q, start, end)
  PROVE  Reading(E, q, w)
<1> DEFINE s == ByName(E)
           n == Cardinality(E)
           all == Listing(E)
           got == {all[k].name : k \in {x \in start + 1 .. end : x > 2}}
           b == Upto(E, r.last)
           c == Upto(E, q.last)
<1>1. r.cookie \in Nat /\ r.last \in Nat
  BY DEF ReaderRecord
<1>2. /\ Lists(s, E) /\ n \in Nat /\ Len(all) = n + 2
      /\ \A k \in 1 .. n + 2 :
           /\ k <= 2 => all[k].name = 0
           /\ k > 2 => k - 2 \in 1 .. n /\ all[k] = s[k - 2]
  <2>1. n \in Nat
    BY ListableHas
  <2> QED BY <2>1, ListingIs
<1>3. \A e \in E : e.name \in Nat /\ e.name > 0
  BY ListableHas
<1>4. /\ b \in 0 .. n
      /\ \A k \in 1 .. n : s[k].name <= r.last <=> k <= b
  BY <1>1, UptoIs
<1>5. q.cookie \in Nat /\ q.last \in Nat
  BY DEF Shows, ReaderRecord
<1>6. /\ c \in 0 .. n
      /\ \A k \in 1 .. n : s[k].name <= q.last <=> k <= c
  BY <1>5, UptoIs
<1>7. /\ start <= r.cookie /\ (start = r.cookie \/ start = n + 2)
      /\ start <= end /\ end <= n + 2
      /\ q.eof = (end = n + 2)
      /\ start < end => q.cookie = end /\ q.last = all[end].name
      /\ start = end => q.cookie = r.cookie /\ q.last = r.last
      /\ q.seen = r.seen \cup got
      /\ q.twice = (r.twice \/ got \cap r.seen # {})
  BY <1>2 DEF Shows
<1>8. /\ \A k \in 1 .. n : s[k] \in E /\ s[k].name \in Nat /\ s[k].name > 0
      /\ \A i, k \in 1 .. n : i < k => s[i].name <= s[k].name /\ s[i] # s[k]
      /\ \A e \in E : \E k \in 1 .. n : s[k] = e
  <2>1. n = Cardinality(E)
    OBVIOUS
  <2> HIDE DEF s, n, all, got, b, c
  <2>2. s \in Seq(E) /\ Len(s) = n
    BY <1>2, <2>1 DEF Lists
  <2>3. \A k \in 1 .. n : s[k] \in E
    BY <2>2
  <2> QED BY <1>2, <1>3, <2>2, <2>3 DEF Lists
<1>9. n = Cardinality(E)
  OBVIOUS
<1>10. /\ r.cookie <= 2 => r.last = 0
       /\ ~w.shrunk => /\ w.steady \subseteq EntryNames(E)
                       /\ r.cookie <= 2 + b
                       /\ \A m \in w.steady : m <= r.last \/ r.eof => m \in r.seen
       /\ ~w.grown /\ ~w.namesakes => /\ Unique(E)
                                      /\ ~r.twice
                                      /\ \A m \in r.seen : m <= r.last
                                      /\ b = 0 \/ b + 2 <= r.cookie
  BY DEF Reading
<1>11. \A m \in got : \E k \in 1 .. n : m = s[k].name /\ start < k + 2 /\ k + 2 <= end
  <2> SUFFICES ASSUME NEW x \in start + 1 .. end, x > 2
               PROVE  \E k \in 1 .. n : all[x].name = s[k].name /\ start < k + 2 /\ k + 2 <= end
    OBVIOUS
  <2>1. x \in 1 .. n + 2 /\ x \in Nat
    BY <1>2, <1>7
  <2>2. x - 2 \in 1 .. n /\ all[x] = s[x - 2]
    BY <1>2, <2>1
  <2>3. start < (x - 2) + 2 /\ (x - 2) + 2 <= end
    BY <2>1
  <2> QED BY <2>2, <2>3
<1>12. ASSUME NEW k \in 1 .. n, start < k + 2, k + 2 <= end PROVE s[k].name \in got
  <2>1. k + 2 \in start + 1 .. end /\ k + 2 > 2 /\ k + 2 \in 1 .. n + 2
    BY <1>2, <1>7, <1>12
  <2>2. all[k + 2] = s[k]
    <3>1. (k + 2) - 2 = k
      BY <1>2
    <3> QED BY <1>2, <2>1, <3>1
  <2> QED BY <2>1, <2>2
<1>13. end > 2 => end - 2 \in 1 .. n /\ all[end] = s[end - 2]
  BY <1>2, <1>7
<1>14. end <= 2 /\ start < end => all[end].name = 0
  BY <1>2, <1>7
<1> HIDE DEF s, n, all, got, b, c
<1>15. q.cookie <= 2 => q.last = 0
  BY <1>1, <1>2, <1>7, <1>10, <1>14
<1>16. ASSUME ~w.shrunk
       PROVE  /\ q.cookie <= 2 + c
              /\ \A m \in w.steady : m <= q.last \/ q.eof => m \in q.seen
  <2>1. q.cookie <= 2 + c
    <3>1. CASE start = end
      <4>1. c = b
        BY <1>7, <3>1 DEF b, c
      <4> QED BY <1>7, <1>10, <1>16, <3>1, <4>1
    <3>2. CASE start < end /\ end <= 2
      BY <1>2, <1>6, <1>7, <3>2
    <3>3. CASE start < end /\ end > 2
      <4>1. s[end - 2].name <= q.last
        BY <1>7, <1>8, <1>13, <3>3
      <4>2. end - 2 <= c
        BY <1>6, <1>13, <3>3, <4>1
      <4> QED BY <1>2, <1>6, <1>7, <3>3, <4>2
    <3> QED BY <1>7, <3>1, <3>2, <3>3
  <2>2. ASSUME NEW m \in w.steady, m <= q.last \/ q.eof PROVE m \in q.seen
    <3>1. PICK k \in 1 .. n : m = s[k].name
      <4>1. PICK e \in E : m = e.name
        BY <1>10, <1>16 DEF EntryNames
      <4> QED BY <1>8, <4>1
    <3>2. CASE k + 2 <= start
      <4>1. k <= b
        BY <1>1, <1>2, <1>4, <1>7, <1>10, <1>16, <3>2
      <4>2. m <= r.last
        BY <1>4, <3>1, <4>1
      <4> QED BY <1>7, <1>10, <1>16, <4>2
    <3>3. CASE start < k + 2 /\ k + 2 <= end
      BY <1>7, <1>12, <3>1, <3>3
    <3>4. CASE end < k + 2
      <4>1. ~q.eof
        <5>1. end # n + 2
          BY <1>2, <3>4
        <5> QED BY <1>7, <5>1
      <4>2. m <= q.last
        BY <2>2, <4>1
      <4>3. CASE start = end
        BY <1>7, <1>10, <1>16, <4>2, <4>3
      <4>4. CASE start < end
        <5>1. end > 2
          BY <1>7, <1>8, <1>14, <3>1, <4>2, <4>4
        <5>2. s[end - 2].name <= s[k].name
          BY <1>2, <1>8, <1>13, <3>4, <5>1
        <5>3. m = s[end - 2].name
          BY <1>7, <1>8, <1>13, <3>1, <4>2, <4>4, <5>1, <5>2
        <5>4. start < (end - 2) + 2 /\ (end - 2) + 2 <= end
          BY <4>4
        <5> QED BY <1>7, <1>12, <1>13, <5>1, <5>3, <5>4
      <4> QED BY <1>7, <4>3, <4>4
    <3> QED BY <1>2, <3>2, <3>3, <3>4
  <2> QED BY <2>1, <2>2
<1>17. ASSUME ~w.grown, ~w.namesakes
       PROVE  ~q.twice /\ (\A m \in q.seen : m <= q.last) /\ (c = 0 \/ c + 2 <= q.cookie)
  <2>1. \A i, k \in 1 .. n : i < k => s[i].name < s[k].name
    <3>1. \A e, x \in E : e.name = x.name => e = x
      BY <1>10, <1>17 DEF Unique
    <3> SUFFICES ASSUME NEW i \in 1 .. n, NEW k \in 1 .. n, i < k PROVE s[i].name < s[k].name
      OBVIOUS
    <3>2. s[i] \in E /\ s[k] \in E /\ s[i].name <= s[k].name /\ s[i] # s[k]
      BY <1>8
    <3>3. s[i].name # s[k].name
      BY <3>1, <3>2
    <3> QED BY <1>8, <3>2, <3>3, SMTT(30)
  <2>2. ~q.twice
    <3> SUFFICES ASSUME NEW m \in got, m \in r.seen PROVE FALSE
      BY <1>7, <1>10, <1>17
    <3>1. PICK k \in 1 .. n : m = s[k].name /\ start < k + 2 /\ k + 2 <= end
      BY <1>11
    <3>2. k <= b
      BY <1>4, <1>10, <1>17, <3>1
    <3>3. b + 2 <= r.cookie
      BY <1>2, <1>4, <1>10, <1>17, <3>2
    <3> QED BY <1>1, <1>2, <1>4, <1>7, <3>1, <3>2, <3>3
  <2>3. r.last <= q.last
    <3>1. CASE start = end
      BY <1>1, <1>7, <3>1
    <3>2. CASE start < end /\ end <= 2
      BY <1>1, <1>2, <1>7, <1>10, <3>2
    <3>3. CASE start < end /\ end > 2
      <4>1. SUFFICES ASSUME s[end - 2].name < r.last PROVE FALSE
        BY <1>1, <1>7, <1>8, <1>13, <3>3
      <4>2. end - 2 <= b
        BY <1>1, <1>4, <1>8, <1>13, <3>3, <4>1
      <4>3. b + 2 <= r.cookie
        BY <1>2, <1>4, <1>10, <1>17, <3>3, <4>2
      <4> QED BY <1>1, <1>2, <1>4, <1>7, <3>3, <4>2, <4>3
    <3> QED BY <1>7, <3>1, <3>2, <3>3
  <2>4. ASSUME NEW m \in q.seen PROVE m <= q.last
    <3>1. CASE m \in r.seen
      <4>1. m \in Nat /\ m <= r.last
        BY <1>10, <1>17, <3>1, SetAssumption DEF ReaderRecord
      <4> QED BY <1>1, <1>5, <2>3, <4>1
    <3>2. CASE m \in got
      <4>1. PICK k \in 1 .. n : m = s[k].name /\ start < k + 2 /\ k + 2 <= end
        BY <1>11, <3>2
      <4>2. end > 2 /\ start < end
        BY <1>2, <4>1
      <4>3. s[k].name <= s[end - 2].name
        <5>1. CASE k = end - 2
          BY <1>8, <5>1
        <5>2. CASE k < end - 2
          BY <1>8, <1>13, <4>2, <5>2
        <5> QED BY <1>2, <4>1, <5>1, <5>2
      <4> QED BY <1>7, <1>13, <4>1, <4>2, <4>3
    <3> QED BY <1>7, <3>1, <3>2
  <2>5. c = 0 \/ c + 2 <= q.cookie
    <3>1. CASE start = end
      <4>1. c = b
        BY <1>7, <3>1 DEF b, c
      <4> QED BY <1>7, <1>10, <1>17, <3>1, <4>1
    <3>2. CASE start < end /\ end <= 2
      <4>1. \A k \in 1 .. n : ~(k <= c)
        <5>1. q.last = 0
          BY <1>7, <1>14, <3>2
        <5>2. \A k \in 1 .. n : ~(s[k].name <= q.last)
          BY <1>8, <5>1
        <5> QED BY <1>6, <5>2
      <4>2. c = 0 \/ c \in 1 .. n
        BY <1>2, <1>6
      <4>3. c \in Nat /\ c <= c
        BY <1>2, <1>6
      <4> QED BY <4>1, <4>2, <4>3
    <3>3. CASE start < end /\ end > 2
      <4>1. q.last = s[end - 2].name
        BY <1>7, <1>13, <3>3
      <4>2. SUFFICES ASSUME c # 0, c > end - 2 PROVE FALSE
        BY <1>2, <1>6, <1>7, <3>3
      <4>3. c \in 1 .. n
        BY <1>2, <1>6, <4>2
      <4>4. s[c].name <= q.last
        BY <1>2, <1>6, <4>3
      <4>5. s[end - 2].name < s[c].name
        BY <1>13, <2>1, <3>3, <4>2, <4>3
      <4> QED BY <1>8, <1>13, <3>3, <4>1, <4>3, <4>4, <4>5, SMTT(30)
    <3> QED BY <1>7, <3>1, <3>2, <3>3
  <2> QED BY <2>2, <2>3, <2>4, <2>5
<1> QED BY <1>10, <1>15, <1>16, <1>17 DEF Reading, c

\* Reading, seen from the next state, when nothing has changed.
LEMMA ReadingSame ==
  ASSUME UNCHANGED <<phone, area>>, NEW r, NEW w
  PROVE  /\ ReadOn(r, w)' <=> ReadOn(r, w)
         /\ NamesIn(r)' = NamesIn(r) /\ Before(r)' = Before(r)
         /\ Namesakes(r)' <=> Namesakes(r)
         /\ Content(r)' = Content(r) /\ ~Loses(r)
<1>1. /\ Entries(r.gen, r.dir)' = Entries(r.gen, r.dir)
      /\ NewIn(r.gen, r.dir)' = NewIn(r.gen, r.dir)
      /\ \A new : NamesOf(new)' = NamesOf(new)
  BY EntriesSame
<1>2. Coming(r)' = Coming(r)
  BY <1>1 DEF Coming, Waiting, WithNames
<1>3. /\ NamesIn(r)' = NamesIn(r) /\ Before(r)' = Before(r)
      /\ Namesakes(r)' <=> Namesakes(r)
  BY <1>1 DEF NamesIn, Before, Namesakes
<1>4. Content(r)' = Content(r)
  BY <1>1 DEF Content, area
<1>5. ~Loses(r)
  BY <1>4 DEF Loses
<1>6. Reading(Coming(r), r, w)' <=> Reading(Coming(r), r, w)
  BY <1>2 DEF Reading, Upto, EntryNames, Unique
<1> QED BY <1>1, <1>2, <1>3, <1>4, <1>5, <1>6 DEF ReadOn

\* The entries of an answer can be listed.
ComingKnown ==
  \A r \in ReaderRecord : StateInv /\ IsFiniteSet(r.entries) /\ r.dir \in Dir =>
    /\ Listable(Entries(r.gen, r.dir)) /\ Listable(Coming(r))
    /\ ~Namesakes(r) => Unique(Entries(r.gen, r.dir))
    /\ \A i \in NewIn(r.gen, r.dir) : staged[i].name \in Name

LEMMA KnowsComing == ComingKnown
<1> SUFFICES ASSUME NEW r \in ReaderRecord, StateInv, IsFiniteSet(r.entries), r.dir \in Dir
             PROVE  /\ Listable(Entries(r.gen, r.dir)) /\ Listable(Coming(r))
                    /\ ~Namesakes(r) => Unique(Entries(r.gen, r.dir))
                    /\ \A i \in NewIn(r.gen, r.dir) : staged[i].name \in Name
  BY DEF ComingKnown
<1>1. Listable(Entries(r.gen, r.dir)) /\ (~Namesakes(r) => Unique(Entries(r.gen, r.dir)))
  BY EntriesType, NamesDiffer
<1>2. Waiting(r) \subseteq files /\ NewIn(r.gen, r.dir) \subseteq files
  BY DEF Waiting, NewIn, StagedIn
<1>3. Listable(r.entries)
  BY DEF ReaderRecord, Listable, EntryType
<1>4. Listable(WithNames(r.entries, NamesOf(Waiting(r))))
  BY <1>2, <1>3, NamesOfIs, WithNamesIs
<1>5. \A i \in NewIn(r.gen, r.dir) : staged[i].name \in Name
  BY <1>2 DEF StateInv, StateOK, Staged
<1> QED BY <1>1, <1>4, <1>5 DEF Coming

ReadInv == IF reader.on THEN ReadOn(reader, watch) ELSE reader = IdleReader

\* What the reading itself does to the history.
LEMMA ReadingIsNoChange ==
  ASSUME TypeInv, ReadInv, UNCHANGED <<phone, area>>, reader.on, reader'.on, Observe
  PROVE  /\ watch'.steady \subseteq watch.steady /\ watch'.steady \subseteq NamesIn(reader)
         /\ watch'.shrunk = watch.shrunk /\ watch'.grown = watch.grown
         /\ watch'.namesakes = watch.namesakes
<1>1. PICK r : r = reader
  OBVIOUS
<1>2. PICK v, w : v = watch /\ w = watch'
  OBVIOUS
<1>3. w = [steady |-> v.steady \cap NamesIn(r)',
           shrunk |-> \/ v.shrunk
                      \/ IF r.pc = "idle" THEN Before(r)' < Before(r) ELSE Loses(r),
           grown  |-> \/ v.grown
                      \/ IF r.pc = "idle" THEN Before(r)' > Before(r)
                         ELSE Content(r)' # Content(r),
           namesakes |-> v.namesakes \/ Namesakes(r)']
  BY <1>1, <1>2 DEF Observe
<1>4. /\ NamesIn(r)' = NamesIn(r) /\ Before(r)' = Before(r)
      /\ Namesakes(r)' <=> Namesakes(r)
      /\ Content(r)' = Content(r) /\ ~Loses(r)
  BY ReadingSame
<1>5. Before(r) \in Nat
  <2>1. Listable(Entries(r.gen, r.dir)) /\ r.last \in Nat
    BY <1>1, EntriesType DEF TypeInv, StateInv, StateOK, ReaderRecord
  <2>2. Cardinality(Entries(r.gen, r.dir)) \in Nat
    BY <2>1, ListableHas
  <2> QED BY <2>1, <2>2, UptoIs DEF Before, Upto
<1>6. ~(Before(r)' < Before(r)) /\ ~(Before(r)' > Before(r))
  BY <1>4, <1>5
<1>7. v.shrunk \in BOOLEAN /\ v.grown \in BOOLEAN /\ v.namesakes \in BOOLEAN
  BY <1>2 DEF TypeInv, HistoryOK
<1>8. Namesakes(r) => v.namesakes
  BY <1>1, <1>2 DEF ReadInv, ReadOn
<1>9. /\ w.steady = v.steady \cap NamesIn(r)
      /\ w.shrunk = (\/ v.shrunk
                     \/ IF r.pc = "idle" THEN Before(r)' < Before(r) ELSE Loses(r))
      /\ w.grown = (\/ v.grown
                    \/ IF r.pc = "idle" THEN Before(r)' > Before(r) ELSE Content(r)' # Content(r))
      /\ w.namesakes = (v.namesakes \/ Namesakes(r)')
  BY <1>3, <1>4
<1>10. w.shrunk = v.shrunk
  BY <1>4, <1>6, <1>7, <1>9
<1>11. w.grown = v.grown
  BY <1>4, <1>6, <1>7, <1>9
<1>12. w.namesakes = v.namesakes
  BY <1>4, <1>7, <1>8, <1>9
<1> QED BY <1>1, <1>2, <1>9, <1>10, <1>11, <1>12

LEMMA FirstPageReads ==
  ASSUME TypeInv, NEW d \in Folder, FirstPage(d), Observe, ReadInv
  PROVE  ReadInv'
<1>1. d \in Dir /\ StateInv /\ UNCHANGED <<phone, area>> /\ ~reader.on /\ gen \in Generation
  BY DEF Folder, TypeInv, FirstPage, StateInv, StateOK
<1>2. PICK q, w : q = reader' /\ w = watch'
  OBVIOUS
<1>3. /\ q.on /\ q.dir = d /\ q.gen = gen /\ q.pc = "listed" /\ q.entries = ObjectsIn(d)
      /\ q.cookie = 0 /\ q.last = 0 /\ q.seen = {} /\ ~q.twice /\ ~q.eof
  BY <1>2 DEF FirstPage, IdleReader
<1>4. w = [IdleWatch EXCEPT !.steady = NamesIn(q)', !.namesakes = Namesakes(q)']
  BY <1>1, <1>2, <1>3 DEF Observe
<1>5. w.steady = NamesIn(q) /\ (Namesakes(q) => w.namesakes)
  BY <1>1, <1>4, ReadingSame DEF IdleWatch
<1>6. Coming(q) = Entries(q.gen, q.dir)
  BY <1>3 DEF Coming, Waiting, Entries
<1>7. PICK E : E = Entries(q.gen, q.dir)
  OBVIOUS
<1>8. Listable(E) /\ \A e \in E : e.name \in Nat \ {0}
  BY <1>1, <1>7, EntriesType, ListableHas
<1>9. Upto(E, 0) = 0
  <2>1. {e \in E : e.name <= 0} = {}
    BY <1>8
  <2> QED BY <2>1, FS_EmptySet DEF Upto
<1>10. w.steady = EntryNames(E)
  BY <1>5, <1>7 DEF NamesIn, EntryNames
<1>11. ~w.namesakes => Unique(E)
  <2>1. q \in ReaderRecord
    <3>1. StateInv'
      BY <1>1, ReadingKeepsTypes DEF ReadsDirectory
    <3> QED BY <1>2, <3>1 DEF StateInv, StateOK
  <2> QED BY <1>1, <1>5, <1>7, <2>1, NamesDiffer
<1>12. Reading(E, q, w)
  <2>1. \A n \in w.steady : ~(n <= 0)
    BY <1>8, <1>10 DEF EntryNames
  <2> QED BY <1>3, <1>9, <1>10, <1>11, <2>1 DEF Reading
<1>13. ReadOn(q, w)
  BY <1>5, <1>6, <1>7, <1>12 DEF ReadOn
<1>14. ReadOn(q, w)'
  BY <1>1, <1>13, ReadingSame
<1> QED BY <1>2, <1>3, <1>14 DEF ReadInv

\* While an answer is being made, what it will show stays the same.
LEMMA ListingReads ==
  ASSUME TypeInv, NextPage \/ TakesFiles \/ (\E i \in File : AsksFile(i)), Observe, ReadInv
  PROVE  ReadInv'
<1>1. PICK r, q : r = reader /\ q = reader'
  OBVIOUS
<1>2. PICK v, w : v = watch /\ w = watch'
  OBVIOUS
<1>3. /\ StateInv /\ UNCHANGED <<phone, area>> /\ r \in ReaderRecord
      /\ (r.pc # "idle" => r.on) /\ (r.on => r.dir \in Dir)
  BY <1>1 DEF TypeInv, NextPage, TakesFiles, AsksFile, StateInv, StateOK
<1>4. /\ r.on /\ q.on /\ q.dir = r.dir /\ q.gen = r.gen /\ q.cookie = r.cookie /\ q.last = r.last
      /\ q.eof = r.eof /\ q.seen = r.seen /\ q.twice = r.twice
  BY <1>1, <1>3 DEF NextPage, TakesFiles, AsksFile, ReaderRecord
<1>5. Coming(q) = Coming(r)
  <2>1. CASE NextPage
    <3>1. r.pc = "idle" /\ q.pc = "listed" /\ q.entries = ObjectsIn(r.dir)
      BY <1>1, <1>3, <2>1 DEF NextPage, ReaderRecord
    <3> QED BY <1>4, <3>1 DEF Coming, Waiting, Entries
  <2>2. CASE TakesFiles
    <3>1. r.pc = "listed" /\ q.pc = "asking" /\ q.entries = r.entries /\ q.ids = files
      BY <1>1, <1>3, <2>2 DEF TakesFiles, ReaderRecord
    <3>2. Waiting(q) = Waiting(r)
      BY <1>4, <3>1 DEF Waiting, NewIn, StagedIn
    <3> QED BY <1>4, <3>1, <3>2 DEF Coming
  <2>3. ASSUME NEW i \in File, AsksFile(i) PROVE Coming(q) = Coming(r)
    <3> DEFINE A == NamesOf(Waiting(r))
               B == NamesOf(Waiting(q))
               C == NamesOf({i} \cap NewIn(r.gen, r.dir))
    <3>1. /\ r.pc = "asking" /\ q.pc = "asking" /\ i \in r.ids /\ q.ids = r.ids \ {i}
          /\ q.entries = WithNames(r.entries, C)
      BY <1>1, <1>3, <2>3 DEF AsksFile, ReaderRecord
    <3>2. A = B \cup C
      BY <1>4, <3>1 DEF Waiting, NamesOf
    <3> HIDE DEF A, B, C
    <3>3. WithNames(q.entries, B) = WithNames(r.entries, A)
      <4>1. PICK L : L = r.entries
        OBVIOUS
      <4>2. WithNames(WithNames(L, C), B) = WithNames(L, B \cup C)
        BY DEF WithNames
      <4> QED BY <3>1, <3>2, <4>1, <4>2
    <3> QED BY <3>1, <3>3 DEF Coming, A, B
  <2> QED BY <2>1, <2>2, <2>3
<1>6. /\ w.steady \subseteq v.steady /\ w.steady \subseteq NamesIn(r)
      /\ w.shrunk = v.shrunk /\ w.grown = v.grown /\ w.namesakes = v.namesakes
  BY <1>1, <1>2, <1>3, <1>4, ReadingIsNoChange
<1>7. ReadOn(r, v)
  BY <1>1, <1>2, <1>4 DEF ReadInv
<1>8. Reading(Coming(r), q, w)
  BY <1>4, <1>6, <1>7 DEF ReadOn, Reading
<1>9. NamesIn(q) = NamesIn(r) /\ (Namesakes(q) <=> Namesakes(r))
  BY <1>4 DEF NamesIn, Namesakes
<1>10. ReadOn(q, w)
  BY <1>4, <1>5, <1>6, <1>7, <1>8, <1>9 DEF ReadOn
<1>11. ReadOn(q, w)'
  BY <1>3, <1>10, ReadingSame
<1> QED BY <1>1, <1>2, <1>4, <1>11 DEF ReadInv

LEMMA ShowsPageReads ==
  ASSUME TypeInv, ShowsPage, Observe, ReadInv
  PROVE  ReadInv'
<1>1. PICK r, q : r = reader /\ q = reader'
  OBVIOUS
<1>2. PICK v, w : v = watch /\ w = watch'
  OBVIOUS
<1>3. /\ StateInv /\ UNCHANGED <<phone, area>> /\ r \in ReaderRecord /\ r.on /\ r.dir \in Dir
      /\ IsFiniteSet(r.entries) /\ r.pc = "asking" /\ r.ids = {} /\ Answer(r)
  BY <1>1 DEF TypeInv, ShowsPage, StateInv, StateOK
<1>4. PICK start, end \in 0 .. Len(Listing(r.entries)) : Shows(r, q, start, end)
  BY <1>1, <1>3, AnswerShows
<1>5. /\ q.on /\ q.dir = r.dir /\ q.gen = r.gen /\ q.pc = "idle"
      /\ q.cookie \in Nat /\ q.last \in Nat
  BY <1>3, <1>4 DEF Shows, ReaderRecord
<1>6. /\ w.steady \subseteq v.steady /\ w.steady \subseteq NamesIn(r)
      /\ w.shrunk = v.shrunk /\ w.grown = v.grown /\ w.namesakes = v.namesakes
  BY <1>1, <1>2, <1>3, <1>5, ReadingIsNoChange
<1>7. ReadOn(r, v)
  BY <1>1, <1>2, <1>3 DEF ReadInv
<1>8. PICK E, F : E = r.entries /\ F = Entries(r.gen, r.dir)
  OBVIOUS
<1>9. Coming(r) = E
  BY <1>3, <1>8 DEF Coming, Waiting, NamesOf, WithNames
<1>10. Listable(E) /\ Listable(F)
  BY <1>3, <1>8, EntriesType DEF ReaderRecord, Listable, EntryType
<1>11. Reading(E, r, w)
  BY <1>6, <1>7, <1>9 DEF ReadOn, Reading
<1>12. Reading(E, q, w)
  <2>1. Len(Listing(r.entries)) \in Nat
    BY <1>8, <1>10, ListingIs
  <2>2. start \in Nat /\ end \in Nat /\ end <= Len(Listing(r.entries))
    BY <1>4, <2>1
  <2> QED BY <1>3, <1>4, <1>8, <1>10, <1>11, <2>2, PageReads
<1>13. (~w.shrunk => E \subseteq F) /\ (~w.grown => F = E)
  BY <1>6, <1>7, <1>8, <1>9 DEF ReadOn
<1>14. Reading(F, q, w)
  BY <1>5, <1>10, <1>12, <1>13, ReadingGrows
<1>15. NamesIn(q) = NamesIn(r) /\ (Namesakes(q) <=> Namesakes(r)) /\ Coming(q) = F
  BY <1>5, <1>8 DEF NamesIn, Namesakes, Coming
<1>16. ReadOn(q, w)
  BY <1>5, <1>6, <1>7, <1>8, <1>14, <1>15 DEF ReadOn
<1>17. ReadOn(q, w)'
  BY <1>3, <1>16, ReadingSame
<1> QED BY <1>1, <1>2, <1>5, <1>17 DEF ReadInv

\* The entries of an answer that is being made, when the directory has come to have the
\* entries F, and the names of the files that are waited for, A before, are B now.
LEMMA ComingStays ==
  ASSUME NEW L, NEW F, NEW A, NEW B, NEW C, NEW O,
         WithNames(L, A) \subseteq F, F = WithNames(O, C), A \subseteq B, B \subseteq C
  PROVE  WithNames(L, A) \subseteq WithNames(L, B) /\ WithNames(L, B) \subseteq F
<1>1. ASSUME NEW e \in WithNames(L, A) PROVE e \in WithNames(L, B)
  <2>1. CASE e \in L /\ e.name \notin B
    BY <2>1 DEF WithNames
  <2>2. CASE \E n \in A : e = [name |-> n, object |-> None]
    BY <2>2 DEF WithNames
  <2>3. CASE e.name \in B
    <3>1. e \in F
      OBVIOUS
    <3>2. \E n \in C : e = [name |-> n, object |-> None]
      BY <2>3, <3>1 DEF WithNames
    <3>3. e = [name |-> e.name, object |-> None]
      BY <3>2
    <3> QED BY <2>3, <3>3 DEF WithNames
  <2> QED BY <2>1, <2>2, <2>3 DEF WithNames
<1>2. ASSUME NEW e \in WithNames(L, B) PROVE e \in F
  <2>1. CASE e \in L /\ e.name \notin B
    BY <2>1 DEF WithNames
  <2>2. CASE \E n \in B : e = [name |-> n, object |-> None]
    BY <2>2 DEF WithNames
  <2> QED BY <2>1, <2>2 DEF WithNames
<1> QED BY <1>1, <1>2

\* Whatever else happens is watched.
LEMMA OthersAreWatched ==
  ASSUME TypeInv, StateInv', UNCHANGED reader, Observe, ReadInv
  PROVE  ReadInv'
<1>1. CASE ~reader.on
  BY <1>1 DEF ReadInv
<1>2. CASE reader.on
  <2>1. PICK r : r = reader /\ r = reader'
    OBVIOUS
  <2>2. PICK v, w : v = watch /\ w = watch'
    OBVIOUS
  <2>3. /\ r \in ReaderRecord /\ r.on /\ r.dir \in Dir /\ StateInv /\ IsFiniteSet(r.entries)
        /\ r.cookie \in Nat /\ r.last \in Nat
    BY <1>2, <2>1 DEF TypeInv, StateInv, StateOK, ReaderRecord
  <2>4. w = [steady |-> v.steady \cap NamesIn(r)',
             shrunk |-> \/ v.shrunk
                        \/ IF r.pc = "idle" THEN Before(r)' < Before(r) ELSE Loses(r),
             grown  |-> \/ v.grown
                        \/ IF r.pc = "idle" THEN Before(r)' > Before(r)
                           ELSE Content(r)' # Content(r),
             namesakes |-> v.namesakes \/ Namesakes(r)']
    BY <2>1, <2>2, <2>3 DEF Observe
  <2>5. ComingKnown'
    BY KnowsComing, PTL
  <2>6. PICK E, E1, F, F1 : /\ E = Coming(r) /\ E1 = Coming(r)'
                            /\ F = Entries(r.gen, r.dir) /\ F1 = Entries(r.gen, r.dir)'
    OBVIOUS
  <2>7. /\ Listable(E) /\ Listable(E1) /\ Listable(F) /\ Listable(F1)
        /\ ~Namesakes(r)' => Unique(F1)
    <3>1. Listable(E) /\ Listable(F)
      BY <2>3, <2>6, KnowsComing DEF ComingKnown
    <3>2. Listable(E1) /\ Listable(F1) /\ (~Namesakes(r)' => Unique(F1))
      BY <2>3, <2>5, <2>6 DEF ComingKnown, Unique
    <3> QED BY <3>1, <3>2
  <2>8. /\ v.steady \subseteq NamesIn(r) /\ (Namesakes(r) => v.namesakes)
        /\ ~v.shrunk => E \subseteq F
        /\ ~v.grown => E = F
        /\ Reading(E, r, v)
    BY <2>1, <2>2, <2>3, <2>6 DEF ReadInv, ReadOn
  <2>9. /\ w.steady \subseteq v.steady /\ w.steady \subseteq NamesIn(r)'
        /\ ~w.shrunk => ~v.shrunk /\ ~(IF r.pc = "idle" THEN Before(r)' < Before(r) ELSE Loses(r))
        /\ ~w.grown => ~v.grown /\ ~(IF r.pc = "idle" THEN Before(r)' > Before(r)
                                     ELSE Content(r)' # Content(r))
        /\ ~w.namesakes => ~v.namesakes /\ ~Namesakes(r)'
    BY <2>4
  <2>10. NamesIn(r)' = EntryNames(F1)
    BY <2>6 DEF NamesIn, EntryNames
  <2>11. /\ ~w.shrunk => E1 \subseteq F1
         /\ ~w.grown => E1 = F1
         /\ Reading(E1, r, w)
    <3>1. CASE r.pc = "idle"
      <4>1. E = F /\ E1 = F1
        BY <2>6, <3>1 DEF Coming
      <4>2. Before(r) = Upto(F, r.last) /\ Before(r)' = Upto(F1, r.last)
        BY <2>6 DEF Before, Upto
      <4>3. Upto(F, r.last) \in Nat /\ Upto(F1, r.last) \in Nat
        <5>1. r.last \in Nat
          BY <2>3 DEF ReaderRecord
        <5> QED BY <2>7, <5>1, UptoNat
      <4>4. /\ ~w.shrunk => Upto(F, r.last) <= Upto(F1, r.last)
            /\ ~w.grown => Upto(F1, r.last) <= Upto(F, r.last)
        BY <2>9, <3>1, <4>2, <4>3
      <4>5. /\ ~w.shrunk => ~v.shrunk /\ w.steady \subseteq EntryNames(F1)
            /\ ~w.grown /\ ~w.namesakes => ~v.grown /\ ~v.namesakes /\ Unique(F1)
        BY <2>7, <2>9, <2>10
      <4>6. Reading(F1, r, w)
        BY <2>3, <2>7, <2>8, <2>9, <4>1, <4>4, <4>5, ReadingStays
      <4> QED BY <4>1, <4>6
    <3>2. CASE r.pc # "idle"
      <4> DEFINE A == NamesOf(Waiting(r))
                 C == NamesOf(NewIn(r.gen, r.dir))
      <4>1. /\ E = WithNames(r.entries, A) /\ E1 = WithNames(r.entries, A')
            /\ F1 = WithNames(ObjectsIn(r.dir)', C') /\ A' \subseteq C'
        <5>1. E = WithNames(r.entries, A) /\ E1 = WithNames(r.entries, A')
          BY <2>6, <3>2 DEF Coming, WithNames
        <5>2. F1 = WithNames(ObjectsIn(r.dir)', C')
          BY <2>6 DEF Entries, WithNames
        <5>3. A' \subseteq C'
          BY DEF Waiting, NamesOf
        <5> QED BY <5>1, <5>2, <5>3
      <4>2. PICK N, N1 : /\ N = {[file |-> i, name |-> staged[i].name] : i \in NewIn(r.gen, r.dir)}
                         /\ N1 = {[file |-> i, name |-> staged[i].name] : i \in NewIn(r.gen, r.dir)}'
        OBVIOUS
      <4>3. Content(r) = [entries |-> F, new |-> N] /\ Content(r)' = [entries |-> F1, new |-> N1]
        BY <2>6, <4>2 DEF Content
      <4>4. N \subseteq N1 => A \subseteq A'
        <5> SUFFICES ASSUME N \subseteq N1, NEW i \in Waiting(r) PROVE staged[i].name \in A'
          BY DEF NamesOf
        <5>1. i \in NewIn(r.gen, r.dir) /\ (r.pc # "listed" => i \in r.ids)
          BY DEF Waiting
        <5>2. [file |-> i, name |-> staged[i].name] \in N1
          BY <4>2, <5>1
        <5>3. i \in NewIn(r.gen, r.dir)' /\ staged'[i].name = staged[i].name
          BY <4>2, <5>2
        <5>4. i \in Waiting(r)'
          BY <5>1, <5>3 DEF Waiting
        <5> QED BY <5>3, <5>4 DEF NamesOf
      <4>5. N = N1 => A = A'
        <5> SUFFICES ASSUME N = N1 PROVE A' \subseteq A
          BY <4>4
        <5> SUFFICES ASSUME NEW i \in Waiting(r)' PROVE staged'[i].name \in A
          BY DEF NamesOf
        <5>1. i \in NewIn(r.gen, r.dir)' /\ (r.pc # "listed" => i \in r.ids)
          BY DEF Waiting
        <5>2. [file |-> i, name |-> staged'[i].name] \in N
          BY <4>2, <5>1
        <5>3. i \in NewIn(r.gen, r.dir) /\ staged'[i].name = staged[i].name
          <6>1. PICK k \in NewIn(r.gen, r.dir) :
                  [file |-> i, name |-> staged'[i].name] = [file |-> k, name |-> staged[k].name]
            BY <4>2, <5>2
          <6> QED BY <6>1
        <5>4. i \in Waiting(r)
          BY <5>1, <5>3 DEF Waiting
        <5> QED BY <5>3, <5>4 DEF NamesOf
      <4>6. ~w.shrunk => ~v.shrunk /\ F \subseteq F1 /\ N \subseteq N1
        BY <2>9, <3>2, <4>3 DEF Loses
      <4>7. ~w.grown => ~v.grown /\ F = F1 /\ N = N1
        BY <2>9, <3>2, <4>3
      <4> HIDE DEF A, C
      <4>8. ~w.shrunk => E \subseteq E1 /\ E1 \subseteq F1
        <5>1. PICK L, A0, A1, C1, O1 : /\ L = r.entries /\ A0 = A /\ A1 = A' /\ C1 = C'
                                       /\ O1 = ObjectsIn(r.dir)'
          OBVIOUS
        <5> SUFFICES ASSUME ~w.shrunk PROVE E \subseteq E1 /\ E1 \subseteq F1
          OBVIOUS
        <5>2. /\ WithNames(L, A0) \subseteq F1 /\ F1 = WithNames(O1, C1)
              /\ A0 \subseteq A1 /\ A1 \subseteq C1
          BY <2>8, <4>1, <4>4, <4>6, <5>1
        <5>3. WithNames(L, A0) \subseteq WithNames(L, A1) /\ WithNames(L, A1) \subseteq F1
          BY <5>2, ComingStays
        <5> QED BY <4>1, <5>1, <5>3
      <4>9. ~w.grown => E1 = E /\ E1 = F1
        BY <2>8, <4>1, <4>5, <4>7
      <4>10. Reading(E1, r, w)
        BY <2>3, <2>7, <2>8, <2>9, <4>6, <4>7, <4>8, <4>9, ReadingGrows
      <4> QED BY <4>8, <4>9, <4>10
    <3> QED BY <3>1, <3>2
  <2>12. Reading(Coming(r), r, w)'
    BY <2>6, <2>11 DEF Reading, Upto, EntryNames, Unique
  <2>13. ReadOn(r, w)'
    BY <2>6, <2>9, <2>11, <2>12 DEF ReadOn
  <2> QED BY <2>1, <2>2, <2>3, <2>13 DEF ReadInv
<1> QED BY <1>1, <1>2

LEMMA StepReads ==
  Step => UNCHANGED reader \/ ReadsDirectory
  BY ZenonT(60)
     DEF Step, Continues, Creates, MakesFolder, RemoveObject, Write, Read, ReadAnswers,
         ReadRefused, TargetFound, TargetMissing, Clear, RenamesStaged, Moves, Renames,
         RenameFails, Found, NotFound, Commit, Replug

LEMMA NextKeepsReadInv == TypeInv /\ ReadInv /\ [Next]_vars => ReadInv'
<1> SUFFICES ASSUME TypeInv, ReadInv, [Next]_vars PROVE ReadInv'
  OBVIOUS
<1>1. CASE Next
  <2>1. StateInv' /\ Observe /\ Step
    BY <1>1, StepKeepsTypes DEF Next, TypeInv
  <2>2. CASE CloseDirectory
    BY <2>2 DEF CloseDirectory, ReadInv, IdleReader
  <2>3. CASE ReadsDirectory
    BY <2>1, <2>2, <2>3, FirstPageReads, ListingReads, ShowsPageReads DEF ReadsDirectory
  <2> QED BY <2>1, <2>3, StepReads, OthersAreWatched
<1>2. CASE UNCHANGED vars
  <2>1. PICK r, w : r = reader /\ w = watch
    OBVIOUS
  <2>2. UNCHANGED <<phone, area>> /\ reader' = r /\ watch' = w
    BY <1>2, <2>1 DEF vars
  <2>3. ReadOn(r, w)' <=> ReadOn(r, w)
    BY <2>2, ReadingSame
  <2> QED BY <2>1, <2>2, <2>3 DEF ReadInv
<1> QED BY <1>1, <1>2

\* A directory that is read to its end has shown every name that it had all the time,
\* however large it is and whatever happens to it while an answer is made and between two
\* of them, unless entries before the cookie went away, or anything went away while an
\* answer was being made, such as a new file that became an object; and none twice, unless
\* some were added there, or anything changed meanwhile, or two had one name (nfs.rs
\* directory_entries, readdir, readdirplus: the cookie is an index in a listing that is
\* made anew for each page).
THEOREM TraversedAlways == Spec => []Traversed
<1>1. Init => ReadInv
  BY DEF Init, ReadInv, IdleReader
<1>2. ReadInv => Traversed
  <2> SUFFICES ASSUME ReadInv, reader.eof
               PROVE  /\ watch.steady \subseteq reader.seen \/ watch.shrunk
                      /\ reader.twice => watch.grown \/ watch.namesakes
    BY DEF Traversed
  <2>1. reader.on
    BY DEF ReadInv, IdleReader
  <2> QED BY <2>1 DEF ReadInv, ReadOn, Reading
<1> QED BY <1>1, <1>2, TypeAlways, NextKeepsReadInv, PTL DEF Spec

-----------------------------------------------------------------------------
(* Whose an object is.                                                     *)

\* In this session, an object with a file over it is found through it, and is of the same
\* document.
Origins ==
  /\ \A i \in File : staged[i] # None /\ staged[i].gen = gen /\ staged[i].remote # None =>
       origins[gen][staged[i].remote] = i
  /\ \A h \in Handle : phone[h] # None /\ origins[gen][h] # None =>
       /\ origins[gen][h] \in files /\ ~phone[h].folder
       /\ staged[origins[gen][h]].remote = h /\ staged[origins[gen][h]].doc = phone[h].doc

\* What stands at a handle of this session is of these documents.
At(node, docs) ==
  LET i == Overlay(node) IN
  IF i # None THEN staged[i].doc \in docs
  ELSE phone[node.object] # None => phone[node.object].doc \in docs

\* What a call is about to remove is what it has named; what it reads is what it has
\* looked up.
Aims(r) ==
  /\ r.gen = gen /\ r.pc = "remove" => At(r.node, r.aimed)
  /\ r.gen = gen /\ r.pc = "clear" => At(r.victim, r.aimed)
  /\ (r.gen = gen \/ r.node \in File) /\ r.pc \in {"read", "attrs"} => At(r.node, {r.doc})
  /\ (r.gen = gen \/ r.node \in File) /\ r.pc = "attrs" => r.data = r.doc

AimInv == Origins /\ \A j \in Job : Aims(job[j])

\* What stands at a handle in use may go, or be staged, but is never exchanged.
Settled ==
  gen' = gen => \A h \in Handle : Known(h) =>
    /\ phone'[h] # None => phone[h] # None /\ phone'[h].doc = phone[h].doc
    /\ origins[gen][h] # None => origins'[gen][h] = origins[gen][h]
    /\ origins[gen][h] = None /\ origins'[gen][h] # None =>
         phone[h] # None /\ staged'[origins'[gen][h]].doc = phone[h].doc

LEMMA SameFilesSettle ==
  ASSUME StateInv, Origins, UNCHANGED <<gen, origins>>,
         \A x \in File : /\ staged[x] = None <=> staged'[x] = None
                         /\ staged[x] # None => /\ staged'[x].gen = staged[x].gen
                                                /\ staged'[x].remote = staged[x].remote
                                                /\ staged'[x].doc = staged[x].doc,
         \A h \in Handle : phone'[h] # None => /\ phone[h] # None
                                               /\ phone'[h].doc = phone[h].doc
                                               /\ phone'[h].folder = phone[h].folder,
         \A h \in Handle : phone'[h] # None /\ origins[gen][h] # None => origins[gen][h] \in files'
  PROVE  Origins' /\ Settled
<1>1. \A h \in Handle : origins[gen][h] # None => origins[gen][h] \in File
  BY DEF StateInv, StateOK
<1>2. Origins'
  BY <1>1 DEF Origins
<1> QED BY <1>2 DEF Settled

LEMMA QuietSettles ==
  ASSUME StateInv, Origins, UNCHANGED <<gen, phone, area>>
  PROVE  Origins' /\ Settled
  BY DEF Origins, Settled, area

\* Whose file it is that a call of this session stands at, and what is deleted with it.
LEMMA OwnFile ==
  ASSUME StateInv, Origins, NEW i \in File, staged[i] # None, staged[i].gen = gen,
         NEW h \in Handle, h = staged[i].remote, phone[h] # None
  PROVE  origins[gen][h] = i /\ phone[h].doc = staged[i].doc /\ ~phone[h].folder
<1>1. h # None
  BY Apart
<1>2. origins[gen][h] = i /\ i # None
  BY <1>1, Apart DEF Origins
<1> QED BY <1>2 DEF Origins

LEMMA DiscardsSettles ==
  ASSUME StateInv, Origins, NEW node \in Node, NEW strict, Removable(node, strict), Discards(node),
         UNCHANGED <<gen, staged, origins, used>>
  PROVE  Origins' /\ Settled
<1>1. \A h \in Handle : phone'[h] # None => phone'[h] = phone[h]
  BY DiscardsKeepsTypes
<1>2. ASSUME NEW h \in Handle, phone'[h] # None, origins[gen][h] # None
      PROVE  origins[gen][h] \in files'
  <2>1. /\ phone[h] # None /\ origins[gen][h] \in files /\ staged[origins[gen][h]].remote = h
    BY <1>1, <1>2 DEF Origins
  <2>2. files' = files \ {Overlay(node)}
    BY DEF Discards
  <2>3. SUFFICES ASSUME origins[gen][h] = Overlay(node) PROVE FALSE
    BY <2>1, <2>2
  <2>4. Overlay(node) # None
    BY <1>2, <2>3
  <2>5. phone' = Without(phone, h)
    BY <2>1, <2>3, <2>4 DEF Discards
  <2>6. phone \in Objects
    BY DEF StateInv, StateOK, Objects
  <2> QED BY <1>2, <2>1, <2>5, <2>6, WithoutIs
<1> QED BY <1>1, <1>2, SameFilesSettle

LEMMA CreatesSettles ==
  ASSUME StateInv, Origins, NEW j \in Job, Creates(j)
  PROVE  Origins' /\ Settled
<1> DEFINE call == job[j].call
           i == CHOOSE k \in File : staged[k] = None
           d == CHOOSE x \in Doc : x \notin used
           f == [gen |-> job[j].gen, storage |-> StorageOf(call.dir), parent |-> ParentIn(call.dir),
                 name |-> call.name, remote |-> None, dirty |-> TRUE, doc |-> d]
<1>1. i \in File /\ staged[i] = None
  BY DEF Creates
<1>2. /\ UNCHANGED <<gen, phone, origins>> /\ files' = files \cup {i}
      /\ staged' = [staged EXCEPT ![i] = f]
  BY DEF Creates
<1>3. f.remote = None
  OBVIOUS
<1> HIDE DEF i, f
<1>4. staged'[i] = f /\ \A x \in File : x # i => staged'[x] = staged[x]
  BY <1>1, <1>2 DEF StateInv, StateOK
<1>5. \A h \in Handle : origins[gen][h] # None =>
        origins[gen][h] \in File /\ staged[origins[gen][h]] # None
  BY DEF StateInv, StateOK, Past
<1>6. \A h \in Handle : origins[gen][h] # None => origins[gen][h] # i
  BY <1>1, <1>5
<1>7. Origins'
  <2>1. \A x \in File : staged'[x] # None /\ staged'[x].gen = gen' /\ staged'[x].remote # None =>
          origins'[gen'][staged'[x].remote] = x
    BY <1>2, <1>3, <1>4 DEF Origins
  <2>2. \A h \in Handle : phone'[h] # None /\ origins'[gen'][h] # None =>
          /\ origins'[gen'][h] \in files' /\ ~phone'[h].folder
          /\ staged'[origins'[gen'][h]].remote = h
          /\ staged'[origins'[gen'][h]].doc = phone'[h].doc
    BY <1>2, <1>4, <1>5, <1>6 DEF Origins
  <2> QED BY <2>1, <2>2 DEF Origins
<1> QED BY <1>2, <1>7 DEF Settled

LEMMA MakesFolderSettles ==
  ASSUME StateInv, Origins, NEW j \in Job, MakesFolder(j)
  PROVE  Origins' /\ Settled
<1>1. PICK h : h = NewHandle
  OBVIOUS
<1>2. h \in Handle /\ ~Known(h)
  BY <1>1, NewHandleType DEF MakesFolder
<1>3. UNCHANGED <<gen, area>> /\ \A x \in Handle : x # h => phone'[x] = phone[x]
  BY <1>1, <1>2 DEF MakesFolder, StateInv, StateOK
<1>4. origins[gen][h] = None
  BY <1>2 DEF Known
<1>5. Origins'
  BY <1>2, <1>3, <1>4 DEF Origins, area
<1> QED BY <1>2, <1>3, <1>5 DEF Settled, area

LEMMA RenamesStagedSettles ==
  ASSUME StateInv, Origins, NEW j \in Job, RenamesStaged(j)
  PROVE  Origins' /\ Settled
<1>1. PICK i \in File : /\ staged[i] \in Staged /\ staged[i] # None
                        /\ staged' = [staged EXCEPT ![i].parent = ParentIn(job[j].call.to),
                                                    ![i].name = job[j].call.toName,
                                                    ![i].dirty = TRUE]
  BY Apart DEF RenamesStaged, StateInv, StateOK
<1>2. UNCHANGED <<gen, phone, files, origins>>
  BY DEF RenamesStaged
<1>3. PICK f : f = [staged[i] EXCEPT !.parent = ParentIn(job[j].call.to),
                                     !.name = job[j].call.toName, !.dirty = TRUE]
  OBVIOUS
<1>4. staged' = [staged EXCEPT ![i] = f]
  BY <1>1, <1>3
<1>5. f.gen = staged[i].gen /\ f.remote = staged[i].remote /\ f.doc = staged[i].doc
  BY <1>1, <1>3 DEF Staged
<1>6. staged'[i] = f /\ staged'[i] # None /\ \A x \in File : x # i => staged'[x] = staged[x]
  <2>1. Lasts
    BY RenamesStagedKeepsTypes
  <2> QED BY <1>1, <1>4, <2>1 DEF StateInv, StateOK, Lasts
<1>7. \A x \in File : /\ staged[x] = None <=> staged'[x] = None
                      /\ staged[x] # None => /\ staged'[x].gen = staged[x].gen
                                             /\ staged'[x].remote = staged[x].remote
                                             /\ staged'[x].doc = staged[x].doc
  BY <1>1, <1>5, <1>6
<1>8. \A h \in Handle : phone'[h] # None /\ origins[gen][h] # None => origins[gen][h] \in files'
  BY <1>2 DEF Origins
<1> QED BY <1>2, <1>7, <1>8, SameFilesSettle

LEMMA MovesSettles ==
  ASSUME StateInv, Origins, NEW j \in Job, Moves(j) \/ Renames(j)
  PROVE  Origins' /\ Settled
<1>1. UNCHANGED <<gen, area>>
  BY DEF Moves, Renames, bounds
<1>2. PICK h \in Handle : /\ phone[h] # None /\ phone[h] \in Object
                          /\ \/ phone' = [phone EXCEPT ![h].parent = job[j].call.to]
                             \/ phone' = [phone EXCEPT ![h].name = job[j].call.toName]
  BY DEF Moves, Renames, Movable, Exists, StateInv, StateOK
<1>3. PICK o : o \in {[phone[h] EXCEPT !.parent = job[j].call.to],
                      [phone[h] EXCEPT !.name = job[j].call.toName]}
               /\ phone' = [phone EXCEPT ![h] = o]
  BY <1>2
<1>4. o.doc = phone[h].doc /\ o.folder = phone[h].folder
  BY <1>2, <1>3 DEF Object
<1>5. \A x \in Handle : phone'[x] # None => /\ phone[x] # None
                                            /\ phone'[x].doc = phone[x].doc
                                            /\ phone'[x].folder = phone[x].folder
  BY <1>2, <1>3, <1>4 DEF StateInv, StateOK
<1>6. \A x \in Handle : phone'[x] # None /\ origins[gen][x] # None => origins[gen][x] \in files'
  BY <1>1, <1>5 DEF Origins, area
<1> QED BY <1>1, <1>5, <1>6, SameFilesSettle DEF area

LEMMA WriteSettles ==
  ASSUME StateInv, Origins, NEW j \in Job, Write(j)
  PROVE  Origins' /\ Settled
<1> DEFINE node == job[j].node
           i == Overlay(node)
           k == CHOOSE x \in File : staged[x] = None
           o == phone[node.object]
           f == [gen |-> node.gen, storage |-> StorageOf(o.parent), parent |-> ParentIn(o.parent),
                 name |-> o.name, remote |-> node.object, dirty |-> TRUE, doc |-> o.doc]
<1>1. UNCHANGED <<gen, phone>>
  BY DEF Write
<1>2. node \in Node
  BY DEF StateInv, StateOK, Fits, CallRecord, Write
<1>3. CASE UNCHANGED area
  BY <1>1, <1>3, QuietSettles
<1>4. CASE staged' = [staged EXCEPT ![i].dirty = TRUE] /\ i \in files /\ UNCHANGED <<files, origins>>
  <2> HIDE DEF i, k, o, f
  <2>1. i \in File /\ staged[i] \in Staged /\ staged[i] # None
    BY <1>4, Apart DEF StateInv, StateOK
  <2>2. PICK f1 : f1 = [staged[i] EXCEPT !.dirty = TRUE]
    OBVIOUS
  <2>3. f1 \in Staged /\ f1 # None /\ f1.gen = staged[i].gen /\ f1.doc = staged[i].doc
        /\ f1.remote = staged[i].remote
    BY <2>1, <2>2, Apart DEF Staged
  <2>4. staged' = [staged EXCEPT ![i] = f1]
    BY <1>4, <2>2
  <2>5. \A x \in File : /\ staged[x] = None <=> staged'[x] = None
                        /\ staged[x] # None => /\ staged'[x].gen = staged[x].gen
                                               /\ staged'[x].remote = staged[x].remote
                                               /\ staged'[x].doc = staged[x].doc
    BY <2>1, <2>3, <2>4 DEF StateInv, StateOK
  <2>6. \A h \in Handle : phone'[h] # None /\ origins[gen][h] # None => origins[gen][h] \in files'
    BY <1>1, <1>4 DEF Origins
  <2> QED BY <1>1, <1>4, <2>5, <2>6, SameFilesSettle
<1>5. CASE /\ i = None /\ Exists(node.object) /\ ~o.folder /\ \E x \in File : staged[x] = None
           /\ staged' = [staged EXCEPT ![k] = f] /\ files' = files \cup {k}
           /\ origins' = [origins EXCEPT ![node.gen][node.object] = k]
  <2>1. k \in File /\ staged[k] = None
    BY <1>5
  <2>2. node.gen \in Generation /\ node.object \in Handle
    <3>1. node \notin File
      BY <1>5, Apart DEF Overlay
    <3> QED BY <1>2, <3>1 DEF Node
  <2>3. phone[node.object] # None /\ origins[node.gen][node.object] = None
    <3>1. node \notin File
      BY <1>5, Apart DEF Overlay
    <3> QED BY <1>5, <3>1 DEF Exists, Overlay
  <2>4. f.gen = node.gen /\ f.remote = node.object /\ f.doc = phone[node.object].doc
        /\ ~phone[node.object].folder
    BY <1>5
  <2> HIDE DEF i, k, o, f, node
  <2>5. staged'[k] = f /\ \A x \in File : x # k => staged'[x] = staged[x]
    BY <1>5, <2>1 DEF StateInv, StateOK
  <2>6. /\ \A g \in Generation, h \in Handle : origins'[g][h] =
             IF g = node.gen /\ h = node.object THEN k ELSE origins[g][h]
        /\ gen \in Generation
    BY <1>5, <2>1, <2>2 DEF StateInv, StateOK
  <2>7. \A h \in Handle : origins[gen][h] # None =>
          origins[gen][h] \in File /\ staged[origins[gen][h]] # None
    BY DEF StateInv, StateOK, Past
  <2>8. ASSUME NEW x \in File, staged'[x] # None, staged'[x].gen = gen, staged'[x].remote # None
        PROVE  origins'[gen][staged'[x].remote] = x
    <3>1. CASE x = k
      BY <2>2, <2>4, <2>5, <2>6, <2>8, <3>1
    <3>2. CASE x # k
      <4>1. staged[x] # None /\ staged[x].gen = gen /\ staged[x].remote # None
            /\ staged'[x].remote = staged[x].remote
        BY <2>5, <2>8, <3>2
      <4>2. origins[gen][staged[x].remote] = x /\ staged[x].remote \in Handle
        BY <4>1 DEF Origins, StateInv, StateOK, Staged
      <4>3. ~(gen = node.gen /\ staged[x].remote = node.object)
        BY <2>3, <4>2, Apart
      <4> QED BY <2>6, <4>1, <4>2, <4>3
    <3> QED BY <3>1, <3>2
  <2>9. ASSUME NEW h \in Handle, phone[h] # None, origins'[gen][h] # None
        PROVE  /\ origins'[gen][h] \in files' /\ ~phone[h].folder
               /\ staged'[origins'[gen][h]].remote = h
               /\ staged'[origins'[gen][h]].doc = phone[h].doc
    <3>1. CASE gen = node.gen /\ h = node.object
      BY <1>5, <2>4, <2>5, <2>6, <3>1
    <3>2. CASE ~(gen = node.gen /\ h = node.object)
      <4>1. origins'[gen][h] = origins[gen][h]
        BY <2>6, <3>2
      <4>2. /\ origins[gen][h] \in File /\ origins[gen][h] # k
            /\ staged'[origins[gen][h]] = staged[origins[gen][h]]
        BY <2>1, <2>5, <2>7, <2>9, <4>1
      <4> QED BY <1>5, <2>9, <4>1, <4>2 DEF Origins
    <3> QED BY <3>1, <3>2
  <2>10. Origins'
    BY <1>1, <2>8, <2>9 DEF Origins
  <2>11. Settled
    BY <1>1, <2>3, <2>4, <2>5, <2>6 DEF Settled
  <2> QED BY <2>10, <2>11
<1>6. CASE i # None
  BY <1>3, <1>4, <1>6 DEF Write, area
<1>7. CASE i = None
  <2>1. UNCHANGED area \/
          /\ Exists(node.object) /\ ~o.folder /\ \E x \in File : staged[x] = None
          /\ staged' = [staged EXCEPT ![k] = f] /\ files' = files \cup {k}
          /\ origins' = [origins EXCEPT ![node.gen][node.object] = k]
    BY <1>7 DEF Write
  <2> QED BY <1>3, <1>5, <1>7, <2>1
<1> QED BY <1>6, <1>7

LEMMA CommitIs ==
  ASSUME StateInv, NEW i \in File, Commit(i)
  PROVE  LET h == NewHandle IN
         /\ h \in Handle /\ ~Known(h) /\ phone[h] = None /\ origins[gen][h] = None
         /\ i \in files' /\ staged[i] # None /\ staged[i].gen \in Generation
         /\ UNCHANGED <<gen, files>>
         /\ staged'[i] # None /\ staged'[i].gen = staged[i].gen /\ staged'[i].remote = h
         /\ staged'[i].doc = staged[i].doc /\ ~staged'[i].dirty
         /\ \A x \in File : x # i => staged'[x] = staged[x]
         /\ \A g \in Generation, x \in Handle : origins'[g][x] =
              IF g = staged[i].gen /\ x = h THEN i ELSE origins[g][x]
         /\ \A x \in Handle : x # h /\ phone'[x] # None =>
              phone[x] # None /\ phone'[x] = phone[x] /\ x # staged[i].remote
         /\ phone'[h] # None => phone'[h].doc = staged[i].doc /\ ~phone'[h].folder
<1>1. PICK h : h = NewHandle
  OBVIOUS
<1>2. /\ WithNew(i) \in Objects
      /\ h \in Handle /\ ~Known(h) /\ phone[h] = None
      /\ \A x \in Handle : x # h => WithNew(i)[x] = phone[x]
      /\ WithNew(i)[h] # None /\ ~WithNew(i)[h].folder
      /\ WithNew(i)[h].doc = staged[i].doc
      /\ staged[i] \in Staged /\ staged[i] # None /\ staged[i].remote \in Handle \cup {None}
      /\ phone' = Without(WithNew(i), staged[i].remote)
  BY <1>1, WithNewIs
<1>3. \A x \in Handle : phone'[x] # None =>
        WithNew(i)[x] # None /\ phone'[x] = WithNew(i)[x] /\ x # staged[i].remote
  BY <1>2, WithoutIs
<1>4. PICK f : f = [staged[i] EXCEPT !.remote = h, !.dirty = FALSE]
  OBVIOUS
<1>5. f \in Staged /\ f # None /\ f.gen = staged[i].gen /\ f.remote = h
      /\ f.doc = staged[i].doc /\ ~f.dirty
  BY <1>2, <1>4, Apart DEF Staged
<1>6. staged'[i] = f /\ \A x \in File : x # i => staged'[x] = staged[x]
  <2>1. staged' = [staged EXCEPT ![i] = f]
    BY <1>1, <1>4 DEF Commit
  <2> QED BY <2>1 DEF StateInv, StateOK
<1>7. staged[i].gen \in Generation
  BY <1>2 DEF Staged
<1>8. \A g \in Generation, x \in Handle : origins'[g][x] =
        IF g = staged[i].gen /\ x = h THEN i ELSE origins[g][x]
  BY <1>1, <1>2, <1>7 DEF Commit, StateInv, StateOK
<1>9. origins[gen][h] = None
  BY <1>2 DEF Known
<1>10. i \in files' /\ UNCHANGED <<gen, files>>
  BY DEF Commit
<1> QED BY <1>1, <1>2, <1>3, <1>5, <1>6, <1>7, <1>8, <1>9, <1>10

LEMMA CommitSettles ==
  ASSUME StateInv, Origins, NEW i \in File, Commit(i)
  PROVE  Origins' /\ Settled
<1>1. PICK h : h = NewHandle
  OBVIOUS
<1>2. /\ h \in Handle /\ ~Known(h) /\ phone[h] = None /\ origins[gen][h] = None
      /\ i \in files' /\ staged[i] # None /\ staged[i].gen \in Generation
      /\ UNCHANGED <<gen, files>>
      /\ staged'[i] # None /\ staged'[i].gen = staged[i].gen /\ staged'[i].remote = h
      /\ staged'[i].doc = staged[i].doc
      /\ \A x \in File : x # i => staged'[x] = staged[x]
      /\ \A g \in Generation, x \in Handle : origins'[g][x] =
           IF g = staged[i].gen /\ x = h THEN i ELSE origins[g][x]
      /\ \A x \in Handle : x # h /\ phone'[x] # None =>
           phone[x] # None /\ phone'[x] = phone[x] /\ x # staged[i].remote
      /\ phone'[h] # None => phone'[h].doc = staged[i].doc /\ ~phone'[h].folder
  BY <1>1, CommitIs
<1>3. gen \in Generation
  BY DEF StateInv, StateOK
<1>4. ASSUME NEW x \in File, staged'[x] # None, staged'[x].gen = gen, staged'[x].remote # None
      PROVE  origins'[gen][staged'[x].remote] = x
  <2>1. CASE x = i
    BY <1>2, <1>3, <1>4, <2>1
  <2>2. CASE x # i
    <3>1. /\ staged'[x].remote = staged[x].remote /\ staged[x].remote \in Handle
          /\ origins[gen][staged[x].remote] = x
      BY <1>2, <1>4, <2>2 DEF Origins, StateInv, StateOK, Staged
    <3>2. staged[x].remote # h
      BY <1>2, <3>1, Apart
    <3> QED BY <1>2, <1>3, <3>1, <3>2
  <2> QED BY <2>1, <2>2
<1>5. ASSUME NEW x \in Handle, phone'[x] # None, origins'[gen][x] # None
      PROVE  /\ origins'[gen][x] \in files' /\ ~phone'[x].folder
             /\ staged'[origins'[gen][x]].remote = x
             /\ staged'[origins'[gen][x]].doc = phone'[x].doc
  <2>1. CASE x = h
    <3>1. origins'[gen][x] = i
      BY <1>2, <1>3, <1>5, <2>1
    <3> QED BY <1>2, <1>5, <2>1, <3>1
  <2>2. CASE x # h
    <3>1. /\ phone[x] # None /\ phone'[x] = phone[x] /\ x # staged[i].remote
          /\ origins'[gen][x] = origins[gen][x]
      BY <1>2, <1>3, <1>5, <2>2
    <3>2. /\ origins[gen][x] \in files /\ ~phone[x].folder
          /\ staged[origins[gen][x]].remote = x
          /\ staged[origins[gen][x]].doc = phone[x].doc
      BY <1>5, <3>1 DEF Origins
    <3>3. origins[gen][x] \in File /\ origins[gen][x] # i
      BY <3>1, <3>2 DEF StateInv, StateOK
    <3> QED BY <1>2, <3>1, <3>2, <3>3
  <2> QED BY <2>1, <2>2
<1>6. Origins'
  BY <1>2, <1>4, <1>5 DEF Origins
<1>7. Settled
  <2> SUFFICES ASSUME NEW x \in Handle, Known(x)
               PROVE  /\ phone'[x] # None => phone[x] # None /\ phone'[x].doc = phone[x].doc
                      /\ origins'[gen][x] = origins[gen][x]
    BY DEF Settled
  <2>1. x # h
    BY <1>2
  <2> QED BY <1>2, <1>3, <2>1
<1> QED BY <1>6, <1>7

LEMMA ReplugSettles ==
  ASSUME StateInv, Origins, NEW old \in Renumbering, Replug(old)
  PROVE  Origins' /\ Settled
<1>1. UNCHANGED area /\ gen' = gen + 1 /\ gen \in Nat /\ gen' # gen
  BY BoundAssumption DEF Replug, StateInv, StateOK, Generation
<1>2. gen' \in Generation
  BY ReplugKeepsTypes DEF StateInv, StateOK
<1>3. \A i \in File : staged[i] # None => staged[i].gen # gen'
  <2>1. \A i \in File : staged[i] # None => staged[i].gen <= gen /\ staged[i].gen \in Nat
    BY Apart DEF StateInv, StateOK, Past, Staged, Generation
  <2> QED BY <1>1, <2>1
<1>4. \A h \in Handle : origins[gen'][h] = None
  <2>1. ~(gen' <= gen)
    BY <1>1
  <2> QED BY <1>2, <2>1 DEF StateInv, Past
<1>5. Origins'
  BY <1>1, <1>3, <1>4 DEF Origins, area
<1> QED BY <1>1, <1>5 DEF Settled

LEMMA StepSettles ==
  ASSUME StateInv, Origins, Step
  PROVE  Origins' /\ Settled
<1>1. ASSUME NEW j \in Job, Continues(j) PROVE Origins' /\ Settled
  <2>1. ASSUME RemoveObject(j) PROVE Origins' /\ Settled
    <3>1. job[j].node \in Node /\ UNCHANGED <<gen, staged, origins, used>>
      BY <2>1 DEF RemoveObject, StateInv, StateOK, Fits, CallRecord
    <3>2. CASE UNCHANGED <<phone, files>>
      BY <3>1, <3>2, QuietSettles DEF area
    <3>3. CASE Removable(job[j].node, FALSE) /\ Discards(job[j].node)
      BY <3>1, <3>3, DiscardsSettles
    <3> QED BY <2>1, <3>2, <3>3 DEF RemoveObject
  <2>2. ASSUME Clear(j) PROVE Origins' /\ Settled
    <3>1. job[j].victim \in Node /\ UNCHANGED <<gen, staged, origins, used>>
      BY <2>2 DEF Clear, StateInv, StateOK, Fits, CallRecord
    <3>2. CASE UNCHANGED <<phone, files>>
      BY <3>1, <3>2, QuietSettles DEF area
    <3>3. CASE Removable(job[j].victim, TRUE) /\ Discards(job[j].victim)
      BY <3>1, <3>3, DiscardsSettles
    <3> QED BY <2>2, <3>2, <3>3 DEF Clear
  <2>3. ASSUME UNCHANGED <<gen, phone, area>> PROVE Origins' /\ Settled
    BY <2>3, QuietSettles
  <2>4. ReadAnswers(j) \/ ReadRefused(j) \/ Read(j) \/ TargetFound(j) \/ TargetMissing(j)
          \/ RenameFails(j) => UNCHANGED <<gen, phone, area>>
    BY DEF ReadAnswers, ReadRefused, Read, TargetFound, TargetMissing, RenameFails
  <2> QED BY <1>1, <2>1, <2>2, <2>3, <2>4, CreatesSettles, MakesFolderSettles, WriteSettles,
             RenamesStagedSettles, MovesSettles DEF Continues
<1>2. ASSUME UNCHANGED <<gen, phone, area>> PROVE Origins' /\ Settled
  BY <1>2, QuietSettles
<1>3. ASSUME NEW j \in Job, NEW call \in Call(Folder), Found(j, call) \/ NotFound(j, call)
      PROVE  UNCHANGED <<gen, phone, area>>
  BY <1>3 DEF Found, NotFound
<1>4. ASSUME ReadsDirectory PROVE UNCHANGED <<gen, phone, area>>
  BY <1>4, ReadingLeaves
<1> QED BY <1>1, <1>2, <1>3, <1>4, CommitSettles, ReplugSettles DEF Step

\* A handle that a call keeps stands for what it stood for.
LEMMA AtStays ==
  ASSUME StateInv, Lasts, Settled, NEW node \in Node, NEW docs, At(node, docs),
         node \in File \/ (gen' = gen /\ node.gen = gen /\ Known(node.object)),
         node \in File => staged[node] # None
  PROVE  At(node, docs)'
<1>1. CASE node \in File
  BY <1>1, Apart DEF At, Overlay, Lasts
<1>2. CASE node \notin File
  <2>1. node.gen \in Generation /\ node.object \in Handle
    BY <1>2 DEF Node
  <2>2. PICK h \in Handle : h = node.object
    BY <2>1
  <2>3. /\ phone'[h] # None => phone[h] # None /\ phone'[h].doc = phone[h].doc
        /\ origins[gen][h] # None => origins'[gen][h] = origins[gen][h]
        /\ origins[gen][h] = None /\ origins'[gen][h] # None =>
             phone[h] # None /\ staged'[origins'[gen][h]].doc = phone[h].doc
    BY <1>2, <2>2 DEF Settled
  <2>4. Overlay(node) = origins[gen][h] /\ Overlay(node)' = origins'[gen][h]
    BY <1>2, <2>2 DEF Overlay
  <2>5. CASE origins[gen][h] # None
    <3>1. /\ origins[gen][h] \in File /\ staged[origins[gen][h]] # None
          /\ origins'[gen][h] = origins[gen][h]
      BY <1>2, <2>3, <2>5 DEF StateInv, StateOK, Past
    <3> QED BY <2>4, <2>5, <3>1 DEF At, Lasts
  <2>6. CASE origins[gen][h] = None
    <3>1. phone[h] # None => phone[h].doc \in docs
      BY <2>2, <2>4, <2>6 DEF At
    <3> QED BY <2>2, <2>3, <2>4, <2>6, <3>1 DEF At
  <2> QED BY <2>5, <2>6
<1> QED BY <1>1, <1>2

\* A call that does nothing goes on aiming where it did.
LEMMA AimsStay ==
  ASSUME StateInv, Lasts, Settled, NEW j \in Job, NEW q, q = job[j], Aims(q)
  PROVE  Aims(q)'
<1>1. q \in CallRecord /\ Fits(q)
  BY DEF StateInv, StateOK
<1>2. gen \in Nat /\ q.gen \in Nat /\ q.gen <= gen /\ (gen' = gen \/ q.gen # gen')
  BY <1>1, BoundAssumption DEF StateInv, StateOK, Generation, CallRecord, Fits, Lasts
<1>3. ASSUME NEW node \in {q.node, q.victim}, node # None
      PROVE  /\ node \in Node /\ (node \in File => staged[node] # None)
             /\ q.gen = gen => node \in File \/ (node.gen = gen /\ Known(node.object))
  <2>1. node \in Node /\ Keeps(q, node)
    BY <1>1, <1>3 DEF CallRecord, Fits
  <2>2. node \in File => staged[node] # None
    BY <2>1 DEF Keeps
  <2>3. ASSUME q.gen = gen, node \notin File PROVE node.gen = gen /\ Known(node.object)
    <3>1. node \in [gen : Generation, object : Handle] /\ node.gen = gen
      BY <2>1, <2>3 DEF Node, Keeps
    <3>2. node = [gen |-> gen, object |-> node.object]
      BY <3>1
    <3> QED BY <1>3, <2>3, <3>1, <3>2 DEF Known
  <2> QED BY <2>1, <2>2, <2>3
<1>4. q.pc \in {"remove", "clear", "read", "attrs"} => q.node # None
  BY <1>1 DEF Fits
<1>5. q.pc = "clear" => q.victim # None
  BY <1>1 DEF Fits
<1>6. ASSUME q.gen = gen', q.pc = "remove" PROVE At(q.node, q.aimed)'
  <2>1. q.gen = gen /\ gen' = gen /\ At(q.node, q.aimed)
    BY <1>2, <1>6 DEF Aims
  <2> QED BY <1>3, <1>4, <1>6, <2>1, AtStays
<1>7. ASSUME q.gen = gen', q.pc = "clear" PROVE At(q.victim, q.aimed)'
  <2>1. q.gen = gen /\ gen' = gen /\ At(q.victim, q.aimed)
    BY <1>2, <1>7 DEF Aims
  <2> QED BY <1>3, <1>5, <1>7, <2>1, AtStays
<1>8. ASSUME q.gen = gen' \/ q.node \in File, q.pc \in {"read", "attrs"}
      PROVE  At(q.node, {q.doc})' /\ (q.pc = "attrs" => q.data = q.doc)
  <2>1. (q.gen = gen /\ gen' = gen) \/ q.node \in File
    BY <1>2, <1>8
  <2>2. At(q.node, {q.doc}) /\ (q.pc = "attrs" => q.data = q.doc)
    BY <1>8, <2>1 DEF Aims
  <2> QED BY <1>3, <1>4, <1>8, <2>1, <2>2, AtStays
<1> QED BY <1>6, <1>7, <1>8 DEF Aims

\* What a name is found to stand for is of the documents it denotes.
LEMMA FindsDenoted ==
  ASSUME StateInv, Origins, NEW d, NEW name, NEW node \in Find(gen, d, name)
  PROVE  At(node, Denoted(d, name)) /\ At(node, {DocAt(node)})
<1>1. gen \in Generation
  BY DEF StateInv, StateOK
<1>2. ASSUME NEW i \in StagedIn(gen, d), staged[i].name = name, node = NodeOf(i)
      PROVE  At(node, Denoted(d, name)) /\ At(node, {DocAt(node)})
  <2>1. i \in File /\ i \in files /\ i # None /\ staged[i] \in Staged /\ staged[i].gen = gen
        /\ staged[i] # None
    BY Apart DEF StagedIn, StateInv, StateOK
  <2>2. Overlay(node) = i
    <3>1. CASE staged[i].remote = None
      BY <1>2, <2>1, <3>1 DEF NodeOf, Overlay
    <3>2. CASE staged[i].remote # None
      <4>1. origins[gen][staged[i].remote] = i /\ staged[i].remote \in Handle
        BY <2>1, <3>2 DEF Origins, Staged
      <4>2. node = [gen |-> gen, object |-> staged[i].remote]
        BY <1>2, <2>1, <3>2 DEF NodeOf
      <4>3. node \notin File /\ node.gen = gen /\ node.object = staged[i].remote
        BY <1>1, <4>1, <4>2, NodeAssumption
      <4> QED BY <4>1, <4>3 DEF Overlay
    <3> QED BY <3>1, <3>2
  <2>3. staged[i].doc \in Denoted(d, name)
    BY <1>2 DEF Denoted, Named
  <2> QED BY <2>1, <2>2, <2>3 DEF At, DocAt
<1>3. ASSUME NEW h \in Children(d), phone[h].name = name, node = [gen |-> gen, object |-> h]
      PROVE  At(node, Denoted(d, name)) /\ At(node, {DocAt(node)})
  <2>1. h \in Handle /\ phone[h] # None
    BY DEF Children
  <2>2. node \notin File /\ node.gen = gen /\ node.object = h
    BY <1>1, <1>3, <2>1, NodeAssumption
  <2>3. Overlay(node) = origins[gen][h]
    BY <2>2 DEF Overlay
  <2>4. phone[h].doc \in Denoted(d, name)
    BY <1>3 DEF Denoted
  <2>5. CASE origins[gen][h] = None
    BY <2>1, <2>2, <2>3, <2>4, <2>5 DEF At, DocAt, Exists
  <2>6. CASE origins[gen][h] # None
    <3>1. origins[gen][h] \in files /\ staged[origins[gen][h]].doc = phone[h].doc
      BY <2>1, <2>6 DEF Origins
    <3> QED BY <2>3, <2>4, <2>6, <3>1 DEF At, DocAt
  <2> QED BY <2>5, <2>6
<1> QED BY <1>2, <1>3 DEF Find

LEMMA AtSame ==
  ASSUME UNCHANGED <<gen, phone, area>>, NEW node, NEW docs
  PROVE  At(node, docs)' <=> At(node, docs)
  BY DEF At, Overlay, area

\* A call either stays as it is, or has nothing in view, or has just looked something up.
LEMMA CallsTurn ==
  ASSUME StateInv, Step, NEW k \in Job
  PROVE  \/ job'[k] = job[k]
         \/ job'[k].pc \notin {"remove", "clear", "read", "attrs"}
         \/ \E call \in Call(Folder) : Found(k, call)
         \/ Read(k)
         \/ TargetFound(k)
<1> DEFINE Turns == \/ job'[k] = job[k]
                    \/ job'[k].pc \notin {"remove", "clear", "read", "attrs"}
                    \/ \E call \in Call(Folder) : Found(k, call)
                    \/ Read(k)
                    \/ TargetFound(k)
<1>1. job \in [Job -> CallRecord]
  BY DEF StateInv, StateOK
<1>2. ASSUME NEW j \in Job, Ends(j) PROVE Turns
  <2>1. CASE j = k
    <3>1. job'[k].pc = "idle"
      BY <1>1, <1>2, <2>1 DEF Ends, IdleJob
    <3> QED BY <3>1
  <2>2. CASE j # k
    <3>1. job'[k] = job[k]
      BY <1>1, <1>2, <2>2 DEF Ends
    <3> QED BY <3>1
  <2> QED BY <2>1, <2>2
<1>3. ASSUME NEW j \in Job, NEW pc \in {"rename", "name"}, To(j, pc) PROVE Turns
  <2>1. CASE j = k
    <3>1. job'[k].pc = pc
      BY <1>1, <1>3, <2>1 DEF To, CallRecord
    <3> QED BY <3>1
  <2>2. CASE j # k
    <3>1. job'[k] = job[k]
      BY <1>1, <1>3, <2>2 DEF To
    <3> QED BY <3>1
  <2> QED BY <2>1, <2>2
<1>4. ASSUME NEW j \in Job, Clear(j) PROVE Turns
  <2>1. CASE Ends(j)
    BY <1>2, <2>1
  <2>2. CASE job' = [job EXCEPT ![j].pc = "rename", ![j].victim = None]
    <3>1. CASE j = k
      <4>1. job'[k].pc = "rename"
        BY <1>1, <2>2, <3>1 DEF CallRecord
      <4> QED BY <4>1
    <3>2. CASE j # k
      <4>1. job'[k] = job[k]
        BY <1>1, <2>2, <3>2
      <4> QED BY <4>1
    <3> QED BY <3>1, <3>2
  <2> QED BY <1>4, <2>1, <2>2 DEF Clear
<1>5. ASSUME NEW j \in Job, j # k,
             Read(j) \/ TargetFound(j) \/ \E call \in Call(Folder) : Found(j, call)
      PROVE  job'[k] = job[k]
  BY <1>1, <1>5, ZenonT(60) DEF Read, TargetFound, Found, Goes
<1>6. ASSUME NEW j \in Job, NEW call \in Call(Folder), NotFound(j, call) PROVE Turns
  <2>1. PICK pc \in {"create", "mkdir"} : Goes(j, pc, call, None)
    BY <1>6 DEF NotFound
  <2>2. CASE j = k
    <3>1. job'[k].pc = pc
      BY <1>1, <2>1, <2>2 DEF Goes, IdleJob
    <3> QED BY <3>1
  <2>3. CASE j # k
    <3>1. job'[k] = job[k]
      BY <1>1, <2>1, <2>3 DEF Goes
    <3> QED BY <3>1
  <2> QED BY <2>2, <2>3
<1>7. ASSUME NEW j \in Job, Continues(j) PROVE Turns
  <2>1. CASE Ends(j) \/ To(j, "rename") \/ To(j, "name")
    BY <1>2, <1>3, <2>1
  <2>2. CASE Clear(j)
    BY <1>4, <2>2
  <2>3. CASE Read(j) \/ TargetFound(j)
    BY <1>5, <2>3
  <2> HIDE DEF Turns
  <2> QED BY <1>7, <2>1, <2>2, <2>3
          DEF Continues, Creates, MakesFolder, RemoveObject, Write, ReadAnswers, ReadRefused,
              TargetMissing, RenamesStaged, Moves, Renames, RenameFails
<1>8. ASSUME UNCHANGED job PROVE Turns
  BY <1>8
<1>9. ASSUME NEW j \in Job, NEW call \in Call(Folder), Found(j, call) PROVE Turns
  BY <1>5, <1>9
<1> HIDE DEF Turns
<1>10. ReadsDirectory \/ (\E i \in File : Commit(i)) \/ (\E old \in Renumbering : Replug(old))
         => UNCHANGED job
  BY ReadingLeaves DEF Commit, Replug
<1>11. Turns
  BY <1>6, <1>7, <1>8, <1>9, <1>10 DEF Step
<1> QED BY <1>11 DEF Turns

LEMMA FoundAims ==
  ASSUME StateInv, Origins, NEW j \in Job, NEW call \in Call(Folder), Found(j, call)
  PROVE  Aims(job[j])'
<1>1. UNCHANGED <<gen, phone, area>>
  BY DEF Found
<1>2. PICK node \in Find(gen, call.dir, call.name), pc \in {"read", "write", "remove", "target"} :
        Goes(j, pc, call, node)
  BY DEF Found
<1>3. At(node, Denoted(call.dir, call.name)) /\ At(node, {DocAt(node)})
  BY <1>2, FindsDenoted
<1>4. PICK aimed, doc : aimed = Denoted(call.dir, call.name) /\ doc = DocAt(node)
  OBVIOUS
<1>5. At(node, aimed)' /\ At(node, {doc})'
  BY <1>1, <1>3, <1>4, AtSame
<1>6. PICK r : r = job'[j]
  OBVIOUS
<1>7. /\ r.pc = pc /\ r.node = node
      /\ pc = "remove" => r.aimed = aimed
      /\ pc = "read" => r.doc = doc
  BY <1>2, <1>4, <1>6 DEF Goes, IdleJob, StateInv, StateOK
<1>8. Aims(r)'
  BY <1>5, <1>7 DEF Aims
<1> QED BY <1>6, <1>8

LEMMA ReadAims ==
  ASSUME StateInv, Origins, NEW j \in Job, Aims(job[j]), Read(j)
  PROVE  Aims(job[j])'
<1>1. UNCHANGED <<gen, phone, area>>
  BY DEF Read
<1>2. PICK q, r : q = job[j] /\ r = job'[j]
  OBVIOUS
<1>3. q \in CallRecord /\ q.pc = "read" /\ q.node \in Node
  BY <1>2 DEF Read, StateInv, StateOK, Fits, CallRecord
<1>4. CASE DocAt(q.node) = None
  <2>1. r.pc = "idle"
    BY <1>2, <1>4 DEF Read, IdleJob, StateInv, StateOK
  <2>2. Aims(r)'
    BY <2>1 DEF Aims
  <2> QED BY <1>2, <2>2
<1>5. CASE DocAt(q.node) # None
  <2>1. r = [q EXCEPT !.pc = "attrs", !.data = DocAt(q.node)]
    BY <1>2, <1>5 DEF Read, StateInv, StateOK
  <2>2. r.pc = "attrs" /\ r.data = DocAt(q.node) /\ r.node = q.node /\ r.gen = q.gen /\ r.doc = q.doc
    BY <1>3, <2>1 DEF CallRecord
  <2>3. ASSUME q.gen = gen \/ q.node \in File PROVE At(q.node, {q.doc})' /\ r.data = q.doc
    <3>1. At(q.node, {q.doc})
      BY <1>2, <1>3, <2>3 DEF Aims
    <3>2. DocAt(q.node) = q.doc
      BY <1>5, <3>1 DEF At, DocAt, Exists
    <3> QED BY <1>1, <2>2, <3>1, <3>2, AtSame
  <2>4. Aims(r)'
    BY <1>1, <2>2, <2>3 DEF Aims
  <2> QED BY <1>2, <2>4
<1> QED BY <1>4, <1>5

LEMMA TargetAims ==
  ASSUME StateInv, Origins, NEW j \in Job, TargetFound(j)
  PROVE  Aims(job[j])'
<1>1. UNCHANGED <<gen, phone, area>>
  BY DEF TargetFound
<1>2. PICK q, r : q = job[j] /\ r = job'[j]
  OBVIOUS
<1>3. q \in CallRecord
  BY <1>2 DEF StateInv, StateOK
<1>4. PICK node \in Find(q.gen, q.call.to, q.call.toName) :
        \/ r = [q EXCEPT !.pc = "rename"]
        \/ r = [q EXCEPT !.pc = "clear", !.victim = node,
                         !.aimed = Denoted(q.call.to, q.call.toName)]
  BY <1>2 DEF TargetFound, StateInv, StateOK
<1>5. CASE r = [q EXCEPT !.pc = "rename"]
  <2>1. r.pc = "rename"
    BY <1>3, <1>5 DEF CallRecord
  <2>2. Aims(r)'
    BY <2>1 DEF Aims
  <2> QED BY <1>2, <2>2
<1>6. CASE r = [q EXCEPT !.pc = "clear", !.victim = node,
                         !.aimed = Denoted(q.call.to, q.call.toName)]
  <2>1. PICK aimed : aimed = Denoted(q.call.to, q.call.toName)
    OBVIOUS
  <2>2. r.pc = "clear" /\ r.victim = node /\ r.aimed = aimed /\ r.gen = q.gen
    BY <1>3, <1>6, <2>1 DEF CallRecord
  <2>3. ASSUME q.gen = gen PROVE At(node, aimed)'
    <3>1. At(node, aimed)
      BY <1>4, <2>1, <2>3, FindsDenoted
    <3> QED BY <1>1, <3>1, AtSame
  <2>4. Aims(r)'
    BY <1>1, <2>2, <2>3 DEF Aims
  <2> QED BY <1>2, <2>4
<1> QED BY <1>4, <1>5, <1>6

LEMMA StepAims ==
  ASSUME StateInv, AimInv, Step
  PROVE  AimInv'
<1>1. Origins /\ Origins' /\ Settled /\ Lasts
  BY StepSettles, StepKeepsTypes DEF AimInv
<1>2. ASSUME NEW k \in Job PROVE Aims(job[k])'
  <2>1. Aims(job[k])
    BY DEF AimInv
  <2>2. CASE job'[k] = job[k]
    <3>1. PICK q : q = job[k] /\ q = job'[k]
      BY <2>2
    <3>2. Aims(q)'
      BY <1>1, <2>1, <3>1, AimsStay
    <3> QED BY <3>1, <3>2
  <2>3. CASE job'[k].pc \notin {"remove", "clear", "read", "attrs"}
    BY <2>3 DEF Aims
  <2> QED BY <1>1, <2>1, <2>2, <2>3, CallsTurn, FoundAims, ReadAims, TargetAims
<1> QED BY <1>1, <1>2 DEF AimInv

LEMMA InitAims == Init => AimInv
<1> SUFFICES ASSUME Init PROVE AimInv
  OBVIOUS
<1> DEFINE s == CHOOSE x \in Storage : TRUE
           h == CHOOSE f \in [1 .. 3 -> Handle] : \A a, b \in 1 .. 3 : f[a] = f[b] => a = b
           d == CHOOSE f \in [1 .. 3 -> Doc] : \A a, b \in 1 .. 3 : f[a] = f[b] => a = b
           i == CHOOSE x \in File : TRUE
<1>1. i \in File
  BY InitAssumption
<1>2. h \in [1 .. 3 -> Handle] /\ \A a, b \in 1 .. 3 : h[a] = h[b] => a = b
  BY InitAssumption
<1>3. phone[h[3]] = [parent |-> s, name |-> 3, folder |-> FALSE, doc |-> d[3]]
  <2>1. PICK p \in {s, h[1]} :
        phone = [x \in Handle |->
         IF x = h[1] THEN [parent |-> s, name |-> 1, folder |-> TRUE, doc |-> d[1]]
         ELSE IF x = h[2] THEN [parent |-> p, name |-> 2, folder |-> FALSE, doc |-> d[2]]
         ELSE IF x = h[3] THEN [parent |-> s, name |-> 3, folder |-> FALSE, doc |-> d[3]]
         ELSE None]
    BY DEF Init
  <2> HIDE DEF s, h, d, i
  <2>2. h[3] \in Handle /\ h[3] # h[1] /\ h[3] # h[2]
    BY <1>2
  <2> QED BY <2>1, <2>2
<1>4. /\ gen = 1
      /\ staged = [x \in File |->
           IF x = i THEN [gen |-> 1, storage |-> s, parent |-> Top, name |-> 3,
                          remote |-> h[3], dirty |-> FALSE, doc |-> d[3]]
           ELSE None]
      /\ files = {i}
      /\ origins = [g \in Generation |->
           [x \in Handle |-> IF g = 1 /\ x = h[3] THEN i ELSE None]]
      /\ job = [j \in Job |-> IdleJob]
  BY DEF Init
<1> HIDE DEF s, h, d, i
<1>5. h[3] \in Handle /\ 1 \in Generation
  BY <1>2, BoundAssumption DEF Generation
<1>6. staged[i].remote = h[3] /\ staged[i].doc = d[3]
  BY <1>1, <1>4
<1>7. phone[h[3]].doc = d[3] /\ ~phone[h[3]].folder
  BY <1>3
<1>8. \A x \in File : staged[x] # None => x = i
  BY <1>4
<1>9. \A x \in Handle : origins[1][x] = IF x = h[3] THEN i ELSE None
  BY <1>4, <1>5
<1>10. Origins
  BY <1>1, <1>4, <1>5, <1>6, <1>7, <1>8, <1>9 DEF Origins
<1>11. \A j \in Job : Aims(job[j])
  BY <1>4 DEF Aims, IdleJob
<1> QED BY <1>10, <1>11 DEF AimInv

LEMMA AimsAlways == Spec => [](TypeInv /\ AimInv)
<1>1. TypeInv /\ AimInv /\ [Next]_vars => (TypeInv /\ AimInv)'
  <2> SUFFICES ASSUME TypeInv, AimInv, [Next]_vars PROVE TypeInv' /\ AimInv'
    OBVIOUS
  <2>1. TypeInv'
    BY NextKeepsTypeInv
  <2>2. CASE Next
    BY <2>1, <2>2, StepAims DEF Next, TypeInv
  <2>3. CASE UNCHANGED vars
    BY <2>1, <2>3, ZenonT(60) DEF AimInv, Origins, Aims, At, Overlay, vars, area, bounds
  <2> QED BY <2>1, <2>2, <2>3
<1> QED BY <1>1, InitTypeInv, InitAims, PTL DEF Spec

\* A READ that answers has read the document that its handle was given for: a handle is not
\* given to another object of the session while a call keeps it, and of other sessions none
\* answers (nfs.rs read, attrs, ensure_generation).
THEOREM ReadsItsOwn == Spec => ReadsOwn
<1>1. TypeInv /\ AimInv => \A j \in Job : ReadAnswers(j) => job[j].data = job[j].doc
  <2> SUFFICES ASSUME TypeInv, AimInv, NEW j \in Job, ReadAnswers(j)
               PROVE  job[j].data = job[j].doc
    OBVIOUS
  <2>1. job[j].pc = "attrs" /\ Answers(job[j].node) /\ Fits(job[j]) /\ Aims(job[j])
    BY DEF ReadAnswers, TypeInv, StateInv, AimInv
  <2>2. Keeps(job[j], job[j].node)
    BY <2>1 DEF Fits
  <2>3. job[j].node \in File \/ job[j].gen = gen
    BY <2>1, <2>2 DEF Keeps, Answers
  <2> QED BY <2>1, <2>3 DEF Aims
<1>2. TypeInv /\ AimInv => [\A j \in Job : ReadAnswers(j) => job[j].data = job[j].doc]_vars
  BY <1>1
<1> QED BY <1>2, AimsAlways, PTL DEF ReadsOwn

-----------------------------------------------------------------------------
(* What a step takes away.                                                 *)

\* A removal takes what the call aimed at, and what is in it.
LEMMA DiscardsDoomed ==
  ASSUME StateInv, Origins, NEW j \in Job, job[j].gen = gen,
         NEW node \in Node, Keeps(job[j], node), At(node, job[j].aimed),
         NEW strict, Removable(node, strict), Discards(node), UNCHANGED <<gen, staged, origins, used>>,
         NEW d, Lives(d), ~Lives(d)'
  PROVE  d \in Doomed(j)
<1> DEFINE i == Overlay(node)
           g == IF i = None THEN node.object ELSE staged[i].remote
<1>1. phone' = Without(phone, g) /\ files' = files \ {i}
  BY DEF Discards
<1>2. i # None => i \in files /\ i \in File /\ staged[i] \in Staged /\ staged[i] # None
                  /\ staged[i].gen = gen /\ staged[i].doc \in job[j].aimed
  <2> SUFFICES ASSUME i # None
               PROVE  /\ i \in files /\ i \in File /\ staged[i] \in Staged /\ staged[i] # None
                      /\ staged[i].gen = gen /\ staged[i].doc \in job[j].aimed
    OBVIOUS
  <2>1. i \in files /\ i \in File /\ staged[i] \in Staged /\ staged[i] # None
    BY Apart DEF Removable, StateInv, StateOK
  <2>2. staged[i].gen = gen
    <3>1. CASE node \in File
      BY <3>1 DEF Keeps, Overlay
    <3>2. CASE node \notin File
      <4>1. node.gen = gen /\ node.object \in Handle /\ gen \in Generation
        BY <3>2 DEF Keeps, Node, StateInv, StateOK
      <4>2. i = origins[gen][node.object]
        BY <3>2, <4>1 DEF Overlay
      <4> QED BY <4>1, <4>2 DEF StateInv, Past
    <3> QED BY <3>1, <3>2
  <2> QED BY <2>1, <2>2 DEF At
<1>3. i = None => g \in Handle /\ phone[g] # None /\ phone[g].doc \in job[j].aimed
  BY DEF Removable, Exists, At
<1>4. ASSUME i # None, g # None
      PROVE  /\ g \in Handle /\ phone[g] # None /\ ~phone[g].folder
             /\ phone[g].doc \in job[j].aimed
  <2>1. g \in Handle /\ g = staged[i].remote /\ phone[g] # None
    BY <1>2, <1>4 DEF Staged, Removable, Exists
  <2> HIDE DEF i, g
  <2> QED BY <1>2, <1>4, <2>1, OwnFile
<1>5. g \in Handle \cup {None}
  BY <1>3, <1>4
<1> HIDE DEF i, g
<1>6. CASE \E k \in files : staged[k].doc = d
  <2>1. PICK k \in files : staged[k].doc = d
    BY <1>6
  <2>2. k = i
    BY <1>1, <2>1 DEF Lives
  <2>3. i # None
    BY <2>2, Apart DEF StateInv, StateOK
  <2> QED BY <1>2, <2>1, <2>2, <2>3 DEF Doomed
<1>7. CASE \E h \in Handle : Exists(h) /\ phone[h].doc = d
  <2>1. PICK h \in Handle : phone[h] # None /\ phone[h].doc = d
    BY <1>7 DEF Exists
  <2>2. phone \in Objects
    BY DEF StateInv, StateOK, Objects
  <2>3. phone'[h] = IF h = g \/ phone[h].parent = g THEN None ELSE phone[h]
    BY <1>1, <1>5, <2>1, <2>2, WithoutIs
  <2>4. h = g \/ phone[h].parent = g
    BY <2>1, <2>3 DEF Lives, Exists
  <2>5. g \in Handle /\ phone[g] # None /\ phone[g].doc \in job[j].aimed
    <3>1. phone[h].parent # None
      BY <2>1, <2>2, WithoutIs
    <3>2. g # None
      BY <2>4, <3>1, Apart
    <3> QED BY <1>3, <1>4, <3>2
  <2>6. CASE h = g
    BY <2>1, <2>5, <2>6 DEF Doomed
  <2>7. CASE phone[h].parent = g
    <3>1. h \in {x \in Handle : /\ Exists(x) /\ Exists(phone[x].parent)
                                /\ phone[phone[x].parent].doc \in job[j].aimed}
      BY <2>1, <2>5, <2>7 DEF Exists
    <3> QED BY <2>1, <3>1 DEF Doomed
  <2> QED BY <2>4, <2>6, <2>7
<1> QED BY <1>6, <1>7 DEF Lives

\* A commit takes what the new object replaces.
LEMMA CommitLosesNothing ==
  ASSUME StateInv, Origins, NEW i \in File, Commit(i), staged[i].gen = gen, NEW d, Lives(d)
  PROVE  Lives(d)'
<1>1. PICK h : h = NewHandle
  OBVIOUS
<1>2. /\ WithNew(i) \in Objects
      /\ h \in Handle /\ phone[h] = None
      /\ \A x \in Handle : x # h => WithNew(i)[x] = phone[x]
      /\ staged[i] # None /\ staged[i].remote \in Handle \cup {None}
      /\ phone' = Without(WithNew(i), staged[i].remote)
  BY <1>1, WithNewIs
<1>3. i \in files' /\ UNCHANGED files /\ Lasts
  BY CommitKeepsTypes DEF Commit
<1>4. \A k \in files : k \in files' /\ staged'[k].doc = staged[k].doc
  BY <1>3 DEF Lasts, StateInv, StateOK
<1>5. CASE \E k \in files : staged[k].doc = d
  BY <1>4, <1>5 DEF Lives
<1>6. ASSUME NEW x \in Handle, phone[x] # None, phone[x].doc = d PROVE Lives(d)'
  <2>1. x # h /\ WithNew(i)[x] = phone[x]
    BY <1>2, <1>6
  <2>2. phone'[x] = IF x = staged[i].remote \/ phone[x].parent = staged[i].remote
                    THEN None ELSE phone[x]
    BY <1>2, <1>6, <2>1, WithoutIs, SMTT(30)
  <2>3. CASE phone'[x] = phone[x]
    BY <1>6, <2>3 DEF Lives, Exists
  <2>4. CASE x = staged[i].remote
    <3>1. staged[i].doc = d
      BY <1>2, <1>6, <2>4, OwnFile
    <3> QED BY <1>3, <1>4, <3>1 DEF Lives
  <2>5. CASE phone[x].parent = staged[i].remote
    <3>1. phone[x] \in Object /\ phone[x].parent # None
      BY <1>6, Apart DEF StateInv, StateOK, Object, Dir
    <3>2. staged[i].remote \in Handle
      BY <1>2, <2>5, <3>1
    <3>3. phone[staged[i].remote] # None /\ phone[staged[i].remote].folder
      BY <1>6, <2>5, <3>2, Apart DEF StateInv, Forest
    <3>4. ~phone[staged[i].remote].folder
      BY <1>2, <3>2, <3>3, OwnFile
    <3> QED BY <3>3, <3>4
  <2> QED BY <2>2, <2>3, <2>4, <2>5
<1> QED BY <1>5, <1>6 DEF Lives, Exists

\* Nothing else takes anything away.
LEMMA LivesOn ==
  ASSUME StateInv, Lasts, files \subseteq files',
         \A h \in Handle : phone[h] # None =>
           \E x \in Handle : phone'[x] # None /\ phone'[x].doc = phone[h].doc,
         NEW d, Lives(d)
  PROVE  Lives(d)'
<1>1. \A k \in files : k \in files' /\ staged'[k].doc = staged[k].doc
  BY DEF Lasts, StateInv, StateOK
<1> QED BY <1>1 DEF Lives, Exists

LEMMA StepLosesDoomed ==
  ASSUME StateInv, AimInv, Step, NEW d, Lives(d), ~Lives(d)'
  PROVE  \/ \E j \in Job : job'[j] # job[j] /\ d \in Doomed(j)
         \/ OfEarlierSession
<1> DEFINE Shown == \/ \E j \in Job : job'[j] # job[j] /\ d \in Doomed(j)
                    \/ OfEarlierSession
<1>1. Lasts /\ Origins /\ job \in [Job -> CallRecord]
  BY StepKeepsTypes DEF AimInv, StateInv, StateOK
<1>2. ASSUME files \subseteq files', \A h \in Handle : phone[h] # None =>
               \E x \in Handle : phone'[x] # None /\ phone'[x].doc = phone[h].doc
      PROVE  FALSE
  BY <1>1, <1>2, LivesOn
<1>3. ASSUME UNCHANGED <<phone, area>> PROVE FALSE
  BY <1>2, <1>3 DEF area
<1>4. ASSUME NEW j \in Job, RemoveObject(j) PROVE Shown
  <2>1. job[j].pc = "remove" /\ Ends(j) /\ UNCHANGED <<gen, staged, origins, used>>
    BY <1>4 DEF RemoveObject
  <2>2. job'[j].pc = "idle"
    BY <1>1, <2>1 DEF Ends, IdleJob
  <2>3. job'[j] # job[j]
    BY <2>1, <2>2
  <2>4. CASE job[j].gen # gen
    BY <2>3, <2>4 DEF OfEarlierSession
  <2>5. CASE job[j].gen = gen
    <3>1. Removable(job[j].node, FALSE) /\ Discards(job[j].node)
      BY <1>3, <1>4, <2>1 DEF RemoveObject, area
    <3>2. job[j].node \in Node /\ Keeps(job[j], job[j].node)
      BY <1>1, <2>1 DEF StateInv, Fits, CallRecord
    <3>3. At(job[j].node, job[j].aimed)
      BY <2>1, <2>5 DEF AimInv, Aims
    <3>4. d \in Doomed(j)
      BY <1>1, <2>1, <2>5, <3>1, <3>2, <3>3, DiscardsDoomed
    <3> QED BY <2>3, <3>4
  <2> QED BY <2>4, <2>5
<1>5. ASSUME NEW j \in Job, Clear(j) PROVE Shown
  <2>1. job[j].pc = "clear" /\ UNCHANGED <<gen, staged, origins, used>>
    BY <1>5 DEF Clear
  <2>2. job'[j].pc \in {"idle", "rename"}
    <3>1. CASE Ends(j)
      BY <1>1, <3>1 DEF Ends, IdleJob
    <3>2. CASE job' = [job EXCEPT ![j].pc = "rename", ![j].victim = None]
      <4>1. job[j] \in CallRecord
        BY <1>1
      <4>2. job'[j].pc = "rename"
        BY <1>1, <3>2, <4>1 DEF CallRecord
      <4> QED BY <4>2
    <3> QED BY <1>5, <3>1, <3>2 DEF Clear
  <2>3. job'[j] # job[j]
    BY <2>1, <2>2
  <2>4. CASE job[j].gen # gen
    BY <2>3, <2>4 DEF OfEarlierSession
  <2>5. CASE job[j].gen = gen
    <3>1. Removable(job[j].victim, TRUE) /\ Discards(job[j].victim)
      BY <1>3, <1>5, <2>1 DEF Clear, area
    <3>2. job[j].victim \in Node /\ Keeps(job[j], job[j].victim)
      BY <1>1, <2>1 DEF StateInv, Fits, CallRecord
    <3>3. At(job[j].victim, job[j].aimed)
      BY <2>1, <2>5 DEF AimInv, Aims
    <3>4. d \in Doomed(j)
      BY <1>1, <2>1, <2>5, <3>1, <3>2, <3>3, DiscardsDoomed
    <3> QED BY <2>3, <3>4
  <2> QED BY <2>4, <2>5
<1>6. ASSUME NEW j \in Job, Creates(j) \/ Write(j) \/ RenamesStaged(j) PROVE FALSE
  BY <1>2, <1>6 DEF Creates, Write, RenamesStaged, area
<1>7. ASSUME NEW j \in Job, MakesFolder(j) PROVE FALSE
  <2>1. PICK h : h = NewHandle
    OBVIOUS
  <2>2. h \in Handle /\ phone[h] = None
    BY <1>7, <2>1, NewHandleType DEF MakesFolder, Known
  <2>3. UNCHANGED files /\ \A x \in Handle : x # h => phone'[x] = phone[x]
    BY <1>7, <2>1, <2>2 DEF MakesFolder, StateInv, StateOK, area
  <2> QED BY <1>2, <2>2, <2>3
<1>8. ASSUME NEW j \in Job, Moves(j) \/ Renames(j) PROVE FALSE
  <2>1. PICK h \in Handle : /\ phone[h] # None /\ phone[h] \in Object
                            /\ \/ phone' = [phone EXCEPT ![h].parent = job[j].call.to]
                               \/ phone' = [phone EXCEPT ![h].name = job[j].call.toName]
    BY <1>8 DEF Moves, Renames, Movable, Exists, StateInv, StateOK
  <2>2. StateInv'
    BY <1>8, MovesKeepsTypes, RenamesKeepsTypes
  <2>3. PICK o : o \in {[phone[h] EXCEPT !.parent = job[j].call.to],
                        [phone[h] EXCEPT !.name = job[j].call.toName]}
                 /\ phone' = [phone EXCEPT ![h] = o]
    BY <2>1
  <2>4. o.doc = phone[h].doc /\ o.parent \in {phone[h].parent, job[j].call.to}
        /\ o = [parent |-> o.parent, name |-> o.name, folder |-> phone[h].folder, doc |-> phone[h].doc]
    BY <2>1, <2>3 DEF Object
  <2>5. job[j].call \in Call(Dir) /\ job[j].call.op = "rename"
    BY <1>8 DEF Moves, Renames, StateInv, Fits
  <2>6. o \in Object
    <3>1. job[j].call.to \in Dir /\ job[j].call.toName \in Name
      BY <2>5 DEF Call
    <3> QED BY <2>1, <2>3, <3>1 DEF Object
  <2>7. phone'[h] = o /\ \A x \in Handle : x # h => phone'[x] = phone[x]
    BY <2>3 DEF StateInv, StateOK
  <2>8. \A x \in Handle : phone[x] # None => phone'[x] # None /\ phone'[x].doc = phone[x].doc
    BY <2>4, <2>6, <2>7, Apart
  <2>9. UNCHANGED files
    BY <1>8 DEF Moves, Renames, area
  <2> QED BY <1>2, <2>8, <2>9
<1>9. ASSUME NEW i \in File, Commit(i) PROVE Shown
  <2>1. CASE staged[i].gen = gen
    BY <1>1, <1>9, <2>1, CommitLosesNothing
  <2>2. CASE staged[i].gen # gen
    <3>1. i \in files /\ staged[i].dirty /\ ~staged'[i].dirty
      BY <1>9, CommitIs DEF Commit
    <3>2. staged'[i] # staged[i]
      BY <3>1
    <3> QED BY <2>2, <3>1, <3>2 DEF OfEarlierSession
  <2> QED BY <2>1, <2>2
<1>10. ASSUME NEW old \in Renumbering, Replug(old) PROVE FALSE
  <2>1. old \in [Handle -> Handle] /\ \A g \in Handle : \E h \in Handle : old[h] = g
    BY RenumberingAssumption
  <2>2. phone' = [h \in Handle |->
           IF phone[old[h]] = None THEN None
           ELSE [phone[old[h]] EXCEPT !.parent = NewDir(old, @)]]
    BY <1>10 DEF Replug
  <2>3. ASSUME NEW g \in Handle, phone[g] # None
        PROVE  \E x \in Handle : phone'[x] # None /\ phone'[x].doc = phone[g].doc
    <3>1. PICK x \in Handle : old[x] = g
      BY <2>1
    <3>2. phone[g] \in Object
      BY <2>3 DEF StateInv, StateOK
    <3>3. phone'[x] = [phone[g] EXCEPT !.parent = NewDir(old, @)]
      BY <2>2, <2>3, <3>1
    <3>4. phone'[x].doc = phone[g].doc
      BY <3>2, <3>3 DEF Object
    <3>5. phone'[x] # None
      <4>1. StateInv'
        BY <1>10, ReplugKeepsTypes
      <4>2. \A h \in Handle : phone[old[h]] # None => NewDir(old, phone[old[h]].parent) \in Dir
        <5>1. \A y \in Handle : phone[y] # None => phone[y].parent \in Dir
          BY DEF StateInv, StateOK, Object
        <5>2. \A dir \in Dir : NewDir(old, dir) \in Dir
          BY <2>1 DEF NewDir, Dir
        <5> QED BY <2>1, <5>1, <5>2
      <4>3. phone'[x] \in Object
        BY <2>3, <3>1, <3>2, <3>3, <4>2 DEF Object
      <4> QED BY <4>3, Apart
    <3> QED BY <3>4, <3>5
  <2>4. UNCHANGED files
    BY <1>10 DEF Replug, area
  <2> QED BY <1>2, <2>3, <2>4
<1>11. ASSUME NEW j \in Job, Continues(j) PROVE Shown
  <2>1. Read(j) \/ ReadAnswers(j) \/ ReadRefused(j) \/ TargetFound(j) \/ TargetMissing(j)
          \/ RenameFails(j) => UNCHANGED <<phone, area>>
    BY DEF Read, ReadAnswers, ReadRefused, TargetFound, TargetMissing, RenameFails
  <2> HIDE DEF Shown
  <2> QED BY <1>3, <1>4, <1>5, <1>6, <1>7, <1>8, <1>11, <2>1 DEF Continues
<1>12. (\E j \in Job, call \in Call(Folder) : Found(j, call) \/ NotFound(j, call))
         \/ ReadsDirectory => UNCHANGED <<phone, area>>
  BY ReadingLeaves DEF Found, NotFound
<1> HIDE DEF Shown
<1>13. Shown
  BY <1>3, <1>9, <1>10, <1>11, <1>12 DEF Step
<1> QED BY <1>13 DEF Shown

\* No bystander is lost: a document disappears only through a call that named it, by its
\* name or by the one it still has on the phone, or by what is in a folder that it named;
\* what is begun in one session of the phone and done in the next is the exception
\* (nfs.rs lookup_in_directory, remove_handle, rename; staging.rs commit_locked).
THEOREM NoBystanderLost == Spec => NoBystander
<1>1. TypeInv /\ AimInv /\ [Next]_vars =>
        [\A d \in used : Lives(d) /\ ~Lives(d)' =>
           \/ \E j \in Job : job'[j] # job[j] /\ d \in Doomed(j)
           \/ OfEarlierSession]_vars
  BY StepLosesDoomed DEF TypeInv, Next
<1> QED BY <1>1, AimsAlways, PTL DEF NoBystander, Spec

-----------------------------------------------------------------------------
(* Renaming.                                                               *)

\* What is found on the phone is there.
LEMMA FindsThere ==
  ASSUME StateInv, Origins, NEW d, NEW name, NEW node \in Find(gen, d, name),
         Overlay(node) = None
  PROVE  /\ node.object \in Handle /\ phone[node.object] # None
         /\ phone[node.object].parent = d /\ phone[node.object].name = name
<1>1. gen \in Generation
  BY DEF StateInv, StateOK
<1>2. ASSUME NEW i \in StagedIn(gen, d), node = NodeOf(i) PROVE FALSE
  <2>1. i \in File /\ i # None /\ staged[i] \in Staged /\ staged[i].gen = gen /\ staged[i] # None
    BY Apart DEF StagedIn, StateInv, StateOK
  <2>2. CASE staged[i].remote = None
    BY <1>2, <2>1, <2>2 DEF NodeOf, Overlay
  <2>3. CASE staged[i].remote # None
    <3>1. origins[gen][staged[i].remote] = i /\ staged[i].remote \in Handle
      BY <2>1, <2>3 DEF Origins, Staged
    <3>2. node = [gen |-> gen, object |-> staged[i].remote]
      BY <1>2, <2>1, <2>3 DEF NodeOf
    <3>3. node \notin File /\ node.gen = gen /\ node.object = staged[i].remote
      BY <1>1, <3>1, <3>2, NodeAssumption
    <3> QED BY <2>1, <3>1, <3>3 DEF Overlay
  <2> QED BY <2>2, <2>3
<1>3. PICK h \in Children(d) : phone[h].name = name /\ node = [gen |-> gen, object |-> h]
  BY <1>2 DEF Find
<1> QED BY <1>3 DEF Children

\* The directory in which something is removed stays.
LEMMA DirectoryStays ==
  ASSUME StateInv, Origins, NEW d \in Dir, IsFolder(d), NEW name, NEW strict,
         NEW node \in Find(gen, d, name), Removable(node, strict), Discards(node)
  PROVE  IsFolder(d)'
<1> DEFINE i == Overlay(node)
           h == IF i = None THEN node.object ELSE staged[i].remote
<1>1. node \in Node /\ i \in File \cup {None} /\ gen \in Generation
  BY FindType, OverlayType DEF StateInv, StateOK
<1>2. phone' = Without(phone, h) /\ phone \in Objects
  BY DEF Discards, StateInv, StateOK, Objects
<1>3. CASE d \in Storage
  BY <1>3 DEF IsFolder
<1>4. CASE d \notin Storage
  <2>1. d \in Handle /\ phone[d] # None /\ phone[d].folder /\ phone[d].parent \in Storage
    BY <1>4 DEF Dir, IsFolder, Exists, StateInv, Forest
  <2>2. CASE i = None
    <3>1. h \in Handle /\ phone[h].parent = d
      BY <2>2, FindsThere
    <3> HIDE DEF h
    <3>2. h # d /\ h # phone[d].parent
      BY <1>4, <2>1, <3>1, Apart
    <3> QED BY <1>2, <2>1, <3>1, <3>2, WithoutIs DEF IsFolder, Exists
  <2>3. CASE i # None
    <3>1. i \in File /\ staged[i] # None /\ staged[i].gen = gen
      <4>1. CASE node \in File
        BY <1>1, <4>1, FindType DEF Overlay
      <4>2. CASE node \notin File
        BY <1>1, <2>3, <4>2, FindType DEF Overlay, StateInv, Past, Node
      <4> QED BY <4>1, <4>2
    <3>2. h = staged[i].remote /\ h \in Handle \cup {None}
      BY <2>3, <3>1, Apart DEF StateInv, StateOK, Staged
    <3> HIDE DEF h, i
    <3>3. h # d /\ h # phone[d].parent
      BY <2>1, <3>1, <3>2, OwnFile, Apart
    <3> QED BY <1>2, <2>1, <3>2, <3>3, WithoutIs DEF IsFolder, Exists
  <2> QED BY <2>2, <2>3
<1> QED BY <1>3, <1>4

\* What a renaming that nothing interferes with may rely on between its steps.
RenamePC == {"target", "clear", "rename", "name"}
Looked(r) ==
  LET call == r.call
      h    == r.node.object
      i    == Overlay(r.node)
  IN
  /\ r.gen = gen
  /\ <<call.dir, call.name>> # <<call.to, call.toName>>
  /\ IsFolder(call.to)
  /\ i # None => staged[i].doc = r.doc
  /\ i = None /\ phone[h] # None =>
       /\ phone[h].doc = r.doc /\ phone[h].name = call.name
       /\ phone[h].parent = IF r.pc = "name" THEN call.to ELSE call.dir
  /\ r.pc = "name" => i = None /\ call.dir # call.to
  /\ r.pc = "clear" => r.victim \in Find(gen, call.to, call.toName)

LookInv == \A j \in Job : alone[j] /\ job[j].pc \in RenamePC => Looked(job[j])

\* Only its own steps change a call.
LEMMA OwnStep ==
  ASSUME StateInv, Step, NEW k \in Job, job'[k] # job[k]
  PROVE  Continues(k) \/ \E call \in Call(Folder) : Found(k, call) \/ NotFound(k, call)
<1>1. job \in [Job -> CallRecord]
  BY SMTT(30) DEF StateInv, StateOK
<1>2. ASSUME NEW j \in Job, Continues(j) PROVE j = k
  <2>1. CASE Ends(j)
    BY <1>1, <2>1 DEF Ends
  <2>2. CASE To(j, "rename") \/ To(j, "name")
    BY <1>1, <2>2 DEF To
  <2>3. CASE Clear(j)
    BY <1>1, <2>3 DEF Clear, Ends
  <2>4. CASE Read(j)
    BY <1>1, <2>4 DEF Read
  <2>5. CASE TargetFound(j)
    BY <1>1, <2>5 DEF TargetFound
  <2> QED BY <1>2, <2>1, <2>2, <2>3, <2>4, <2>5
          DEF Continues, Creates, MakesFolder, RemoveObject, Write, ReadAnswers, ReadRefused,
              TargetMissing, RenamesStaged, Moves, Renames, RenameFails
<1>3. ASSUME NEW j \in Job, NEW call \in Call(Folder), Found(j, call) \/ NotFound(j, call)
      PROVE  j = k
  BY <1>1, <1>3, ZenonT(60) DEF Found, NotFound, Goes
<1>4. ReadsDirectory \/ (\E i \in File : Commit(i)) \/ (\E old \in Renumbering : Replug(old))
         => UNCHANGED job
  BY ReadingLeaves DEF Commit, Replug
<1> QED BY <1>2, <1>3, <1>4 DEF Step

\* A renaming goes from look-up to look-up.
LEMMA RenameTurns ==
  ASSUME StateInv, Step, NEW k \in Job, job'[k] # job[k], job'[k].pc \in RenamePC
  PROVE  \/ \E call \in Call(Folder) : Found(k, call)
         \/ TargetFound(k)
         \/ TargetMissing(k)
         \/ Clear(k) /\ ~Ends(k)
         \/ Moves(k) /\ ~Ends(k)
<1>1. job \in [Job -> CallRecord]
  BY DEF StateInv, StateOK
<1>2. ~Ends(k)
  BY <1>1 DEF Ends, IdleJob, RenamePC
<1>3. ~Read(k)
  <2> SUFFICES ASSUME Read(k) PROVE FALSE
    OBVIOUS
  <2>1. job[k] \in CallRecord /\ job'[k].pc \in {"idle", "attrs"}
    BY <1>1 DEF Read, IdleJob, CallRecord
  <2> QED BY <2>1 DEF RenamePC
<1>4. ASSUME NEW call \in Call(Folder), NotFound(k, call) PROVE FALSE
  <2>1. PICK pc \in {"create", "mkdir"} : Goes(k, pc, call, None)
    BY <1>4 DEF NotFound
  <2>2. job'[k].pc = pc
    BY <1>1, <2>1, SMTT(30) DEF Goes, IdleJob
  <2> QED BY <2>2 DEF RenamePC
<1>5. CASE Continues(k)
  BY <1>2, <1>3, <1>5
     DEF Continues, Creates, MakesFolder, RemoveObject, Write, ReadAnswers, ReadRefused,
         RenamesStaged, Renames, RenameFails
<1> QED BY <1>4, <1>5, OwnStep

LEMMA FoundLooks ==
  ASSUME StateInv, Origins, NEW j \in Job, NEW call \in Call(Folder), Found(j, call),
         job'[j].pc \in RenamePC
  PROVE  Looked(job[j])'
<1>1. UNCHANGED <<gen, phone, staged, files, origins>>
  BY DEF Found, area
<1>2. PICK node \in Find(gen, call.dir, call.name), pc \in {"read", "write", "remove", "target"} :
        Goes(j, pc, call, node) /\ (pc = "target" => call.op = "rename")
  BY DEF Found
<1>3. PICK doc : doc = DocAt(node)
  OBVIOUS
<1>4. PICK r : r = job'[j]
  OBVIOUS
<1>5. r.pc = pc
  BY <1>2, <1>4 DEF Goes, IdleJob, StateInv, StateOK
<1>6. pc = "target"
  BY <1>4, <1>5 DEF RenamePC
<1>7. r.gen = gen /\ r.node = node /\ r.doc = doc /\ r.call = call
  BY <1>2, <1>3, <1>4, <1>6 DEF Goes, IdleJob, StateInv, StateOK
<1>8. call.op = "rename" /\ IsFolder(call.to)
  BY <1>2, <1>6 DEF Call, Folder
<1>9. <<call.dir, call.name>> # <<call.to, call.toName>>
  BY <1>8 DEF Found, Free
<1>10. At(node, {doc})
  BY <1>2, <1>3, FindsDenoted
<1>11. Overlay(node) = None => phone[node.object].parent = call.dir
                              /\ phone[node.object].name = call.name
  BY <1>2, FindsThere
<1>12. Looked(r)
  BY <1>5, <1>6, <1>7, <1>8, <1>9, <1>10, <1>11, SMTT(30) DEF Looked, At
<1>13. Looked(r)'
  BY <1>1, <1>12 DEF Looked, Overlay, IsFolder, Exists, Find, StagedIn, In, StorageOf, NodeOf, Children
<1> QED BY <1>4, <1>13

\* Nothing that a look-up depends on is changed.
LEMMA LookedOn ==
  ASSUME UNCHANGED <<gen, phone, area>>, NEW r, Looked(r)
  PROVE  Looked(r)'
  BY DEF Looked, Overlay, IsFolder, Exists, Find, StagedIn, In, StorageOf, NodeOf, Children, area

LEMMA TargetLooks ==
  ASSUME StateInv, NEW j \in Job, TargetFound(j) \/ TargetMissing(j), Looked(job[j])
  PROVE  Looked(job[j])'
<1>1. UNCHANGED <<gen, phone, area>>
  BY DEF TargetFound, TargetMissing
<1>2. PICK q, r : q = job[j] /\ r = job'[j]
  OBVIOUS
<1>3. q \in CallRecord /\ Looked(q) /\ q.gen = gen /\ q.pc = "target"
  BY <1>2 DEF StateInv, StateOK, Looked, TargetFound, TargetMissing
<1>4. \/ r = [q EXCEPT !.pc = "rename"]
      \/ \E node \in Find(gen, q.call.to, q.call.toName) :
           r = [q EXCEPT !.pc = "clear", !.victim = node, !.aimed = Denoted(q.call.to, q.call.toName)]
  <2>1. CASE TargetFound(j)
    BY <1>2, <1>3, <2>1 DEF TargetFound, StateInv, StateOK
  <2>2. CASE TargetMissing(j)
    BY <1>2, <2>2 DEF TargetMissing, To, StateInv, StateOK
  <2> QED BY <2>1, <2>2
<1>5. /\ r.gen = q.gen /\ r.call = q.call /\ r.node = q.node /\ r.doc = q.doc
      /\ r.pc \in {"rename", "clear"}
      /\ r.pc = "clear" => r.victim \in Find(gen, q.call.to, q.call.toName)
  BY <1>3, <1>4 DEF CallRecord
<1>6. Looked(r)
  BY <1>3, <1>5 DEF Looked
<1> QED BY <1>1, <1>2, <1>6, LookedOn

LEMMA ClearLooks ==
  ASSUME StateInv, Origins, NEW j \in Job, Clear(j), ~Ends(j), Looked(job[j])
  PROVE  Looked(job[j])'
<1>1. UNCHANGED <<gen, staged, origins, used>> /\ Removable(job[j].victim, TRUE)
      /\ Discards(job[j].victim) /\ job' = [job EXCEPT ![j].pc = "rename", ![j].victim = None]
      /\ job[j].pc = "clear"
  BY DEF Clear
<1>2. PICK q, r : q = job[j] /\ r = job'[j]
  OBVIOUS
<1>3. q \in CallRecord /\ Fits(q) /\ Looked(q) /\ q.pc = "clear"
  BY <1>1, <1>2 DEF StateInv, StateOK
<1>4. r = [q EXCEPT !.pc = "rename", !.victim = None]
  BY <1>1, <1>2 DEF StateInv, StateOK
<1>5. r.gen = q.gen /\ r.call = q.call /\ r.node = q.node /\ r.doc = q.doc /\ r.pc = "rename"
  BY <1>3, <1>4 DEF CallRecord
<1>6. q.victim \in Node /\ q.victim \in Find(gen, q.call.to, q.call.toName)
      /\ q.call.to \in Dir /\ IsFolder(q.call.to) /\ q.node \in Node
  BY <1>3 DEF Fits, Looked, CallRecord, Call
<1>7. IsFolder(q.call.to)'
  BY <1>1, <1>2, <1>6, DirectoryStays
<1>8. \A h \in Handle : phone'[h] # None => phone'[h] = phone[h]
  BY <1>1, <1>2, <1>6, DiscardsKeepsTypes
<1>9. Overlay(q.node)' = Overlay(q.node)
  BY <1>1 DEF Overlay
<1>10. Overlay(q.node) = None => q.node.object \in Handle
  BY <1>6, Apart DEF Overlay, Node
<1>11. Looked(r)'
  BY <1>1, <1>3, <1>5, <1>7, <1>8, <1>9, <1>10 DEF Looked
<1> QED BY <1>2, <1>11

LEMMA MovesLooks ==
  ASSUME StateInv, NEW j \in Job, Moves(j), ~Ends(j), Looked(job[j])
  PROVE  Looked(job[j])'
<1>1. UNCHANGED <<gen, area>> /\ Overlay(job[j].node) = None /\ job[j].pc = "rename"
      /\ job[j].call.dir # job[j].call.to /\ Movable(job[j].node.object, job[j].call.to)
      /\ phone' = [phone EXCEPT ![job[j].node.object].parent = job[j].call.to]
      /\ job' = [job EXCEPT ![j].pc = "name"]
  BY DEF Moves, To
<1>2. PICK q, r : q = job[j] /\ r = job'[j]
  OBVIOUS
<1>3. q \in CallRecord /\ Fits(q) /\ Looked(q) /\ q.pc = "rename"
  BY <1>1, <1>2 DEF StateInv, StateOK
<1>4. r = [q EXCEPT !.pc = "name"]
  BY <1>1, <1>2 DEF StateInv, StateOK
<1>5. r.gen = q.gen /\ r.call = q.call /\ r.node = q.node /\ r.doc = q.doc /\ r.pc = "name"
  BY <1>3, <1>4 DEF CallRecord
<1>6. PICK h : h = q.node.object
  OBVIOUS
<1>7. h \in Handle /\ phone[h] # None /\ phone[h] \in Object /\ IsFolder(q.call.to)
      /\ phone' = [phone EXCEPT ![h].parent = q.call.to]
  BY <1>1, <1>2, <1>6 DEF Movable, Exists, StateInv, StateOK
<1>8. PICK o : o = [phone[h] EXCEPT !.parent = q.call.to]
  OBVIOUS
<1>9. o.parent = q.call.to /\ o.folder = phone[h].folder /\ o.doc = phone[h].doc
      /\ o.name = phone[h].name /\ o \in Object
  <2>1. q.call.to \in Dir
    BY <1>3 DEF Fits, Call
  <2> QED BY <1>7, <1>8, <2>1 DEF Object
<1>10. phone'[h] = o /\ \A x \in Handle : x # h => phone'[x] = phone[x]
  BY <1>7, <1>8 DEF StateInv, StateOK
<1>11. IsFolder(q.call.to)'
  BY <1>7, <1>9, <1>10, Apart DEF IsFolder, Exists
<1>12. Overlay(q.node)' = None
  BY <1>1, <1>2, SMTT(30) DEF Overlay, area
<1>13. Looked(r)'
  BY <1>1, <1>2, <1>3, <1>5, <1>6, <1>7, <1>9, <1>10, <1>11, <1>12 DEF Looked, area
<1> QED BY <1>2, <1>13

LEMMA StepLooks ==
  ASSUME StateInv, Origins, LookInv, Step, Observe
  PROVE  LookInv'
<1> SUFFICES ASSUME NEW k \in Job, alone'[k], job'[k].pc \in RenamePC
             PROVE  Looked(job[k])'
  BY DEF LookInv
<1>1. job[k].pc = "idle" \/ (alone[k] /\ (job'[k] # job[k] \/ UNCHANGED <<gen, phone, area>>))
  BY DEF Observe
<1>2. CASE job'[k] = job[k]
  <2>1. PICK q : q = job[k] /\ q = job'[k]
    BY <1>2
  <2>2. Looked(q) /\ UNCHANGED <<gen, phone, area>>
    BY <1>1, <1>2, <2>1 DEF LookInv, RenamePC
  <2>3. Looked(q)'
    BY <2>2, LookedOn
  <2> QED BY <2>1, <2>3
<1>3. ASSUME job[k].pc \in RenamePC PROVE Looked(job[k])
  BY <1>1, <1>3 DEF LookInv, RenamePC
<1>4. CASE TargetFound(k) \/ TargetMissing(k)
  <2>1. job[k].pc \in RenamePC
    BY <1>4 DEF TargetFound, TargetMissing, RenamePC
  <2> QED BY <1>3, <1>4, <2>1, TargetLooks
<1>5. CASE Clear(k) /\ ~Ends(k)
  <2>1. job[k].pc \in RenamePC
    BY <1>5 DEF Clear, RenamePC
  <2> QED BY <1>3, <1>5, <2>1, ClearLooks
<1>6. CASE Moves(k) /\ ~Ends(k)
  <2>1. job[k].pc \in RenamePC
    BY <1>6 DEF Moves, RenamePC
  <2> QED BY <1>3, <1>6, <2>1, MovesLooks
<1> QED BY <1>2, <1>4, <1>5, <1>6, RenameTurns, FoundLooks

LEMMA LooksAlways == Spec => [](TypeInv /\ AimInv /\ LookInv)
<1>1. Init => LookInv
  BY DEF Init, LookInv, IdleJob, RenamePC
<1>2. TypeInv /\ AimInv /\ LookInv /\ [Next]_vars => LookInv'
  <2> SUFFICES ASSUME TypeInv, AimInv, LookInv, [Next]_vars PROVE LookInv'
    OBVIOUS
  <2>1. CASE Next
    BY <2>1, StepLooks DEF Next, TypeInv, AimInv
  <2>2. CASE UNCHANGED vars
    <3> SUFFICES ASSUME NEW k \in Job, alone'[k], job'[k].pc \in RenamePC PROVE Looked(job[k])'
      BY DEF LookInv
    <3>1. PICK r : r = job[k] /\ r = job'[k]
      BY <2>2 DEF vars
    <3>2. Looked(r)
      BY <2>2, <3>1 DEF LookInv, vars
    <3>3. Looked(r)'
      BY <2>2, <3>2, LookedOn DEF vars
    <3> QED BY <3>1, <3>3
  <2> QED BY <2>1, <2>2
<1> QED BY <1>1, <1>2, AimsAlways, PTL DEF Spec

\* Its document is at the new name then, and at the old one no more.
Arrived(r) ==
  /\ r.doc \in Named(r.call.to, r.call.toName)
  /\ r.doc \notin Named(r.call.dir, r.call.name)

\* An object that no file is staged over.
LEMMA ObjectArrives ==
  ASSUME StateInv, Origins, NEW r \in CallRecord, Single(r.doc), NEW h \in Handle, phone[h] # None,
         origins[gen][h] = None, phone[h].doc = r.doc,
         <<r.call.dir, r.call.name>> # <<r.call.to, r.call.toName>>,
         UNCHANGED <<gen, area>>, phone'[h] # None,
         phone'[h].doc = r.doc, phone'[h].parent = r.call.to, phone'[h].name = r.call.toName,
         \A x \in Handle : x # h => phone'[x] = phone[x]
  PROVE  Arrived(r)'
<1>1. \A i \in files : i \in File /\ staged[i] # None /\ i # None
  BY Apart DEF StateInv, StateOK
<1>2. \A i \in files : ~(staged[i].gen = gen /\ staged[i].remote = h)
  BY <1>1, Apart DEF Origins
<1>3. \A i \in files : staged[i].doc # r.doc
  BY <1>2 DEF Single, Exists
<1>4. ~Overlaid(h)'
  BY <1>2 DEF Overlaid, area
<1>5. r.doc \in Named(r.call.to, r.call.toName)'
  BY <1>4 DEF Named, Children
<1>6. \A x \in Handle : phone'[x] # None /\ phone'[x].doc = r.doc => x = h
  BY DEF Single, Exists
<1>7. ASSUME r.doc \in Named(r.call.dir, r.call.name)' PROVE FALSE
  <2>1. PICK x \in Handle : /\ phone'[x] # None /\ phone'[x].parent = r.call.dir
                            /\ phone'[x].name = r.call.name /\ phone'[x].doc = r.doc
    BY <1>3, <1>7 DEF Named, StagedIn, Children, area
  <2> QED BY <1>6, <2>1
<1> QED BY <1>5, <1>7 DEF Arrived

\* r is the call as it was.
LEMMA RenamesArrive ==
  ASSUME StateInv, Origins, NEW j \in Job, NEW r, r = job[j], Looked(r), Single(r.doc),
         Renames(j) \/ (Moves(j) /\ job'[j].pc = "idle")
  PROVE  Arrived(r)'
<1>1. UNCHANGED <<gen, area>>
  BY DEF Renames, Moves
<1>2. r \in CallRecord /\ Fits(r) /\ r.pc \in {"rename", "name"}
  BY DEF StateInv, StateOK, Renames, Moves
<1>3. r.node \in Node /\ r.call \in Call(Dir) /\ r.call.op = "rename" /\ Keeps(r, r.node)
  BY <1>2 DEF Fits, CallRecord
<1>4. Overlay(r.node) = None
  BY DEF Looked, Renames, Moves
<1>5. r.node \notin File
  BY <1>4, Apart DEF Overlay
<1>6. PICK h : h = r.node.object
  OBVIOUS
<1>7. h \in Handle /\ phone[h] # None /\ phone[h] \in Object
  BY <1>6 DEF Renames, Moves, Movable, Exists, StateInv, StateOK
<1>8. origins[gen][h] = None
  BY <1>3, <1>4, <1>5, <1>6 DEF Keeps, Overlay, Looked
<1>9. phone[h].doc = r.doc /\ phone[h].name = r.call.name
      /\ phone[h].parent = IF r.pc = "name" THEN r.call.to ELSE r.call.dir
  BY <1>4, <1>6, <1>7 DEF Looked
<1>10. PICK o : phone' = [phone EXCEPT ![h] = o] /\ o \in Object /\ o.doc = r.doc
                /\ o.parent = r.call.to /\ o.name = r.call.toName
  <2>1. r.call.to \in Dir /\ r.call.toName \in Name
    BY <1>3 DEF Call
  <2>2. CASE Renames(j)
    <3>1. PICK o : o = [phone[h] EXCEPT !.name = r.call.toName]
      OBVIOUS
    <3>2. phone' = [phone EXCEPT ![h] = o]
      BY <1>6, <2>2, <3>1 DEF Renames
    <3>3. phone[h].parent = r.call.to
      BY <1>9, <2>2 DEF Renames
    <3>4. o \in Object /\ o.doc = r.doc /\ o.parent = r.call.to /\ o.name = r.call.toName
      BY <1>7, <1>9, <2>1, <3>1, <3>3 DEF Object
    <3> QED BY <3>2, <3>4
  <2>3. CASE Moves(j) /\ job'[j].pc = "idle"
    <3>1. PICK o : o = [phone[h] EXCEPT !.parent = r.call.to]
      OBVIOUS
    <3>2. phone' = [phone EXCEPT ![h] = o]
      BY <1>6, <2>3, <3>1 DEF Moves
    <3>3. r.call.name = r.call.toName
      <4>1. To(j, "name") => job'[j] = [r EXCEPT !.pc = "name"]
        BY DEF To, StateInv, StateOK
      <4>2. [r EXCEPT !.pc = "name"].pc = "name"
        BY <1>2 DEF CallRecord
      <4> QED BY <2>3, <4>1, <4>2 DEF Moves
    <3>4. o \in Object /\ o.doc = r.doc /\ o.parent = r.call.to /\ o.name = r.call.toName
      BY <1>7, <1>9, <2>1, <3>1, <3>3 DEF Object
    <3> QED BY <3>2, <3>4
  <2> QED BY <2>2, <2>3
<1>11. phone'[h] = o /\ o # None /\ \A x \in Handle : x # h => phone'[x] = phone[x]
  BY <1>7, <1>10, Apart DEF StateInv, StateOK
<1> QED BY <1>1, <1>2, <1>7, <1>8, <1>9, <1>10, <1>11, ObjectArrives DEF Looked

LEMMA StagedArrives ==
  ASSUME StateInv, NEW j \in Job, NEW r, r = job[j], Looked(r), Single(r.doc), RenamesStaged(j),
         staged[Overlay(r.node)].storage = StorageOf(r.call.to)
  PROVE  Arrived(r)'
<1>1. PICK i : i = Overlay(r.node)
  OBVIOUS
<1>2. /\ UNCHANGED <<gen, phone, files, origins>> /\ i \in files
      /\ staged' = [staged EXCEPT ![i].parent = ParentIn(r.call.to), ![i].name = r.call.toName,
                                  ![i].dirty = TRUE]
  BY <1>1 DEF RenamesStaged
<1>3. r \in CallRecord /\ Fits(r) /\ r.pc = "rename"
  BY DEF StateInv, StateOK, RenamesStaged
<1>4. r.node \in Node /\ r.call \in Call(Dir) /\ r.call.op = "rename" /\ Keeps(r, r.node)
  BY <1>3 DEF Fits, CallRecord
<1>5. r.call.dir \in Dir /\ r.call.to \in Dir
  BY <1>4 DEF Call
<1>6. i \in File /\ i # None /\ staged[i] \in Staged /\ staged[i] # None
  BY <1>2, Apart DEF StateInv, StateOK
<1>7. staged[i].doc = r.doc /\ staged[i].storage = StorageOf(r.call.to) /\ IsFolder(r.call.to)
      /\ r.gen = gen /\ <<r.call.dir, r.call.name>> # <<r.call.to, r.call.toName>>
  BY <1>1, <1>6 DEF Looked
<1>8. staged[i].gen = gen
  <2>1. CASE r.node \in File
    BY <1>1, <1>4, <1>7, <2>1 DEF Keeps, Overlay
  <2>2. CASE r.node \notin File
    <3>1. r.node.gen = gen /\ r.node.object \in Handle /\ gen \in Generation
      BY <1>4, <1>7, <2>2 DEF Keeps, Node, StateInv, StateOK
    <3> QED BY <1>1, <1>6, <2>2, <3>1 DEF Overlay, StateInv, Past
  <2> QED BY <2>1, <2>2
<1>9. PICK f : f = [staged[i] EXCEPT !.parent = ParentIn(r.call.to), !.name = r.call.toName,
                                     !.dirty = TRUE]
  OBVIOUS
<1>10. /\ f.gen = gen /\ f.doc = r.doc /\ f.storage = StorageOf(r.call.to)
       /\ f.parent = ParentIn(r.call.to) /\ f.name = r.call.toName /\ f.remote = staged[i].remote
  BY <1>6, <1>7, <1>8, <1>9 DEF Staged
<1>11. staged'[i] = f /\ \A x \in File : x # i => staged'[x] = staged[x]
  BY <1>2, <1>6, <1>9 DEF StateInv, StateOK
<1>12. \A d : IsFolder(d)' = IsFolder(d) /\ StorageOf(d)' = StorageOf(d)
  BY <1>2 DEF IsFolder, Exists, StorageOf
<1>13. r.doc \in Named(r.call.to, r.call.toName)'
  <2>1. i \in StagedIn(gen, r.call.to)'
    BY <1>2, <1>7, <1>10, <1>11, <1>12 DEF StagedIn, In
  <2> QED BY <1>10, <1>11, <2>1 DEF Named
<1>14. \A k \in files : staged[k].doc = r.doc => k = i
  BY <1>2, <1>7 DEF Single
<1>15. \A k \in files : staged'[k].doc = r.doc => k = i
  BY <1>6, <1>10, <1>11, <1>14 DEF StateInv, StateOK
<1>16. ASSUME r.call.name = r.call.toName, i \in StagedIn(gen, r.call.dir)' PROVE FALSE
  <2>1. StorageOf(r.call.to) = StorageOf(r.call.dir) /\ ParentIn(r.call.to) = ParentIn(r.call.dir)
    BY <1>10, <1>11, <1>12, <1>16 DEF StagedIn, In
  <2>2. r.call.to = r.call.dir
    BY <1>5, <2>1, SetAssumption DEF StorageOf, ParentIn, Dir
  <2> QED BY <1>7, <1>16, <2>2
<1>17. \A x \in Handle : phone[x] # None /\ phone[x].doc = r.doc => Overlaid(x)'
  <2> SUFFICES ASSUME NEW x \in Handle, phone[x] # None, phone[x].doc = r.doc PROVE Overlaid(x)'
    OBVIOUS
  <2>1. staged[i].remote = x
    BY <1>2, <1>7 DEF Single, Exists
  <2> QED BY <1>2, <1>10, <1>11, <2>1 DEF Overlaid
<1>18. ASSUME r.doc \in Named(r.call.dir, r.call.name)' PROVE FALSE
  <2>1. CASE \E k \in StagedIn(gen, r.call.dir)' : staged'[k].name = r.call.name /\ staged'[k].doc = r.doc
    <3>1. PICK k \in StagedIn(gen, r.call.dir)' : staged'[k].name = r.call.name /\ staged'[k].doc = r.doc
      BY <2>1
    <3>2. k \in files
      BY <1>2 DEF StagedIn
    <3>3. k = i
      BY <1>15, <3>1, <3>2
    <3> QED BY <1>10, <1>11, <1>16, <3>1, <3>3
  <2>2. CASE \E x \in Children(r.call.dir)' : ~Overlaid(x)' /\ phone'[x].doc = r.doc
    BY <1>2, <1>17, <2>2 DEF Children
  <2> QED BY <1>18, <2>1, <2>2 DEF Named
<1> QED BY <1>13, <1>18 DEF Arrived

\* A renaming that nothing has interfered with, and that succeeds, has put its document at the
\* new name and taken the old one away: what it found is still there, of that document, where
\* it was found, and no other file stands for it (nfs.rs rename; device.rs rename_or_move;
\* staging.rs rename).
THEOREM RenamesExactlyAlways == Spec => RenamesExactly
<1> DEFINE Exactly(j) == \A call \in {job[j].call} :
       /\ alone[j] /\ Single(job[j].doc)
       /\ RenamesStaged(j) \/ Renames(j) \/ (Moves(j) /\ job'[j].pc = "idle")
       /\ \A i \in {Overlay(job[j].node)} \ {None} : staged[i].storage = StorageOf(call.to)
       => /\ job[j].doc \in Named(call.to, call.toName)'
          /\ job[j].doc \notin Named(call.dir, call.name)'
<1>1. ASSUME TypeInv, AimInv, LookInv, NEW j \in Job PROVE Exactly(j)
  <2>1. PICK r, call : r = job[j] /\ call = job[j].call
    OBVIOUS
  <2> SUFFICES ASSUME alone[j], Single(r.doc),
                      RenamesStaged(j) \/ Renames(j) \/ (Moves(j) /\ job'[j].pc = "idle"),
                      \A i \in {Overlay(r.node)} \ {None} : staged[i].storage = StorageOf(call.to)
               PROVE  /\ r.doc \in Named(call.to, call.toName)'
                      /\ r.doc \notin Named(call.dir, call.name)'
    BY <2>1, SMTT(30)
  <2>2. Looked(r) /\ call = r.call
    BY <1>1, <2>1 DEF LookInv, RenamesStaged, Renames, Moves, RenamePC
  <2>3. StateInv /\ Origins
    BY <1>1 DEF TypeInv, AimInv
  <2>4. CASE RenamesStaged(j)
    <3>1. Overlay(r.node) # None
      BY <2>1, <2>3, <2>4, Apart DEF RenamesStaged, StateInv, StateOK
    <3>2. staged[Overlay(r.node)].storage = StorageOf(r.call.to)
      BY <2>2, <3>1
    <3> QED BY <2>1, <2>2, <2>3, <2>4, <3>2, StagedArrives DEF Arrived
  <2>5. CASE Renames(j) \/ (Moves(j) /\ job'[j].pc = "idle")
    BY <2>1, <2>2, <2>3, <2>5, RenamesArrive DEF Arrived
  <2> QED BY <2>4, <2>5
<1>2. TypeInv /\ AimInv /\ LookInv => [\A j \in Job : Exactly(j)]_vars
  BY <1>1
<1> QED BY <1>2, LooksAlways, PTL DEF RenamesExactly
=============================================================================
