------------------------------ MODULE Namespace ------------------------------
(***************************************************************************)
(* The namespace that nfs.rs shows to the NFS client: what a name stands   *)
(* for, given the phone's listing and the staged files laid over it, and   *)
(* the procedures that look names up and then act on what they have found. *)
(*                                                                         *)
(* A call looks up, awaits, and acts; other calls, commits of staged files *)
(* and a reconnection of the phone happen meanwhile.  Documents stand for  *)
(* what the user would call "this file": a document keeps its identity     *)
(* through renaming, staging, commits, and the new object handles the      *)
(* phone gives to everything when it is connected again.                   *)
(*                                                                         *)
(* The steps of staging and of a commit are in Staging: they are atomic    *)
(* here, and so is a look-up, which asks the staged files and then the     *)
(* phone.  A listing is not: it asks the phone, then every staged file,    *)
(* one by one, and answers.  What the phone lists is what is there: that   *)
(* the cache agrees with it is DeviceSession's subject.                    *)
(***************************************************************************)
EXTENDS Naturals, FiniteSets, Sequences, Folds

CONSTANTS
  Storage,     \* the phone's storages
  Handle,      \* MTP object handles
  File,        \* identifiers of staged files (Uuid)
  Name,        \* file names: naturals, in sorting order
  Doc,         \* documents, folders included
  Job,         \* concurrent NFS calls
  Page,        \* how many entries fit in an answer to READDIR
  Op,          \* the procedures the client uses
  Failing,     \* the requests that may fail
  Renumbering, \* how a phone that is connected again numbers its objects
  MaxCalls, MaxReplugs, MaxFailures,  \* bounds
  Top, None

ASSUME SetAssumption ==
  /\ Name \subseteq Nat \ {0} /\ 1 .. 3 \subseteq Name /\ Page \in Nat \ {0}
  /\ Storage # {} /\ Storage \cap Handle = {} /\ Top \notin Handle
  /\ None \notin Handle \cup File \cup Storage \cup Doc
ASSUME FiniteAssumption == IsFiniteSet(Handle) /\ IsFiniteSet(File)
\* There is room for what is there at first.
ASSUME InitAssumption ==
  /\ File # {}
  /\ \E h \in [1 .. 3 -> Handle] : \A a, b \in 1 .. 3 : h[a] = h[b] => a = b
  /\ \E d \in [1 .. 3 -> Doc] : \A a, b \in 1 .. 3 : d[a] = d[b] => a = b
\* Every object gets a handle of its own, and every handle may be used again.
ASSUME RenumberingAssumption ==
  Renumbering \subseteq {f \in [Handle -> Handle] :
    /\ \A g, h \in Handle : f[g] = f[h] => g = h
    /\ \A g \in Handle : \E h \in Handle : f[h] = g}
ASSUME BoundAssumption == MaxCalls \in Nat /\ MaxReplugs \in Nat /\ MaxFailures \in Nat

VARIABLES
  gen,       \* generation of the phone's session
  phone,     \* its objects
  staged,    \* the staged files
  files,     \* StagingArea.files: those that can be found
  origins,   \* StagingArea.origins
  job,       \* the calls under way
  reader,    \* a client that reads a directory page by page
  used,      \* documents that exist or have existed
  calls, failures,  \* what is left of the bounds
  watch,     \* history: what has happened to the directory being read
  alone      \* history: the calls nothing has interfered with so far

area   == <<staged, files, origins>>
bounds == <<used, calls, failures>>
vars   == <<gen, phone, area, job, reader, bounds, watch, alone>>

Generation == 1 .. MaxReplugs + 1
Dir     == Storage \cup Handle
Object  == [parent : Dir, name : Name, folder : BOOLEAN, doc : Doc]
Staged  == [gen : Generation, storage : Storage, parent : Handle \cup {Top}, name : Name,
            remote : Handle \cup {None}, dirty : BOOLEAN, doc : Doc]
Node    == File \cup [gen : Generation, object : Handle]
ASSUME NodeAssumption ==
  None \notin Node \cup Object \cup Staged /\ File \cap [gen : Generation, object : Handle] = {}

Call(D) == [op : Op \ {"rename"}, dir : D, name : Name]
             \cup [op : Op \cap {"rename"}, dir : D, name : Name, to : D, toName : Name]
PC      == {"idle", "remove", "create", "mkdir", "read", "attrs", "write",
            "target", "clear", "rename", "name"}
NoCall  == [op |-> "none", dir |-> CHOOSE s \in Storage : TRUE, name |-> 0]
IdleJob == [pc |-> "idle", call |-> NoCall, gen |-> 1, node |-> None, victim |-> None,
            doc |-> None, data |-> None, aimed |-> {}]
IdleReader == [on |-> FALSE, dir |-> None, gen |-> 1, cookie |-> 0, last |-> 0, eof |-> FALSE,
               seen |-> {}, twice |-> FALSE, pc |-> "idle", entries |-> {}, ids |-> {}]
IdleWatch  == [steady |-> {}, shrunk |-> FALSE, grown |-> FALSE, namesakes |-> FALSE]

-----------------------------------------------------------------------------
(* The phone.                                                              *)

Exists(h)   == h \in Handle /\ phone[h] # None
IsFolder(d) == d \in Storage \/ (Exists(d) /\ phone[d].folder)
Folder == {d \in Dir : IsFolder(d)}
Children(d) == {h \in Handle : phone[h] # None /\ phone[h].parent = d}
StorageOf(d) == IF d \in Storage THEN d ELSE phone[d].parent

\* An object is deleted with everything in it.
Without(objects, h) ==
  [x \in Handle |-> IF objects[x] # None /\ h \in {x, objects[x].parent} THEN None
                    ELSE objects[x]]

Known(h) == \/ phone[h] # None \/ origins[gen][h] # None
            \/ \E j \in Job : \E n \in {job[j].node, job[j].victim} :
                 n \notin File \cup {None} /\ n = [gen |-> gen, object |-> h]
NewHandle == CHOOSE h \in Handle : ~Known(h)
HandleLeft == \E h \in Handle : ~Known(h)

Breaks(request) ==
  /\ request \in Failing /\ failures > 0
  /\ failures' = failures - 1

-----------------------------------------------------------------------------
(* What a name stands for.                                                 *)

StorageAsParent(d) == d  \* mutant
ParentIn(d) == IF d \in Storage THEN Top ELSE d
In(f, d) == f.storage = StorageOf(d) /\ f.parent = ParentIn(d)
StagedIn(g, d) == {i \in files : staged[i].gen = g /\ IsFolder(d) /\ In(staged[i], d)}

\* The handle by which a staged file is known: its object's, once it has one.
NodeOf(i) == IF staged[i].remote = None THEN i
             ELSE [gen |-> staged[i].gen, object |-> staged[i].remote]

\* lookup_in_directory: a staged file of that name, else the phone's object.
FoundAnywhere(g, d, name) ==  \* mutant: staged files of other directories are found
  LET overlaid == {i \in files : staged[i].gen = g /\ staged[i].name = name} IN
  IF overlaid # {} THEN {NodeOf(i) : i \in overlaid}
  ELSE {[gen |-> g, object |-> h] : h \in {x \in Children(d) : phone[x].name = name}}
Find(g, d, name) ==
  LET overlaid == {i \in StagedIn(g, d) : staged[i].name = name} IN
  IF overlaid # {} THEN {NodeOf(i) : i \in overlaid}
  ELSE {[gen |-> g, object |-> h] : h \in {x \in Children(d) : phone[x].name = name}}

\* staged_id: the staged file a handle stands for, if there is one.
Overlay(node) == IF node \in File THEN node ELSE origins[node.gen][node.object]

\* attrs: does a handle answer?
NoGenerationCheck(node) ==  \* mutant: ensure_generation is forgotten
  LET i == Overlay(node) IN IF i # None THEN i \in files ELSE Exists(node.object)
Answers(node) ==
  LET i == Overlay(node) IN
  /\ node \notin File => node.gen = gen
  /\ IF i # None THEN i \in files ELSE Exists(node.object)

IsDirectory(node) == Overlay(node) = None /\ phone[node.object].folder

\* The document one gets by reading through a handle (no generation is checked).
DocAt(node) ==
  LET i == Overlay(node) IN
  IF i # None THEN (IF i \in files THEN staged[i].doc ELSE None)
  ELSE IF Exists(node.object) THEN phone[node.object].doc ELSE None

\* What a directory holds: the phone's objects; staged files that are not on the
\* phone yet take the place of what has their name.
NewIn(g, d) == {i \in StagedIn(g, d) : staged[i].remote = None}
NamesOf(new) == {staged[i].name : i \in new}
ObjectsIn(d) == {[name |-> phone[h].name, object |-> h] : h \in Children(d)}
WithNames(entries, names) ==
  {e \in entries : e.name \notin names} \cup {[name |-> n, object |-> None] : n \in names}
Entries(g, d) == WithNames(ObjectsIn(d), NamesOf(NewIn(g, d)))

-----------------------------------------------------------------------------
(* The documents' own names, for the properties.                           *)

Lives(d) == \/ \E i \in files : staged[i].doc = d
            \/ \E h \in Handle : Exists(h) /\ phone[h].doc = d

Overlaid(h) == \E i \in files : staged[i].gen = gen /\ staged[i].remote = h

\* The documents of that name, in that directory.
Named(d, name) ==
  {staged[i].doc : i \in {k \in StagedIn(gen, d) : staged[k].name = name}}
    \cup {phone[h].doc : h \in {x \in Children(d) : phone[x].name = name /\ ~Overlaid(x)}}

\* With those that still have that name on the phone, because a renaming has not
\* been committed yet.
Denoted(d, name) ==
  Named(d, name) \cup {phone[h].doc : h \in {x \in Children(d) : phone[x].name = name}}

-----------------------------------------------------------------------------
(* Looking up.                                                             *)

Free(j, call) ==
  /\ job[j].pc = "idle" /\ calls > 0 /\ calls' = calls - 1
  /\ call.op = "rename" => <<call.dir, call.name>> # <<call.to, call.toName>>

\* What is kept of the call is what its next steps use.
Goes(j, pc, call, node) ==
  job' = [job EXCEPT ![j] =
    [IdleJob EXCEPT !.pc = pc, !.gen = gen, !.node = node,
                    !.call = IF pc \in {"create", "mkdir", "target"} THEN call ELSE @,
                    !.doc = IF pc \in {"read", "write", "target"} THEN DocAt(node) ELSE @,
                    !.aimed = IF pc = "remove" THEN Denoted(call.dir, call.name) ELSE @]]

\* The first lookup finds something (bound: folders stay in a storage's root) ...
Found(j, call) ==
  /\ Free(j, call)
  /\ \E node \in Find(gen, call.dir, call.name) :
       \/ /\ call.op \in {"read", "write"} /\ ~IsDirectory(node)
          /\ Goes(j, call.op, call, node)
       \/ call.op = "remove" /\ ~IsDirectory(node) /\ Goes(j, "remove", call, node)
       \/ call.op = "rmdir" /\ IsDirectory(node) /\ Goes(j, "remove", call, node)
          \* create, unchecked, with a size: the file is staged and truncated.
       \/ call.op = "create" /\ ~IsDirectory(node) /\ Goes(j, "write", call, node)
       \/ /\ call.op = "rename" /\ (IsDirectory(node) => call.to \in Storage)
          /\ Goes(j, "target", call, node)
  /\ UNCHANGED <<gen, phone, area, reader, used, failures>>

\* ... or nothing, or fails: create and mkdir do not tell these apart.
NotFound(j, call) ==
  /\ Free(j, call) /\ call.op \in {"create", "mkdir"}
  /\ call.op = "mkdir" => call.dir \in Storage
  /\ IF Find(gen, call.dir, call.name) = {} THEN UNCHANGED failures ELSE Breaks("list")
  /\ Goes(j, call.op, call, None)
  /\ UNCHANGED <<gen, phone, area, reader, used>>

Ends(j) == job' = [job EXCEPT ![j] = IdleJob]
To(j, pc) == job' = [job EXCEPT ![j].pc = pc]

-----------------------------------------------------------------------------
(* Acting.                                                                 *)

\* StagingArea::create.
Creates(j) ==
  LET call == job[j].call
      i == CHOOSE k \in File : staged[k] = None
      d == CHOOSE x \in Doc : x \notin used
  IN
  /\ job[j].pc = "create"
  /\ \E k \in File : staged[k] = None
  /\ Doc \ used # {} /\ used' = used \cup {d}
  /\ IsFolder(call.dir)
  /\ staged' = [staged EXCEPT ![i] =
       [gen |-> job[j].gen, storage |-> StorageOf(call.dir), parent |-> ParentIn(call.dir),
        name |-> call.name, remote |-> None, dirty |-> TRUE, doc |-> d]]
  /\ files' = files \cup {i}
  /\ Ends(j)
  /\ UNCHANGED <<gen, phone, origins, reader, calls, failures>>

\* DeviceManager::create_folder.
MakesFolder(j) ==
  LET call == job[j].call
      d == CHOOSE x \in Doc : x \notin used
  IN
  /\ job[j].pc = "mkdir"
  /\ HandleLeft /\ Doc \ used # {} /\ used' = used \cup {d}
  /\ phone' = [phone EXCEPT ![NewHandle] =
       [parent |-> call.dir, name |-> call.name, folder |-> TRUE, doc |-> d]]
  /\ Ends(j)
  /\ UNCHANGED <<gen, area, reader, calls, failures>>

\* remove_handle.  The test for emptiness asks the phone only.
Removable(node, strict) ==
  LET i == Overlay(node) IN
  IF i # None THEN i \in files /\ (staged[i].remote # None => Exists(staged[i].remote))
  ELSE /\ Exists(node.object)
       /\ strict /\ phone[node.object].folder => Children(node.object) = {}

Discards(node) ==
  LET i == Overlay(node)
      h == IF i = None THEN node.object ELSE staged[i].remote
  IN
  /\ phone' = Without(phone, h)
  /\ files' = files \ {i}

RemoveObject(j) ==
  /\ job[j].pc = "remove"
  /\ \/ /\ Removable(job[j].node, FALSE)
        /\ Discards(job[j].node)
        /\ UNCHANGED failures
     \/ /\ IF Removable(job[j].node, FALSE) THEN Breaks("delete") ELSE UNCHANGED failures
        /\ UNCHANGED <<phone, files>>
  /\ Ends(j)
  /\ UNCHANGED <<gen, staged, origins, reader, used, calls>>

\* write, setattr and create with a size: an object that is not staged is staged.
\* The handle's generation is not looked at.
Write(j) ==
  LET node == job[j].node
      i == Overlay(node)
      k == CHOOSE x \in File : staged[x] = None
      o == phone[node.object]
  IN
  /\ job[j].pc = "write"
  /\ IF i # None
     THEN /\ staged' = IF i \in files THEN [staged EXCEPT ![i].dirty = TRUE] ELSE staged
          /\ UNCHANGED <<files, origins>>
     ELSE IF ~Exists(node.object) \/ o.folder THEN UNCHANGED area
     ELSE /\ \E x \in File : staged[x] = None
          /\ staged' = [staged EXCEPT ![k] =
               [gen |-> node.gen, storage |-> StorageOf(o.parent), parent |-> ParentIn(o.parent),
                name |-> o.name, remote |-> node.object, dirty |-> TRUE, doc |-> o.doc]]
          /\ files' = files \cup {k}
          /\ origins' = [origins EXCEPT ![node.gen][node.object] = k]
  /\ Ends(j)
  /\ UNCHANGED <<gen, phone, reader, bounds>>

\* read: the data first, whoever they belong to, then the attributes.
Read(j) ==
  /\ job[j].pc = "read"
  /\ job' = IF DocAt(job[j].node) = None THEN [job EXCEPT ![j] = IdleJob]
            ELSE [job EXCEPT ![j].pc = "attrs", ![j].data = DocAt(job[j].node)]
  /\ UNCHANGED <<gen, phone, area, reader, bounds>>

ReadAnswers(j) ==
  /\ job[j].pc = "attrs" /\ Answers(job[j].node)
  /\ Ends(j)
  /\ UNCHANGED <<gen, phone, area, reader, bounds>>

ReadRefused(j) ==
  /\ job[j].pc = "attrs" /\ ~Answers(job[j].node)
  /\ Ends(j)
  /\ UNCHANGED <<gen, phone, area, reader, bounds>>

-----------------------------------------------------------------------------
(* rename: look the destination up, remove what is there, rename.          *)

Differs(j, node) == node # job[j].node

TargetFound(j) ==
  LET call == job[j].call IN
  /\ job[j].pc = "target"
  /\ \E node \in Find(job[j].gen, call.to, call.toName) :
       job' = IF Differs(j, node)
              THEN [job EXCEPT ![j].pc = "clear", ![j].victim = node,
                               ![j].aimed = Denoted(call.to, call.toName)]
              ELSE [job EXCEPT ![j].pc = "rename"]
  /\ UNCHANGED <<gen, phone, area, reader, bounds>>

TargetMissing(j) ==
  LET call == job[j].call IN
  /\ job[j].pc = "target"
  /\ IF Find(job[j].gen, call.to, call.toName) = {} THEN UNCHANGED failures ELSE Breaks("list")
  /\ To(j, "rename")
  /\ UNCHANGED <<gen, phone, area, reader, used, calls>>

Clear(j) ==
  /\ job[j].pc = "clear"
  /\ \/ /\ Removable(job[j].victim, TRUE)
        /\ Discards(job[j].victim)
        /\ job' = [job EXCEPT ![j].pc = "rename", ![j].victim = None]
        /\ UNCHANGED failures
     \/ /\ IF Removable(job[j].victim, TRUE) THEN Breaks("delete") ELSE UNCHANGED failures
        /\ Ends(j)
        /\ UNCHANGED <<phone, files>>
  /\ UNCHANGED <<gen, staged, origins, reader, used, calls>>

\* A staged file is renamed here and committed later.  Its storage stays.
RenamesStaged(j) ==
  LET i == Overlay(job[j].node)
      call == job[j].call
  IN
  /\ job[j].pc = "rename" /\ i \in files
  /\ staged' = [staged EXCEPT ![i].parent = ParentIn(call.to), ![i].name = call.toName,
                              ![i].dirty = TRUE]
  /\ Ends(j)
  /\ UNCHANGED <<gen, phone, files, origins, reader, bounds>>

\* Any other object takes a request to move it and one to rename it (bound: folders
\* stay in a storage's root).
Movable(h, to) == Exists(h) /\ IsFolder(to) /\ (phone[h].folder => to \in Storage)
NameForgotten(j) ==  \* mutant: moved only
  /\ job[j].pc = "rename" /\ Overlay(job[j].node) = None
  /\ job[j].call.dir # job[j].call.to /\ Exists(job[j].node.object) /\ IsFolder(job[j].call.to)
  /\ phone' = [phone EXCEPT ![job[j].node.object].parent = job[j].call.to]
  /\ Ends(j)
  /\ UNCHANGED <<gen, area, reader, bounds>>
Moves(j) ==
  LET call == job[j].call
      h == job[j].node.object
  IN
  /\ job[j].pc = "rename" /\ Overlay(job[j].node) = None
  /\ call.dir # call.to /\ Movable(h, call.to)
  /\ phone' = [phone EXCEPT ![h].parent = call.to]
  /\ IF call.name = call.toName THEN Ends(j) ELSE To(j, "name")
  /\ UNCHANGED <<gen, area, reader, bounds>>

Renames(j) ==
  LET call == job[j].call
      h == job[j].node.object
  IN
  /\ \/ job[j].pc = "name"
     \/ job[j].pc = "rename" /\ Overlay(job[j].node) = None /\ call.dir = call.to
  /\ Exists(h)
  /\ phone' = [phone EXCEPT ![h].name = call.toName]
  /\ Ends(j)
  /\ UNCHANGED <<gen, area, reader, bounds>>

RenameFails(j) ==
  LET node == job[j].node
      i == Overlay(node)
  IN
  /\ job[j].pc \in {"rename", "name"}
  /\ IF i # None /\ job[j].pc = "rename" THEN i \notin files /\ UNCHANGED failures
     ELSE IF Movable(node.object, job[j].call.to) THEN Breaks("rename")
     ELSE UNCHANGED failures
  /\ Ends(j)
  /\ UNCHANGED <<gen, phone, area, reader, used, calls>>

-----------------------------------------------------------------------------
(* readdir and readdirplus.                                                *)

ByName(entries) ==
  MapThenFoldSet(LAMBDA e, listed : Append(listed, e), <<>>, LAMBDA e : e,
                 LAMBDA es : CHOOSE e \in es : \A x \in es : x.name <= e.name, entries)

\* "." and ".." come first, then the entries by name.
Dots == <<[name |-> 0, object |-> None], [name |-> 0, object |-> None]>>
Listing(entries) == Dots \o ByName(entries)

\* The cookie of an entry: its index in this listing.
CookieLong(index) == index + 1  \* mutant: one too many
CookieOf(index) == index

\* One answer: what follows the cookie in the listing that has just been made.
Answer(r) ==
  LET all == Listing(r.entries)
      start == IF r.cookie < Len(all) THEN r.cookie ELSE Len(all)
      end == IF start + Page < Len(all) THEN start + Page ELSE Len(all)
      got == {all[k].name : k \in {x \in start + 1 .. end : all[x].name # 0}}
  IN
  reader' = [r EXCEPT !.cookie = IF start < end THEN CookieOf(end) ELSE @,
                      !.last = IF start < end THEN all[end].name ELSE @,
                      !.eof = (end = Len(all)),
                      !.seen = @ \cup got,
                      !.twice = @ \/ got \cap r.seen # {},
                      !.pc = "idle", !.entries = {}]

\* directory_entries, one step for each thing it waits for.  First the phone's objects ...
FirstPage(d) ==
  /\ ~reader.on /\ calls > 0 /\ calls' = calls - 1
  /\ reader' = [IdleReader EXCEPT !.on = TRUE, !.dir = d, !.gen = gen,
                                  !.pc = "listed", !.entries = ObjectsIn(d)]
  /\ UNCHANGED <<gen, phone, area, job, used, failures>>

NextPage ==
  /\ reader.on /\ ~reader.eof /\ reader.pc = "idle"
  /\ reader.gen = gen /\ IsFolder(reader.dir)
  /\ reader' = [reader EXCEPT !.pc = "listed", !.entries = ObjectsIn(reader.dir)]
  /\ UNCHANGED <<gen, phone, area, job, bounds>>

\* ... then the staged files there are ...
TakesFiles ==
  /\ reader.pc = "listed"
  /\ reader' = [reader EXCEPT !.pc = "asking", !.ids = files]
  /\ UNCHANGED <<gen, phone, area, job, bounds>>

\* ... and each of them, whose lock a commit may hold: is it new, and in this directory?
AsksFile(i) ==
  /\ reader.pc = "asking" /\ i \in reader.ids
  /\ reader' = [reader EXCEPT !.ids = @ \ {i},
                              !.entries = WithNames(@, NamesOf({i} \cap NewIn(reader.gen, reader.dir)))]
  /\ UNCHANGED <<gen, phone, area, job, bounds>>

\* The folder's own entry is asked for, for "..".
ShowsPage ==
  /\ reader.pc = "asking" /\ reader.ids = {}
  /\ reader.dir \in Storage \/ Exists(reader.dir)
  /\ Answer(reader)
  /\ UNCHANGED <<gen, phone, area, job, bounds>>

\* The traversal is over, or given up: something has failed, or the directory has gone.
CloseDirectory ==
  /\ reader.on /\ reader' = IdleReader
  /\ UNCHANGED <<gen, phone, area, job, bounds>>

-----------------------------------------------------------------------------
(* The staging area and the phone.                                         *)

\* Sooner or later a staged file is committed: the new object is there before the old
\* one is deleted.
\* The handles are those of the session the file was staged in.
Commit(i) ==
  LET f == staged[i] IN
  /\ i \in files /\ f.dirty /\ HandleLeft
  /\ f.parent # Top => IsFolder(f.parent)
  /\ f.remote # None => Exists(f.remote)
  /\ phone' = Without([phone EXCEPT ![NewHandle] =
       [parent |-> IF f.parent = Top THEN f.storage ELSE f.parent,
        name |-> f.name, folder |-> FALSE, doc |-> f.doc]], f.remote)
  /\ staged' = [staged EXCEPT ![i].remote = NewHandle, ![i].dirty = FALSE]
  /\ origins' = [origins EXCEPT ![f.gen][NewHandle] = i]
  /\ UNCHANGED <<gen, files, job, reader, bounds>>

\* The phone is connected again: a new session, in which its objects have new
\* handles; the one that has handle h now had handle old[h] before.
NewDir(old, d) == IF d \in Storage THEN d ELSE CHOOSE h \in Handle : old[h] = d
Replug(old) ==
  /\ gen <= MaxReplugs /\ gen' = gen + 1
  /\ phone' = [h \in Handle |->
       LET o == phone[old[h]] IN
       IF o = None THEN None ELSE [o EXCEPT !.parent = NewDir(old, @)]]
  /\ UNCHANGED <<area, job, reader, bounds>>

-----------------------------------------------------------------------------
\* At first: a folder and two files, one of them written, and committed, before.
Init ==
  LET s == CHOOSE x \in Storage : TRUE
      h == CHOOSE f \in [1 .. 3 -> Handle] : \A a, b \in 1 .. 3 : f[a] = f[b] => a = b
      d == CHOOSE f \in [1 .. 3 -> Doc] : \A a, b \in 1 .. 3 : f[a] = f[b] => a = b
      i == CHOOSE x \in File : TRUE
  IN
  /\ gen = 1
  /\ \E p \in {s, h[1]} :
       phone = [x \in Handle |->
         IF x = h[1] THEN [parent |-> s, name |-> 1, folder |-> TRUE, doc |-> d[1]]
         ELSE IF x = h[2] THEN [parent |-> p, name |-> 2, folder |-> FALSE, doc |-> d[2]]
         ELSE IF x = h[3] THEN [parent |-> s, name |-> 3, folder |-> FALSE, doc |-> d[3]]
         ELSE None]
  /\ staged = [x \in File |->
       IF x = i THEN [gen |-> 1, storage |-> s, parent |-> Top, name |-> 3,
                      remote |-> h[3], dirty |-> FALSE, doc |-> d[3]]
       ELSE None]
  /\ files = {i}
  /\ origins = [g \in Generation |->
       [x \in Handle |-> IF g = 1 /\ x = h[3] THEN i ELSE None]]
  /\ job = [j \in Job |-> IdleJob]
  /\ reader = IdleReader
  /\ used = {d[1], d[2], d[3]}
  /\ watch = IdleWatch /\ alone = [j \in Job |-> TRUE]
  /\ calls = MaxCalls /\ failures = MaxFailures

Continues(j) ==
  \/ Creates(j) \/ MakesFolder(j) \/ RemoveObject(j) \/ Write(j)
  \/ Read(j) \/ ReadAnswers(j) \/ ReadRefused(j)
  \/ TargetFound(j) \/ TargetMissing(j) \/ Clear(j)
  \/ RenamesStaged(j) \/ Moves(j) \/ Renames(j) \/ RenameFails(j)

ReadsDirectory ==
  \/ \E d \in Folder : FirstPage(d)
  \/ NextPage \/ TakesFiles \/ ShowsPage \/ CloseDirectory
  \/ \E i \in File : AsksFile(i)

Step ==
  \/ \E j \in Job : \/ Continues(j)
                    \/ \E call \in Call(Folder) : Found(j, call) \/ NotFound(j, call)
  \/ ReadsDirectory
  \/ \E i \in File : Commit(i)
  \/ \E old \in Renumbering : Replug(old)

\* The history variables: names the directory has had ever since the traversal
\* began; whether entries before the cookie have become fewer, or more, between two
\* answers, or anything has gone, or changed, while one was being made; and whether
\* two entries have had one name.  A new file goes, as such, when it is committed.
Before(r) == Cardinality({e \in Entries(r.gen, r.dir) : e.name <= r.last})
NamesIn(r) == {e.name : e \in Entries(r.gen, r.dir)}
Namesakes(r) == Cardinality(NamesIn(r)) # Cardinality(Entries(r.gen, r.dir))
Content(r) == [entries |-> Entries(r.gen, r.dir),
               new |-> {[file |-> i, name |-> staged[i].name] : i \in NewIn(r.gen, r.dir)}]
Loses(r) == ~(Content(r).entries \subseteq Content(r)'.entries
             /\ Content(r).new \subseteq Content(r)'.new)

Observe ==
  /\ \E r \in {reader}, q \in {reader'} :
       watch' = IF ~q.on THEN IdleWatch
                ELSE IF ~r.on THEN [IdleWatch EXCEPT !.steady = NamesIn(q)', !.namesakes = Namesakes(q)']
                ELSE [steady |-> watch.steady \cap NamesIn(r)',
                      shrunk |-> \/ watch.shrunk
                                 \/ IF r.pc = "idle" THEN Before(r)' < Before(r) ELSE Loses(r),
                      grown  |-> \/ watch.grown
                                 \/ IF r.pc = "idle" THEN Before(r)' > Before(r)
                                    ELSE Content(r)' # Content(r),
                      namesakes |-> watch.namesakes \/ Namesakes(r)']
  /\ alone' = [j \in Job |->
       \/ job[j].pc = "idle"
       \/ alone[j] /\ (job'[j] # job[j] \/ UNCHANGED <<gen, phone, area>>)]

Next == Step /\ Observe
Spec == Init /\ [][Next]_vars

-----------------------------------------------------------------------------
TypeOK ==
  /\ gen \in Generation
  /\ phone \in [Handle -> Object \cup {None}]
  /\ staged \in [File -> Staged \cup {None}]
  /\ files \subseteq {i \in File : staged[i] # None}
  /\ origins \in [Generation -> [Handle -> File \cup {None}]]
  /\ job \in [Job -> [pc : PC, call : Call(Dir) \cup {NoCall}, gen : Generation,
                      node : Node \cup {None}, victim : Node \cup {None},
                      doc : Doc \cup {None}, data : Doc \cup {None}, aimed : SUBSET Doc]]
  /\ reader \in [on : BOOLEAN, dir : Dir \cup {None}, gen : Generation, cookie : Nat, last : Nat,
                 eof : BOOLEAN, seen : SUBSET Name, twice : BOOLEAN, pc : {"idle", "listed", "asking"},
                 entries : SUBSET [name : Name, object : Handle \cup {None}], ids : SUBSET File]
  /\ reader.on => reader.dir \in Dir
  /\ used \subseteq Doc /\ calls \in 0 .. MaxCalls /\ failures \in 0 .. MaxFailures
  /\ watch \in [steady : SUBSET Name, shrunk : BOOLEAN, grown : BOOLEAN, namesakes : BOOLEAN]
  /\ alone \in [Job -> BOOLEAN]

\* What a call is out to remove: what its name denoted, and whatever is in it.
Doomed(j) ==
  job[j].aimed \cup {phone[h].doc : h \in {x \in Handle : /\ Exists(x) /\ Exists(phone[x].parent)
                                                        /\ phone[phone[x].parent].doc \in job[j].aimed}}

OfEarlierSession ==
  \/ \E j \in Job : job'[j] # job[j] /\ job[j].gen # gen
  \/ \E i \in files : staged'[i] # staged[i] /\ staged[i].gen # gen

\* No bystander is lost: a document disappears only through a call that named it,
\* by its name or by the one it still has on the phone (nfs.rs
\* lookup_in_directory, remove_handle, rename), except by what is begun in one
\* session of the phone and done in the next.
NoBystander ==
  [][\A d \in used : Lives(d) /\ ~Lives(d)' =>
       \/ \E j \in Job : job'[j] # job[j] /\ d \in Doomed(j)
       \/ OfEarlierSession]_vars

\* A READ that answers has read the document its handle was given for, whatever
\* happened in between (nfs.rs read, attrs, ensure_generation).
ReadsOwn == [][\A j \in Job : ReadAnswers(j) => job[j].data = job[j].doc]_vars

\* A document is in one place: one object, one staged file, and if both, this over that.
Single(d) ==
  LET objects == {h \in Handle : Exists(h) /\ phone[h].doc = d}
      over == {i \in files : staged[i].doc = d}
  IN  /\ \A g, h \in objects : g = h
      /\ \A i, k \in over : i = k
      /\ \A h \in objects, i \in over : staged[i].gen = gen /\ staged[i].remote = h

\* A RENAME that nothing interferes with, and that succeeds, has put its document
\* at the new name and taken the old one away (a staged file only within its
\* storage; a document of which a commit of a file staged in an earlier session has
\* left two copies excepted).
RenamesExactly ==
  [][\A j \in Job : \A call \in {job[j].call} :
       /\ alone[j] /\ Single(job[j].doc)
       /\ RenamesStaged(j) \/ Renames(j) \/ (Moves(j) /\ job'[j].pc = "idle")
       /\ \A i \in {Overlay(job[j].node)} \ {None} : staged[i].storage = StorageOf(call.to)
       => /\ job[j].doc \in Named(call.to, call.toName)'
          /\ job[j].doc \notin Named(call.dir, call.name)']_vars

\* A directory that is read to its end has shown every name it had all the time,
\* unless entries before the cookie went away between two answers, or anything went
\* away while an answer was being made; and none twice, unless entries were added
\* there, or anything changed while an answer was being made, or two had the same
\* name.  A new file whose first commit ends between the listing and the question
\* to it is one that goes away: the answer has neither it nor its object, though its
\* name was there throughout (nfs.rs directory_entries, readdir, readdirplus).
Traversed ==
  reader.eof => /\ watch.steady \subseteq reader.seen \/ watch.shrunk
                /\ reader.twice => watch.grown \/ watch.namesakes
=============================================================================
