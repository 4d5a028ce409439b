---------------------------- MODULE Staging_proofs ----------------------------
(***************************************************************************)
(* Theorems about the staging area, for any number of files, objects and   *)
(* jobs: one overlay for each object, what a clean file means, that a      *)
(* commit on a phone that renames implements WriteBack, and that only      *)
(* requests that fail leave objects of the daemon's own behind.            *)
(***************************************************************************)
EXTENDS Staging, FiniteSetTheorems, TLAPS

-----------------------------------------------------------------------------
(* Types, and what a job has at hand.                                      *)

CommitPC == {"upload", "upload_temporary", "rename_old", "rename_temporary", "restore_old",
             "give_up", "delete_old", "drop_temporary", "delete_original", "upload_again"}
FilePC   == {"write", "rename", "schedule", "remove", "unmap", "unlink", "commit"}
              \cup CommitPC
JobType  == [pc : PC, call : Call, id : File \cup {None}, temp : Handle \cup {None},
             name : Name \cup {None}, data : Nat, todo : SUBSET File]

\* A commit holds the lock of its file, which stays dirty meanwhile, and knows whether
\* the phone has an object of it.
Commits(j) ==
  /\ lock[job[j].id] = j
  /\ Mine(j).dirty /\ ~Mine(j).local_only
  /\ job[j].pc = "upload" <=> Mine(j).remote = None

Fits(j) ==
  /\ job[j].pc \in FilePC => job[j].id \in File /\ file[job[j].id] # None
  /\ job[j].pc \in {"download", "publish"} =>
       /\ j \in Job /\ job[j].call.op = "write" /\ job[j].call.node \in Handle
       /\ job[j].name \in Place
  /\ job[j].pc = "publish" => job[j].data >= 1
  /\ job[j].pc = "direct" => /\ job[j].call.op \in {"remove", "rename"}
                             /\ job[j].call.node \in Handle
  /\ job[j].pc = "write" => job[j].call.op = "write"
  /\ job[j].pc = "rename" => job[j].call.op = "rename"
  /\ job[j].pc = "unmap" => j \in Job
  /\ job[j].pc \in CommitPC => Commits(j)
  /\ job[j].pc \in CommitPC \ {"upload", "upload_temporary"} => job[j].temp \in Handle

Typed ==
  /\ TypeOK
  /\ \A h \in Handle : device[h] # None => device[h].data >= 1
  /\ timers \subseteq [id : File, revision : Nat]
  /\ \A timer \in timers : file[timer.id] # None
  /\ \A i \in File : file[i] = None => committed[i] = 0 /\ lock[i] = None

TypeInv == Typed /\ \A j \in Job_ : Fits(j)

LEMMA CallType ==
  ASSUME NEW c \in Call
  PROVE  /\ c.op \in {"write", "commit", "remove", "rename", "flush"}
         /\ c.op # "flush" => c.node \in Node
         /\ c.op = "write" => c.then \in {"schedule", "commit", "nothing"}
         /\ c.op = "rename" => c.name \in Place
  BY DEF Call

LEMMA IdleType ==
  /\ IdleJob \in JobType /\ IdleJob.pc = "idle" /\ IdleJob.temp = None
  /\ IdleJob.call.op = "flush"
<1>1. NoCall \in Call /\ NoCall.op = "flush"
  BY DEF NoCall, Call
<1> QED BY <1>1 DEF IdleJob, JobType, PC

LEMMA ObjectType ==
  ASSUME Typed
  PROVE  /\ \A h \in Handle : device[h] # None => device[h] \in Object
         /\ \A i \in File : file[i] # None =>
              /\ file[i] \in Staged /\ file[i].content \in Nat /\ file[i].revision \in Nat
              /\ file[i].content >= 1 /\ file[i].content <= file[i].revision
         /\ job \in [Job_ -> JobType]
  BY DEF Typed, TypeOK, JobType, Staged

Others(j) == \A k \in Job_ \ {j} : job'[k] = job[k]
Same(j)   == /\ job'[j].call = job[j].call /\ job'[j].id = job[j].id
             /\ job'[j].temp = job[j].temp /\ job'[j].name = job[j].name
             /\ job'[j].data = job[j].data /\ job'[j].todo = job[j].todo

LEMMA ToType ==
  ASSUME Typed, NEW j \in Job_, NEW pc \in PC, To(j, pc)
  PROVE  job' \in [Job_ -> JobType] /\ job'[j].pc = pc /\ Same(j) /\ Others(j)
<1>1. job \in [Job_ -> JobType]
  BY ObjectType
<1>2. [job[j] EXCEPT !.pc = pc] \in JobType
  BY <1>1 DEF JobType
<1>3. job' = [job EXCEPT ![j] = [job[j] EXCEPT !.pc = pc]]
  BY DEF To
<1> QED BY <1>1, <1>2, <1>3 DEF JobType, Same, Others

LEMMA AfterType ==
  ASSUME Typed, NEW j \in Job_, After(j)
  PROVE  /\ job' \in [Job_ -> JobType] /\ Others(j)
         /\ job'[j].pc \in {"idle", "flush"} /\ job'[j].temp = None
         /\ job'[j].call.op = "flush"
<1> DEFINE r == IF job[j].todo = {} THEN IdleJob
                ELSE [IdleJob EXCEPT !.pc = "flush", !.todo = job[j].todo]
<1>1. job \in [Job_ -> JobType]
  BY ObjectType
<1>2. job' = [job EXCEPT ![j] = r]
  BY DEF After
<1>3. job[j].todo \in SUBSET File
  BY <1>1 DEF JobType
<1>4. /\ r \in JobType /\ r.pc \in {"idle", "flush"} /\ r.temp = None
      /\ r.call.op = "flush"
  BY <1>3, IdleType DEF JobType, PC, IdleJob
<1> HIDE DEF r
<1> QED BY <1>1, <1>2, <1>4 DEF Others

LEMMA NewHandleType ==
  ASSUME Unknown # {}
  PROVE  /\ NewHandle \in Handle /\ device[NewHandle] = None /\ origins[NewHandle] = None
         /\ \A i \in File : file[i] # None => file[i].remote # NewHandle
         /\ \A j \in Job_ : /\ job[j].temp # NewHandle
                            /\ job[j].call.op # "flush" => job[j].call.node # NewHandle
  BY DEF Unknown, NewHandle

LEMMA NewFileType ==
  ASSUME Unused # {} PROVE NewFile \in File /\ file[NewFile] = None
  BY DEF Unused, NewFile

\* A job that takes no step keeps what it has: the others leave locked files alone.
LEMMA OthersFit ==
  ASSUME TypeInv, NEW j \in Job_, Others(j),
         \A i \in File : file[i] # None => file'[i] # None,
         \A i \in File : lock[i] \in Job_ \ {j} => lock'[i] = lock[i] /\ file'[i] = file[i]
  PROVE  \A k \in Job_ \ {j} : Fits(k)'
<1> SUFFICES ASSUME NEW k \in Job_ \ {j} PROVE Fits(k)'
  OBVIOUS
<1>1. Fits(k) /\ job'[k] = job[k]
  BY DEF TypeInv, Others
<1>2. job[k].pc \in CommitPC => Commits(k)'
  <2> SUFFICES ASSUME job[k].pc \in CommitPC PROVE Commits(k)'
    OBVIOUS
  <2>1. Commits(k) /\ job[k].id \in File
    BY <1>1 DEF Fits, FilePC
  <2>2. lock'[job[k].id] = k /\ file'[job[k].id] = file[job[k].id]
    BY <2>1 DEF Commits
  <2> QED BY <1>1, <2>1, <2>2 DEF Commits, Mine
<1> QED BY <1>1, <1>2 DEF Fits

LEMMA SetJob ==
  ASSUME Typed, NEW j \in Job_, NEW r \in JobType, job' = [job EXCEPT ![j] = r]
  PROVE  job' \in [Job_ -> JobType] /\ Others(j) /\ job'[j] = r
  BY ObjectType DEF Others

LEMMA FitAll ==
  ASSUME TypeInv, NEW j \in Job_, Others(j), Typed', Fits(j)',
         \A i \in File : file[i] # None => file'[i] # None,
         \A i \in File : lock[i] \in Job_ \ {j} => lock'[i] = lock[i] /\ file'[i] = file[i]
  PROVE  TypeInv'
  BY OthersFit DEF TypeInv

LEMMA BreaksType ==
  ASSUME Typed, NEW request, Breaks(request)
  PROVE  failures' \in 0 .. MaxFailures
  BY BoundAssumption DEF Typed, TypeOK, Breaks

LEMMA CallsType ==
  ASSUME Typed, calls > 0, calls' = calls - 1 PROVE calls' \in 0 .. MaxCalls
  BY BoundAssumption DEF Typed, TypeOK

\* Steps that change nothing but the job, timers, a local copy and the bounds.
TalkFrame ==
  /\ UNCHANGED <<device, file, files, origins, ghost>>
  /\ disk' \subseteq disk
  /\ timers' \subseteq timers
  /\ failures' \in 0 .. MaxFailures /\ calls' \in 0 .. MaxCalls

LEMMA TalkType ==
  ASSUME TypeInv, TalkFrame, NEW j \in Job_, Others(j), job' \in [Job_ -> JobType],
         lock' \in [File -> Job_ \cup {None}],
         \A i \in File : lock[i] \in Job_ \ {j} => lock'[i] = lock[i],
         \A i \in File : file[i] = None => lock'[i] = None,
         Fits(j)'
  PROVE  TypeInv'
<1>1. Typed'
  BY DEF TypeInv, Typed, TypeOK, TalkFrame, ghost, JobType
<1>2. file' = file
  BY DEF TalkFrame
<1> QED BY <1>1, <1>2, FitAll

\* The same where the job takes and gives back no lock.
LEMMA TalkTypeUnlocked ==
  ASSUME TypeInv, TalkFrame, NEW j \in Job_, Others(j), job' \in [Job_ -> JobType],
         UNCHANGED lock, Fits(j)'
  PROVE  TypeInv'
<1>1. /\ lock' \in [File -> Job_ \cup {None}] /\ \A i \in File : lock'[i] = lock[i]
      /\ \A i \in File : file[i] = None => lock'[i] = None
  BY DEF TypeInv, Typed, TypeOK
<1> QED BY <1>1, TalkType

LEMMA FrameTypes ==
  ASSUME Typed
  PROVE  /\ failures \in 0 .. MaxFailures
         /\ calls \in 0 .. MaxCalls
         /\ lock \in [File -> Job_ \cup {None}]
         /\ files \subseteq File
         /\ \A i \in files : file[i] # None
         /\ \A i \in File : file[i] = None => lock[i] = None
  BY DEF Typed, TypeOK

-----------------------------------------------------------------------------
(* NFS calls.                                                              *)

LEMMA ArrivesType ==
  ASSUME Typed, NEW j \in Job, NEW call \in Call, Arrives(j, call)
  PROVE  /\ TalkFrame /\ UNCHANGED lock /\ call.op # "flush" /\ call.node \in Node
         /\ Visible(call.node) /\ job[j].pc = "idle" /\ j \in Job_
  BY CallsType, FrameTypes, CallType DEF Arrives, TalkFrame, area, Job_

LEMMA FoundType ==
  ASSUME TypeInv, NEW j \in Job, NEW call \in Call, Found(j, call) PROVE TypeInv'
<1> DEFINE id == Overlay(call.node)
           r == [job[j] EXCEPT !.pc = call.op, !.call = call, !.id = id]
<1>0. Typed /\ j \in Job_
  BY DEF TypeInv, Job_
<1>1. TalkFrame /\ UNCHANGED lock /\ call.op # "flush"
  BY <1>0, ArrivesType DEF Found
<1>2. id \in File /\ file[id] # None
  BY <1>0, FrameTypes DEF Found
<1>3. job' = [job EXCEPT ![j] = r]
  BY DEF Found
<1>4. call.op \in {"write", "commit", "remove", "rename"}
  BY <1>1, CallType
<1>5. job[j] \in JobType
  BY <1>0, ObjectType
<1>6. r \in JobType /\ r.pc = call.op /\ r.call = call /\ r.id = id
  BY <1>2, <1>4, <1>5 DEF JobType, PC
<1> HIDE DEF r, id
<1>7. job' \in [Job_ -> JobType] /\ Others(j) /\ job'[j] = r
  BY <1>0, <1>3, <1>6, SetJob
<1>8. Fits(j)'
  BY <1>1, <1>2, <1>4, <1>6, <1>7 DEF Fits, FilePC, CommitPC, TalkFrame
<1> QED BY <1>0, <1>1, <1>7, <1>8, TalkTypeUnlocked, FrameTypes

LEMMA DirectType ==
  ASSUME TypeInv, NEW j \in Job, NEW call \in Call, Direct(j, call) PROVE TypeInv'
<1> DEFINE r == [job[j] EXCEPT !.pc = "direct", !.call = call]
<1>0. Typed /\ j \in Job_
  BY DEF TypeInv, Job_
<1>1. TalkFrame /\ UNCHANGED lock /\ call.node \in Node
  BY <1>0, ArrivesType DEF Direct
<1>2. call.node \in Handle
  BY <1>1, SentinelAssumption DEF Direct, Overlay, Node
<1>3. job' = [job EXCEPT ![j] = r]
  BY DEF Direct
<1>5. job[j] \in JobType
  BY <1>0, ObjectType
<1>6. r \in JobType /\ r.pc = "direct" /\ r.call = call
  BY <1>5 DEF JobType, PC
<1> HIDE DEF r
<1>7. job' \in [Job_ -> JobType] /\ Others(j) /\ job'[j] = r
  BY <1>0, <1>3, <1>6, SetJob
<1>8. Fits(j)'
  BY <1>2, <1>6, <1>7 DEF Fits, FilePC, CommitPC, Direct
<1> QED BY <1>0, <1>1, <1>7, <1>8, TalkTypeUnlocked, FrameTypes

\* A job that reads an object's metadata has seen it, by its name.
LEMMA DescribeSees ==
  ASSUME TypeInv, NEW j \in Job, NEW call \in Call, Describe(j, call)
  PROVE  /\ call.node \in Handle /\ device[call.node] # None
         /\ device[call.node].name \in Place /\ origins[call.node] = None
         /\ \A k \in Job_ : job[k].temp # call.node
<1>1. call.node \in Node /\ Visible(call.node)
  BY ArrivesType DEF Describe, TypeInv
<1>2. call.node \in Handle /\ call.node \notin File /\ origins[call.node] = None
  BY <1>1, SentinelAssumption, HandleAssumption DEF Describe, Overlay, Node
<1> QED BY <1>1, <1>2 DEF Visible

LEMMA DescribeType ==
  ASSUME TypeInv, NEW j \in Job, NEW call \in Call, Describe(j, call) PROVE TypeInv'
<1> DEFINE r == [job[j] EXCEPT !.pc = "download", !.call = call,
                               !.name = device[call.node].name]
<1>0. Typed /\ j \in Job_
  BY DEF TypeInv, Job_
<1>1. TalkFrame /\ UNCHANGED lock /\ call.op = "write"
  BY <1>0, ArrivesType DEF Describe
<1>2. call.node \in Handle /\ device[call.node].name \in Place
  BY DescribeSees
<1>3. job' = [job EXCEPT ![j] = r]
  BY DEF Describe
<1>5. job[j] \in JobType
  BY <1>0, ObjectType
<1>6. r \in JobType /\ r.pc = "download" /\ r.call = call /\ r.name \in Place
  BY <1>2, <1>5 DEF JobType, PC, Name
<1> HIDE DEF r
<1>7. job' \in [Job_ -> JobType] /\ Others(j) /\ job'[j] = r
  BY <1>0, <1>3, <1>6, SetJob
<1>8. Fits(j)'
  BY <1>1, <1>2, <1>6, <1>7 DEF Fits, FilePC, CommitPC
<1> QED BY <1>0, <1>1, <1>7, <1>8, TalkTypeUnlocked, FrameTypes

\* The end of a call, of a commit without success, or of one turn of the flush.
LEMMA AfterFits ==
  ASSUME Typed, NEW j \in Job_, After(j)
  PROVE  Fits(j)'
  BY AfterType DEF Fits, FilePC, CommitPC

LEMMA TalkAfterType ==
  ASSUME TypeInv, TalkFrame, NEW j \in Job_, After(j),
         lock' \in [File -> Job_ \cup {None}],
         \A i \in File : lock[i] \in Job_ \ {j} => lock'[i] = lock[i],
         \A i \in File : file[i] = None => lock'[i] = None
  PROVE  TypeInv'
  BY AfterType, AfterFits, TalkType DEF TypeInv

LEMMA TalkAfterUnlocked ==
  ASSUME TypeInv, TalkFrame, NEW j \in Job_, After(j), UNCHANGED lock
  PROVE  TypeInv'
  BY AfterType, AfterFits, TalkTypeUnlocked DEF TypeInv

LEMMA DownloadType ==
  ASSUME TypeInv, NEW j \in Job, Download(j) PROVE TypeInv'
<1>0. Typed /\ j \in Job_ /\ Fits(j) /\ job[j].pc = "download"
  BY DEF TypeInv, Job_, Download
<1>1. TalkFrame /\ UNCHANGED lock
  BY <1>0, FrameTypes DEF Download, TalkFrame, area
<1> DEFINE h == job[j].call.node
           r == [job[j] EXCEPT !.pc = "publish", !.data = device[h].data]
<1>2. CASE Exists(h)
  <2>1. device[h] # None /\ device[h].data \in Nat /\ device[h].data >= 1
    BY <1>0, <1>2, ObjectType DEF Fits, Exists, Object, Typed
  <2>2. job' = [job EXCEPT ![j] = r] /\ job[j] \in JobType
    BY <1>0, <1>2, ObjectType DEF Download
  <2>3. r \in JobType /\ r.pc = "publish" /\ r.call = job[j].call /\ r.name = job[j].name
        /\ r.data >= 1
    BY <2>1, <2>2 DEF JobType, PC
  <2> HIDE DEF r
  <2>4. job' \in [Job_ -> JobType] /\ Others(j) /\ job'[j] = r
    BY <1>0, <2>2, <2>3, SetJob
  <2>5. Fits(j)'
    BY <1>0, <2>3, <2>4 DEF Fits, FilePC, CommitPC
  <2> QED BY <1>0, <1>1, <2>4, <2>5, TalkTypeUnlocked, FrameTypes
<1>3. CASE ~Exists(h)
  BY <1>0, <1>1, <1>3, TalkAfterUnlocked, FrameTypes DEF Download
<1> QED BY <1>2, <1>3

LEMMA PublishedMeanwhileType ==
  ASSUME TypeInv, NEW j \in Job, PublishedMeanwhile(j) PROVE TypeInv'
<1>0. Typed /\ j \in Job_ /\ Fits(j) /\ job[j].pc = "publish"
  BY DEF TypeInv, Job_, PublishedMeanwhile
<1>1. TalkFrame /\ UNCHANGED lock
  BY <1>0, FrameTypes DEF PublishedMeanwhile, TalkFrame, area
<1> DEFINE id == origins[job[j].call.node]
           r == [job[j] EXCEPT !.pc = "write", !.id = id]
<1>2. CASE id \in files
  <2>1. id \in File /\ file[id] # None
    BY <1>0, <1>2, FrameTypes
  <2>2. job' = [job EXCEPT ![j] = r] /\ job[j] \in JobType
    BY <1>0, <1>2, ObjectType DEF PublishedMeanwhile
  <2> HIDE DEF id
  <2>3. r \in JobType /\ r.pc = "write" /\ r.call = job[j].call /\ r.id = id
    BY <2>1, <2>2 DEF JobType, PC
  <2> HIDE DEF r
  <2>4. job' \in [Job_ -> JobType] /\ Others(j) /\ job'[j] = r
    BY <1>0, <2>2, <2>3, SetJob
  <2>5. Fits(j)'
    BY <1>0, <1>1, <2>1, <2>3, <2>4 DEF Fits, FilePC, CommitPC, TalkFrame
  <2> QED BY <1>0, <1>1, <2>4, <2>5, TalkTypeUnlocked, FrameTypes
<1>3. CASE id \notin files
  BY <1>0, <1>1, <1>3, TalkAfterUnlocked, FrameTypes DEF PublishedMeanwhile
<1> QED BY <1>2, <1>3

LEMMA ReachesType ==
  ASSUME TypeInv, NEW j \in Job, Reaches(j) PROVE TypeInv'
<1>0. Typed /\ j \in Job_ /\ Fits(j) /\ job[j].pc = "direct" /\ After(j)
  BY DEF TypeInv, Job_, Reaches
<1>1. UNCHANGED <<file, files, disk, origins, timers, lock, failures, calls, committed, inPlace>>
  BY DEF Reaches, area
<1> DEFINE call == job[j].call
<1>2. call \in Call /\ call.node \in Handle /\ call.op \in {"remove", "rename"}
  BY <1>0, ObjectType DEF Fits, JobType
<1>3. /\ device' \in [Handle -> Object \cup {None}]
      /\ \A h \in Handle : device'[h] # None => device'[h].data >= 1
  <2>1. CASE ~Exists(call.node)
    BY <1>0, <2>1 DEF Reaches, Typed, TypeOK
  <2>2. CASE Exists(call.node) /\ call.op = "remove"
    BY <1>0, <1>2, <2>2 DEF Reaches, Typed, TypeOK
  <2>3. CASE Exists(call.node) /\ call.op = "rename"
    <3>1. call.name \in Name /\ device[call.node] \in Object /\ device[call.node].data >= 1
      BY <1>0, <1>2, <2>3, CallType, ObjectType DEF Name, Exists, Typed
    <3>2. device' = [device EXCEPT ![call.node].name = call.name]
      BY <1>2, <2>3 DEF Reaches
    <3> QED BY <1>0, <1>2, <3>1, <3>2 DEF Typed, TypeOK, Object
  <2> QED BY <1>2, <2>1, <2>2, <2>3
<1>4. crossed' \subseteq Handle
  BY <1>0, <1>2 DEF Reaches, Typed, TypeOK
<1>5. Typed'
  BY <1>0, <1>1, <1>3, <1>4, AfterType DEF Typed, TypeOK, JobType
<1> QED BY <1>0, <1>1, <1>5, FitAll, AfterType, AfterFits

\* A new file, of a node that has no other.
LEMMA CreateType ==
  ASSUME TypeInv, NEW name \in Place, Create(name) PROVE TypeInv'
<1> DEFINE id == NewFile
           f == [name |-> name, remote |-> None, local_only |-> name \in Meta,
                 dirty |-> TRUE, revision |-> 1, content |-> 1]
<1>0. Typed /\ id \in File /\ file[id] = None
  BY NewFileType DEF TypeInv, Create
<1>1. /\ file' = [file EXCEPT ![id] = f] /\ files' = files \cup {id} /\ disk' = disk \cup {id}
      /\ UNCHANGED <<device, origins, lock, timers, job, failures, ghost>>
  BY DEF Create
<1>2. f \in Staged /\ f # None /\ f.content = 1 /\ f.revision = 1
  <2>1. (name \in Meta) \in BOOLEAN
    BY SMT
  <2>2. f \in Staged
    <3> DEFINE b == name \in Meta
    <3> HIDE DEF b
    <3>1. [name |-> name, remote |-> None, local_only |-> b,
           dirty |-> TRUE, revision |-> 1, content |-> 1] \in Staged
      BY <2>1 DEF Staged, b
    <3> QED BY <3>1 DEF b
  <2> QED BY <2>2, RecordAssumption DEF Staged
<1>3. calls' \in 0 .. MaxCalls
  BY <1>0, CallsType DEF Create
<1> HIDE DEF f, id
<1>4. \A i \in File : file[i] # None => file'[i] = file[i] /\ i # id
  BY <1>0, <1>1 DEF Typed, TypeOK
<1>5. Typed'
  <2>1. file' \in [File -> Staged \cup {None}] /\ file'[id] = f
    BY <1>0, <1>1, <1>2 DEF Typed, TypeOK
  <2>2. \A i \in File : file'[i] # None => file'[i].content \in 1 .. file'[i].revision
    BY <1>0, <1>1, <1>2, <2>1 DEF Typed, TypeOK
  <2>3. \A timer \in timers' : /\ file'[timer.id] # None
                               /\ timer.revision \in 1 .. file'[timer.id].revision
    BY <1>0, <1>1, <1>4 DEF Typed, TypeOK
  <2>4. \A i \in File : file'[i] = None => committed'[i] = 0 /\ lock'[i] = None
    BY <1>0, <1>1, <1>4 DEF Typed, ghost
  <2>5. files' \subseteq {i \in File : file'[i] # None} /\ disk' \subseteq File
    BY <1>0, <1>1, <1>2, <1>4, <2>1 DEF Typed, TypeOK
  <2> QED BY <1>0, <1>1, <1>3, <2>1, <2>2, <2>3, <2>4, <2>5 DEF Typed, TypeOK, ghost, JobType
<1>6. ASSUME NEW k \in Job_ PROVE Fits(k)'
  <2>1. Fits(k) /\ job' = job /\ lock' = lock
    BY <1>1 DEF TypeInv
  <2>2. job[k].pc \in CommitPC => Commits(k)'
    BY <1>4, <2>1 DEF Fits, FilePC, Commits, Mine
  <2> QED BY <1>4, <2>1, <2>2 DEF Fits
<1> QED BY <1>5, <1>6 DEF TypeInv

LEMMA PublishType ==
  ASSUME TypeInv, NEW j \in Job, Publish(j) PROVE TypeInv'
<1> DEFINE id == NewFile
           h == job[j].call.node
           f == [name |-> job[j].name, remote |-> h, local_only |-> FALSE,
                 dirty |-> FALSE, revision |-> job[j].data, content |-> job[j].data]
           r == [job[j] EXCEPT !.pc = "write", !.id = id]
<1>0. /\ Typed /\ id \in File /\ file[id] = None /\ j \in Job_ /\ Fits(j)
      /\ job[j].pc = "publish" /\ job[j] \in JobType
  BY NewFileType, ObjectType DEF TypeInv, Publish, Job_
<1>1. /\ file' = [file EXCEPT ![id] = f] /\ files' = files \cup {id} /\ disk' = disk \cup {id}
      /\ UNCHANGED <<device, lock, timers, failures, calls, ghost>>
      /\ origins' = [origins EXCEPT ![h] = id] /\ job' = [job EXCEPT ![j] = r]
  BY DEF Publish
<1>2. /\ h \in Handle /\ job[j].name \in Place /\ job[j].data \in Nat /\ job[j].data >= 1
      /\ job[j].call.op = "write"
  BY <1>0 DEF Fits, JobType
<1>3. /\ f \in Staged /\ f # None /\ f.content = f.revision
      /\ f.content \in Nat /\ f.content >= 1
  <2>1. f \in Staged
    BY <1>2 DEF Staged
  <2> QED BY <1>2, <2>1, RecordAssumption
<1>4. r \in JobType /\ r.pc = "write" /\ r.id = id /\ r.call = job[j].call
  BY <1>0 DEF JobType, PC
<1> HIDE DEF f, r, id, h
<1>5. job' \in [Job_ -> JobType] /\ Others(j) /\ job'[j] = r
  BY <1>0, <1>1, <1>4, SetJob
<1>6. \A i \in File : file[i] # None => file'[i] = file[i] /\ i # id
  BY <1>0, <1>1 DEF Typed, TypeOK
<1>7. Typed'
  <2>1. file' \in [File -> Staged \cup {None}] /\ file'[id] = f
    BY <1>0, <1>1, <1>3 DEF Typed, TypeOK
  <2>2. \A i \in File : file'[i] # None => file'[i].content \in 1 .. file'[i].revision
    BY <1>0, <1>1, <1>3, <2>1 DEF Typed, TypeOK
  <2>3. \A timer \in timers' : /\ file'[timer.id] # None
                               /\ timer.revision \in 1 .. file'[timer.id].revision
    BY <1>0, <1>1, <1>6 DEF Typed, TypeOK
  <2>4. \A i \in File : file'[i] = None => committed'[i] = 0 /\ lock'[i] = None
    BY <1>0, <1>1, <1>6 DEF Typed, ghost
  <2>5. files' \subseteq {i \in File : file'[i] # None} /\ disk' \subseteq File
    BY <1>0, <1>1, <1>3, <1>6, <2>1 DEF Typed, TypeOK
  <2>6. origins' \in [Handle -> File \cup {None}]
    BY <1>0, <1>1 DEF Typed, TypeOK
  <2> QED BY <1>0, <1>1, <1>5, <2>1, <2>2, <2>3, <2>4, <2>5, <2>6 DEF Typed, TypeOK, ghost, JobType
<1>8. Fits(j)'
  BY <1>0, <1>1, <1>2, <1>3, <1>4, <1>5, <1>7 DEF Fits, FilePC, CommitPC, Typed, TypeOK
<1>9. \A i \in File : lock[i] \in Job_ \ {j} => lock'[i] = lock[i] /\ file'[i] = file[i]
  <2>1. \A i \in File : i # id => file'[i] = file[i]
    BY <1>0, <1>1 DEF Typed, TypeOK
  <2>3. lock[id] = None
    BY <1>0 DEF Typed
  <2> QED BY <1>0, <1>1, <2>1, <2>3, JobAssumption DEF Job_
<1> QED BY <1>0, <1>5, <1>6, <1>7, <1>8, <1>9, FitAll

-----------------------------------------------------------------------------
(* Steps on the state of a file.                                           *)

\* Another version of a file whose lock no other job holds.
LEMMA EditType ==
  ASSUME TypeInv, NEW j \in Job_, NEW f \in Staged, job[j].pc \in FilePC, Locks(j),
         Update(j, f), f.content >= 1, f.content <= f.revision, Mine(j).revision <= f.revision,
         UNCHANGED <<device, files, disk, origins, lock, timers, failures, calls, ghost>>,
         Others(j), job' \in [Job_ -> JobType],
         file'[job[j].id] = f => Fits(j)'
  PROVE  TypeInv' /\ file' = [file EXCEPT ![job[j].id] = f] /\ job[j].id \in File
<1> DEFINE id == job[j].id
<1>0. Typed /\ id \in File /\ file[id] # None /\ f # None
  BY RecordAssumption DEF TypeInv, Fits
<1>1. file' = [file EXCEPT ![id] = f] /\ file[id].revision <= f.revision /\ lock[id] = None
  BY DEF Update, Mine, Locks
<1>2. f.content \in Nat /\ f.revision \in Nat
  BY DEF Staged
<1> HIDE DEF id
<1>3. /\ file'[id] = f /\ \A i \in File : i # id => file'[i] = file[i]
      /\ file' \in [File -> Staged \cup {None}]
  BY <1>0, <1>1 DEF Typed, TypeOK
<1>4. \A timer \in timers : timer.revision \in 1 .. file'[timer.id].revision
  <2> SUFFICES ASSUME NEW timer \in timers
               PROVE  timer.revision \in 1 .. file'[timer.id].revision
    OBVIOUS
  <2>1. /\ timer.id \in File /\ timer.revision \in Nat
        /\ timer.revision \in 1 .. file[timer.id].revision
    BY <1>0 DEF Typed, TypeOK
  <2>2. CASE timer.id = id
    <3>1. file[id].revision \in Nat
      BY <1>0, ObjectType
    <3> QED BY <1>1, <1>2, <1>3, <2>1, <2>2, <3>1
  <2>3. CASE timer.id # id
    BY <1>3, <2>1, <2>3
  <2> QED BY <2>2, <2>3
<1>5. \A i \in File : /\ file'[i] = None <=> file[i] = None
                      /\ file'[i] # None => file'[i].content \in 1 .. file'[i].revision
  BY <1>0, <1>2, <1>3 DEF Typed, TypeOK
<1>6. Typed'
  <2>1. \A timer \in timers' : file'[timer.id] # None
    BY <1>0, <1>5 DEF Typed
  <2> QED BY <1>0, <1>3, <1>4, <1>5, <2>1 DEF Typed, TypeOK, ghost, JobType
<1>7. \A i \in File : lock[i] \in Job_ \ {j} => lock'[i] = lock[i] /\ file'[i] = file[i]
  BY <1>1, <1>3, JobAssumption DEF Job_
<1>8. TypeInv'
  BY <1>3, <1>5, <1>6, <1>7, FitAll DEF id
<1> QED BY <1>0, <1>1, <1>8 DEF id

LEMMA MineType ==
  ASSUME TypeInv, NEW j \in Job_, job[j].pc \in FilePC
  PROVE  /\ Typed /\ Fits(j) /\ job[j] \in JobType
         /\ job[j].id \in File /\ file[job[j].id] # None /\ Mine(j) = file[job[j].id]
         /\ Mine(j) \in Staged /\ Mine(j).content \in Nat /\ Mine(j).revision \in Nat
         /\ Mine(j).content >= 1 /\ Mine(j).content <= Mine(j).revision
<1>1. Typed /\ Fits(j) /\ job[j] \in JobType
  BY ObjectType DEF TypeInv
<1>2. job[j].id \in File /\ file[job[j].id] # None /\ Mine(j) = file[job[j].id]
  BY <1>1 DEF Fits, Mine
<1> QED BY <1>1, <1>2, ObjectType

LEMMA WrittenType ==
  ASSUME NEW f \in Staged, f.revision \in Nat
  PROVE  LET g == [f EXCEPT !.dirty = TRUE, !.revision = @ + 1, !.content = f.revision + 1] IN
         /\ g \in Staged /\ g.content = g.revision /\ g.revision = f.revision + 1
         /\ g.content \in Nat
<1>1. f.revision + 1 \in Nat
  OBVIOUS
<1> QED BY <1>1 DEF Staged

LEMMA RenamedType ==
  ASSUME NEW f \in Staged, f.revision \in Nat, NEW name \in Place
  PROVE  LET g == Renamed(f, name) IN
         g \in Staged /\ g.content = f.content /\ g.revision = f.revision + 1
<1>1. (name \in Meta) \in BOOLEAN
  BY SMT
<1>2. ASSUME NEW b \in BOOLEAN
      PROVE  LET g == [f EXCEPT !.name = name, !.local_only = b, !.dirty = TRUE,
                                !.revision = f.revision + 1]
             IN  g \in Staged /\ g.content = f.content /\ g.revision = f.revision + 1
  <2>1. f.revision + 1 \in Nat
    OBVIOUS
  <2> QED BY <2>1 DEF Staged
<1> DEFINE b == name \in Meta
<1>3. Renamed(f, name) = [f EXCEPT !.name = name, !.local_only = b, !.dirty = TRUE,
                                   !.revision = f.revision + 1]
  BY DEF Renamed
<1> HIDE DEF b
<1> QED BY <1>1, <1>2, <1>3 DEF b

\* What a write or a truncation leaves: another version, or the file as it was.
LEMMA WriteSets ==
  ASSUME TypeInv, NEW j \in Job, Write(j), job[j].id \in disk
  PROVE  \E f \in Staged :
           /\ Update(j, f) /\ f.content >= 1 /\ f.content <= f.revision
           /\ Mine(j).revision <= f.revision /\ f.remote = Mine(j).remote
           /\ f = Mine(j) \/ (f.dirty /\ f.content = Mine(j).revision + 1)
<1>0. j \in Job_ /\ job[j].pc \in FilePC
  BY DEF Write, Job_, FilePC
<1>1. /\ Typed /\ Mine(j) \in Staged /\ Mine(j).revision \in Nat /\ Mine(j).content \in Nat
      /\ Mine(j).content >= 1 /\ Mine(j).content <= Mine(j).revision
      /\ job[j].id \in File /\ Mine(j) = file[job[j].id]
  BY <1>0, MineType
<1>2. CASE Update(j, Written(Mine(j)))
  <2>1. PICK f : f = Written(Mine(j))
    OBVIOUS
  <2>2. /\ f \in Staged /\ f.content = f.revision /\ f.revision = Mine(j).revision + 1
        /\ f.dirty /\ f.remote = Mine(j).remote
    BY <1>1, <2>1, WrittenType DEF Written, Staged
  <2> QED BY <1>1, <1>2, <2>1, <2>2
<1>3. CASE UNCHANGED file
  <2>1. Update(j, Mine(j))
    BY <1>1, <1>3 DEF Update, Typed, TypeOK
  <2> QED BY <1>1, <2>1
<1> QED BY <1>2, <1>3 DEF Write

LEMMA WriteType ==
  ASSUME TypeInv, NEW j \in Job, Write(j) PROVE TypeInv'
<1>0. j \in Job_ /\ job[j].pc = "write" /\ job[j].pc \in FilePC /\ Locks(j)
  BY DEF Write, Job_, FilePC
<1>1. /\ UNCHANGED <<device, files, disk, origins, lock, timers, failures, calls, ghost>>
      /\ TypeInv /\ Typed
  BY DEF Write, local, TypeInv
<1>2. CASE job[j].id \in disk
  <2>1. PICK f \in Staged : /\ Update(j, f) /\ f.content >= 1 /\ f.content <= f.revision
                            /\ Mine(j).revision <= f.revision
    BY <1>2, WriteSets
  <2>4. CASE job[j].call.then = "nothing"
    <3>1. After(j)
      BY <1>2, <2>4 DEF Write
    <3>2. Others(j) /\ job' \in [Job_ -> JobType] /\ Fits(j)'
      BY <1>0, <1>1, <3>1, AfterType, AfterFits
    <3> QED BY <1>0, <1>1, <2>1, <3>2, EditType
  <2>5. CASE job[j].call.then # "nothing"
    <3> DEFINE pc == job[j].call.then
    <3>1. To(j, pc)
      BY <1>2, <2>5 DEF Write
    <3>2. pc \in {"schedule", "commit"}
      <4>1. job[j].call \in Call /\ job[j].call.op = "write"
        BY <1>0, MineType DEF Fits, JobType
      <4> QED BY <2>5, <4>1, CallType
    <3> HIDE DEF pc
    <3>3. job' \in [Job_ -> JobType] /\ job'[j].pc = pc /\ Same(j) /\ Others(j)
      BY <1>0, <1>1, <3>1, <3>2, ToType DEF PC
    <3>4. file'[job[j].id] = f => Fits(j)'
      <4>1. f # None /\ job[j].id \in File
        BY <1>0, <2>1, MineType, RecordAssumption
      <4> QED BY <3>2, <3>3, <4>1 DEF Fits, FilePC, CommitPC, Same
    <3> QED BY <1>0, <1>1, <2>1, <3>3, <3>4, EditType
  <2> QED BY <2>4, <2>5
<1>3. CASE job[j].id \notin disk
  <2>1. TalkFrame /\ After(j) /\ UNCHANGED lock
    BY <1>1, <1>3, FrameTypes DEF Write, TalkFrame
  <2> QED BY <1>0, <1>1, <2>1, TalkAfterUnlocked
<1> QED BY <1>2, <1>3

LEMMA RenameType ==
  ASSUME TypeInv, NEW j \in Job, Rename(j) PROVE TypeInv'
<1> DEFINE f == Renamed(Mine(j), job[j].call.name)
<1>0. j \in Job_ /\ job[j].pc = "rename" /\ job[j].pc \in FilePC /\ Locks(j) /\ TypeInv
  BY DEF Rename, Job_, FilePC
<1>1. /\ UNCHANGED <<device, files, disk, origins, lock, timers, failures, calls, ghost>>
      /\ Update(j, f) /\ To(j, "schedule")
  BY DEF Rename, local
<1>2. /\ f \in Staged /\ f.content = Mine(j).content /\ f.revision = Mine(j).revision + 1
  <2>1. job[j].call.name \in Place
    <3>1. job[j].call \in Call /\ job[j].call.op = "rename"
      BY <1>0, MineType DEF Fits, JobType
    <3> QED BY <3>1, CallType
  <2> QED BY <1>0, <2>1, MineType, RenamedType
<1> HIDE DEF f
<1>3. f.content >= 1 /\ f.content <= f.revision /\ Mine(j).revision <= f.revision
  BY <1>0, <1>2, MineType
<1>4. job' \in [Job_ -> JobType] /\ job'[j].pc = "schedule" /\ Same(j) /\ Others(j)
  BY <1>0, <1>1, MineType, ToType DEF PC
<1>5. file'[job[j].id] = f => Fits(j)'
  <2>1. f # None /\ job[j].id \in File
    BY <1>0, <1>2, MineType, RecordAssumption
  <2> QED BY <1>4, <2>1 DEF Fits, FilePC, CommitPC, Same
<1> QED BY <1>0, <1>1, <1>2, <1>3, <1>4, <1>5, EditType

LEMMA CommitLocallyType ==
  ASSUME TypeInv, NEW j \in Job_, CommitLocally(j) PROVE TypeInv'
<1> DEFINE f == [Mine(j) EXCEPT !.dirty = FALSE]
<1>0. job[j].pc \in FilePC /\ Locks(j) /\ TypeInv /\ Update(j, f) /\ After(j)
  BY DEF CommitLocally, FilePC
<1>1. UNCHANGED <<device, files, disk, origins, lock, timers, failures, calls, ghost>>
  BY DEF CommitLocally, local
<1>2. f \in Staged /\ f.content = Mine(j).content /\ f.revision = Mine(j).revision
  BY <1>0, MineType DEF Staged
<1> HIDE DEF f
<1>3. f.content >= 1 /\ f.content <= f.revision /\ Mine(j).revision <= f.revision
  BY <1>0, <1>2, MineType
<1>4. Others(j) /\ job' \in [Job_ -> JobType] /\ Fits(j)'
  BY <1>0, MineType, AfterType, AfterFits
<1> QED BY <1>0, <1>1, <1>2, <1>3, <1>4, EditType

LEMMA ScheduleType ==
  ASSUME TypeInv, NEW j \in Job, Schedule(j) PROVE TypeInv'
<1>0. j \in Job_ /\ job[j].pc \in FilePC /\ TypeInv /\ After(j)
  BY DEF Schedule, Job_, FilePC
<1>1. UNCHANGED <<device, file, files, disk, origins, lock, failures, calls, ghost>>
  BY DEF Schedule
<1>2. Others(j) /\ job' \in [Job_ -> JobType] /\ Fits(j)' /\ Typed
  BY <1>0, MineType, AfterType, AfterFits
<1> DEFINE timer == [id |-> job[j].id, revision |-> Mine(j).revision]
<1>3. timers' \subseteq timers \cup {timer}
  BY DEF Schedule
<1>4. /\ timer \in [id : File, revision : Nat] /\ file[timer.id] # None
      /\ timer.revision \in 1 .. file[timer.id].revision
  BY <1>0, MineType
<1> HIDE DEF timer
<1>5. /\ timers' \subseteq [id : File, revision : Nat]
      /\ \A t \in timers' : /\ file'[t.id] # None
                            /\ t.revision \in 1 .. file'[t.id].revision
  BY <1>1, <1>2, <1>3, <1>4 DEF Typed, TypeOK
<1>6. Typed'
  BY <1>1, <1>2, <1>5 DEF Typed, TypeOK, ghost, JobType
<1> QED BY <1>0, <1>1, <1>2, <1>6, FitAll

LEMMA TimerFiresType ==
  ASSUME TypeInv, NEW j \in Job, NEW timer \in timers, TimerFires(j, timer)
  PROVE  TypeInv'
<1>0. /\ j \in Job_ /\ job[j].pc = "idle" /\ TypeInv /\ Typed /\ job[j] \in JobType
      /\ timer.id \in File /\ file[timer.id] # None
  BY ObjectType DEF TimerFires, Job_, TypeInv, Typed
<1>1. TalkFrame /\ UNCHANGED lock
  BY <1>0, FrameTypes DEF TimerFires, TalkFrame
<1>2. CASE timer.id \in files /\ file[timer.id].dirty /\ file[timer.id].revision = timer.revision
  <2> DEFINE r == [job[j] EXCEPT !.pc = "commit", !.id = timer.id]
  <2>1. job' = [job EXCEPT ![j] = r]
    BY <1>2 DEF TimerFires
  <2>2. r \in JobType /\ r.pc = "commit" /\ r.id = timer.id
    BY <1>0 DEF JobType, PC
  <2> HIDE DEF r
  <2>3. job' \in [Job_ -> JobType] /\ Others(j) /\ job'[j] = r
    BY <1>0, <2>1, <2>2, SetJob
  <2>4. Fits(j)'
    BY <1>0, <1>1, <2>2, <2>3 DEF Fits, FilePC, CommitPC, TalkFrame
  <2> QED BY <1>0, <1>1, <2>3, <2>4, TalkTypeUnlocked
<1>3. CASE ~(timer.id \in files /\ file[timer.id].dirty
              /\ file[timer.id].revision = timer.revision)
  <2>1. job' = job
    BY <1>3 DEF TimerFires
  <2>2. Others(j) /\ job' \in [Job_ -> JobType] /\ Fits(j)'
    BY <1>0, <2>1, ObjectType DEF Others, Fits, FilePC, CommitPC
  <2> QED BY <1>0, <1>1, <2>2, TalkTypeUnlocked
<1> QED BY <1>2, <1>3

LEMMA FlushStartsType ==
  ASSUME TypeInv, FlushStarts PROVE TypeInv'
<1> DEFINE j == Discovery
           r == [job[j] EXCEPT !.pc = "flush", !.todo = files]
<1>0. j \in Job_ /\ Typed /\ job[j] \in JobType /\ files \subseteq File
  BY ObjectType, FrameTypes DEF Job_, TypeInv
<1>1. TalkFrame /\ UNCHANGED lock
  BY <1>0, FrameTypes DEF FlushStarts, TalkFrame, area
<1>2. job' = [job EXCEPT ![j] = r]
  BY DEF FlushStarts
<1>3. r \in JobType /\ r.pc = "flush"
  BY <1>0 DEF JobType, PC
<1> HIDE DEF r, j
<1>4. job' \in [Job_ -> JobType] /\ Others(j) /\ job'[j] = r
  BY <1>0, <1>2, <1>3, SetJob
<1>5. Fits(j)'
  BY <1>3, <1>4 DEF Fits, FilePC, CommitPC
<1> QED BY <1>0, <1>1, <1>4, <1>5, TalkTypeUnlocked

LEMMA FlushNextType ==
  ASSUME TypeInv, NEW id \in File, FlushNext(id) PROVE TypeInv'
<1> DEFINE j == Discovery
           rest == job[j].todo \ {id}
           c == [job[j] EXCEPT !.pc = "commit", !.id = id, !.todo = rest]
           r == IF Flushes(id) THEN c
                ELSE IF rest = {} THEN IdleJob ELSE [job[j] EXCEPT !.todo = rest]
<1>0. /\ j \in Job_ /\ Typed /\ job[j] \in JobType /\ job[j].pc = "flush"
      /\ rest \in SUBSET File
  BY ObjectType DEF Job_, TypeInv, FlushNext, JobType
<1>1. TalkFrame /\ UNCHANGED lock
  BY <1>0, FrameTypes DEF FlushNext, TalkFrame, area
<1>2. job' = [job EXCEPT ![j] = r]
  BY <1>0 DEF FlushNext, Typed, TypeOK
<1> HIDE DEF rest
<1>3. c \in JobType /\ c.pc = "commit" /\ c.id = id
  BY <1>0 DEF JobType, PC
<1>4. Flushes(id) => file[id] # None
  BY <1>0, FrameTypes DEF Flushes
<1>5. r \in JobType /\ (r = c \/ r.pc \in {"idle", "flush"})
  BY <1>0, <1>3, IdleType DEF JobType
<1>6. r.pc = "commit" => r.id \in File /\ file[r.id] # None
  BY <1>0, <1>3, <1>4, IdleType DEF JobType
<1> HIDE DEF r, c
<1>7. r.pc \in {"idle", "flush", "commit"}
  BY <1>3, <1>5
<1> HIDE DEF j
<1>8. job' \in [Job_ -> JobType] /\ Others(j) /\ job'[j] = r
  BY <1>0, <1>2, <1>5, SetJob
<1>9. Fits(j)'
  BY <1>1, <1>6, <1>7, <1>8 DEF Fits, FilePC, CommitPC, TalkFrame
<1> QED BY <1>0, <1>1, <1>8, <1>9, TalkTypeUnlocked

LEMMA UnmapType ==
  ASSUME TypeInv, NEW j \in Job, Unmap(j) PROVE TypeInv'
<1>0. j \in Job_ /\ job[j].pc = "unmap" /\ job[j].pc \in FilePC /\ TypeInv /\ To(j, "unlink")
  BY DEF Unmap, Job_, FilePC, CommitPC
<1>1. UNCHANGED <<device, file, disk, origins, lock, timers, failures, calls, ghost>>
      /\ files' \subseteq files
  BY DEF Unmap
<1>2. Others(j) /\ job' \in [Job_ -> JobType] /\ job'[j].pc = "unlink" /\ Same(j) /\ Typed
  BY <1>0, MineType, ToType DEF PC
<1>3. Typed'
  BY <1>1, <1>2 DEF Typed, TypeOK, ghost, JobType
<1>4. Fits(j)'
  BY <1>0, <1>1, <1>2, MineType DEF Fits, FilePC, CommitPC, Same
<1> QED BY <1>0, <1>1, <1>2, <1>3, <1>4, FitAll

LEMMA UnlinkType ==
  ASSUME TypeInv, NEW j \in Job, Unlink(j) PROVE TypeInv'
<1>0. j \in Job_ /\ TypeInv /\ Typed /\ After(j)
  BY DEF Unlink, Job_, TypeInv
<1>1. TalkFrame /\ UNCHANGED lock
  BY <1>0, FrameTypes DEF Unlink, TalkFrame
<1> QED BY <1>0, <1>1, TalkAfterUnlocked

LEMMA BeginCommitType ==
  ASSUME TypeInv, NEW j \in Job_, BeginCommit(j) PROVE TypeInv'
<1> DEFINE pc == IF Mine(j).remote = None THEN "upload" ELSE "upload_temporary"
           id == job[j].id
<1>0. /\ job[j].pc = "commit" /\ job[j].pc \in FilePC /\ TypeInv /\ Typed
      /\ id \in File /\ file[id] # None /\ Mine(j).dirty /\ ~Mine(j).local_only
      /\ Mine(j) = file[id] /\ lock[id] = None
  BY MineType DEF BeginCommit, FilePC, Locks
<1>1. TalkFrame
  BY <1>0, FrameTypes DEF BeginCommit, TalkFrame, area
<1>2. lock' = [lock EXCEPT ![id] = j] /\ To(j, pc)
  BY DEF BeginCommit
<1>3. /\ lock' \in [File -> Job_ \cup {None}] /\ lock'[id] = j
      /\ \A i \in File : i # id => lock'[i] = lock[i]
  BY <1>0, <1>2 DEF Typed, TypeOK
<1>4. pc \in {"upload", "upload_temporary"} /\ (pc = "upload" <=> Mine(j).remote = None)
  OBVIOUS
<1> HIDE DEF pc
<1>5. job' \in [Job_ -> JobType] /\ job'[j].pc = pc /\ Same(j) /\ Others(j)
  BY <1>0, <1>2, <1>4, ToType DEF PC
<1>6. Commits(j)'
  BY <1>0, <1>1, <1>3, <1>4, <1>5 DEF Commits, Mine, TalkFrame, Same
<1>7. Fits(j)'
  BY <1>0, <1>1, <1>4, <1>5, <1>6 DEF Fits, FilePC, CommitPC, TalkFrame, Same
<1>8. /\ \A i \in File : lock[i] \in Job_ \ {j} => lock'[i] = lock[i]
      /\ \A i \in File : file[i] = None => lock'[i] = None
  BY <1>0, <1>3, JobAssumption DEF Job_, Typed
<1> QED BY <1>0, <1>1, <1>3, <1>5, <1>7, <1>8, TalkType

-----------------------------------------------------------------------------
(* Requests to the phone.                                                  *)

PhoneTyped == /\ device \in [Handle -> Object \cup {None}]
              /\ \A h \in Handle : device[h] # None => device[h].data >= 1

\* Steps that change the phone's objects, the job, its lock and the bounds.
PhoneFrame ==
  /\ UNCHANGED <<file, files, disk, origins, timers, committed, crossed>>
  /\ inPlace \subseteq inPlace' /\ inPlace' \subseteq File
  /\ failures' \in 0 .. MaxFailures /\ calls' \in 0 .. MaxCalls
  /\ PhoneTyped'

LEMMA PhoneStepType ==
  ASSUME TypeInv, PhoneFrame, NEW j \in Job_, Others(j), job' \in [Job_ -> JobType],
         lock' \in [File -> Job_ \cup {None}],
         \A i \in File : lock[i] \in Job_ \ {j} => lock'[i] = lock[i],
         \A i \in File : file[i] = None => lock'[i] = None,
         Fits(j)'
  PROVE  TypeInv'
<1>1. Typed'
  BY DEF TypeInv, Typed, TypeOK, PhoneFrame, PhoneTyped, ghost, JobType
<1>2. file' = file
  BY DEF PhoneFrame
<1> QED BY <1>1, <1>2, FitAll

LEMMA DeletedTyped ==
  ASSUME Typed, NEW h, device' = [device EXCEPT ![h] = None] PROVE PhoneTyped'
  BY DEF Typed, TypeOK, PhoneTyped

LEMMA NamedTyped ==
  ASSUME Typed, NEW h \in Handle, device[h] # None, NEW name \in Name,
         device' = [device EXCEPT ![h].name = name]
  PROVE  /\ PhoneTyped' /\ device'[h] # None /\ device'[h].data = device[h].data
         /\ device'[h].name = name
<1>1. /\ device[h] \in Object /\ device[h].data >= 1
      /\ device' = [device EXCEPT ![h] = [device[h] EXCEPT !.name = name]]
  BY ObjectType DEF Typed
<1>2. [device[h] EXCEPT !.name = name] \in Object
  BY <1>1 DEF Object
<1>3. [device[h] EXCEPT !.name = name] # None
  BY <1>2, RecordAssumption
<1> QED BY <1>1, <1>2, <1>3 DEF Typed, TypeOK, PhoneTyped, Object

LEMMA CopiedTyped ==
  ASSUME TypeInv, NEW j \in Job_, job[j].pc \in FilePC, Unknown # {}, NEW name \in Name,
         device' = Copied(j, name)
  PROVE  /\ PhoneTyped' /\ NewHandle \in Handle
         /\ device'[NewHandle] = [name |-> name, data |-> Mine(j).content]
         /\ device'[NewHandle] # None
         /\ \A h \in Handle : h # NewHandle => device'[h] = device[h]
<1> DEFINE o == [name |-> name, data |-> Mine(j).content]
<1>1. Typed /\ NewHandle \in Handle /\ device' = [device EXCEPT ![NewHandle] = o]
  BY NewHandleType DEF Copied, TypeInv
<1>2. o \in Object /\ o.data >= 1
  BY MineType DEF Object
<1> HIDE DEF o
<1>3. o # None
  BY <1>2, RecordAssumption
<1>4. /\ device'[NewHandle] = o /\ \A h \in Handle : h # NewHandle => device'[h] = device[h]
      /\ PhoneTyped'
  BY <1>1, <1>2, <1>3 DEF Typed, TypeOK, PhoneTyped
<1> QED BY <1>1, <1>3, <1>4 DEF o

\* The next request of a commit.
LEMMA GoesOnType ==
  ASSUME TypeInv, PhoneFrame, NEW j \in Job_,
         job[j].pc \in CommitPC \ {"upload", "upload_temporary"},
         NEW pc \in CommitPC \ {"upload", "upload_temporary"}, To(j, pc), UNCHANGED lock
  PROVE  TypeInv'
<1>0. /\ job[j].pc \in FilePC /\ Typed /\ Fits(j) /\ pc \in PC
      /\ job[j].id \in File /\ file[job[j].id] # None /\ Mine(j) = file[job[j].id]
      /\ job[j].temp \in Handle /\ Commits(j)
  BY MineType DEF FilePC, CommitPC, PC, Fits
<1>1. job' \in [Job_ -> JobType] /\ job'[j].pc = pc /\ Same(j) /\ Others(j)
  BY <1>0, ToType
<1>2. Commits(j)'
  BY <1>0, <1>1 DEF Commits, Mine, Same, PhoneFrame, CommitPC
<1>3. Fits(j)'
  BY <1>0, <1>1, <1>2 DEF Fits, FilePC, CommitPC, PhoneFrame, Same
<1>4. /\ lock' \in [File -> Job_ \cup {None}] /\ \A i \in File : lock'[i] = lock[i]
      /\ \A i \in File : file[i] = None => lock'[i] = None
  BY <1>0 DEF Typed, TypeOK
<1> QED BY <1>1, <1>3, <1>4, PhoneStepType

LEMMA UnlockType ==
  ASSUME TypeInv, NEW j \in Job_, job[j].pc \in CommitPC, Unlock(j)
  PROVE  /\ lock' \in [File -> Job_ \cup {None}]
         /\ \A i \in File : lock[i] \in Job_ \ {j} => lock'[i] = lock[i]
         /\ \A i \in File : file[i] = None => lock'[i] = None
<1>1. Typed /\ job[j].id \in File /\ lock[job[j].id] = j
  BY DEF TypeInv, Fits, FilePC, Commits
<1> QED BY <1>1 DEF Unlock, Typed, TypeOK

LEMMA AbortsType ==
  ASSUME TypeInv, PhoneFrame, NEW j \in Job_, job[j].pc \in CommitPC, Abort(j)
  PROVE  TypeInv'
<1>1. Unlock(j) /\ After(j) /\ Typed
  BY DEF Abort, TypeInv
<1>2. /\ lock' \in [File -> Job_ \cup {None}]
      /\ \A i \in File : lock[i] \in Job_ \ {j} => lock'[i] = lock[i]
      /\ \A i \in File : file[i] = None => lock'[i] = None
  BY <1>1, UnlockType
<1>3. Others(j) /\ job' \in [Job_ -> JobType] /\ Fits(j)'
  BY <1>1, AfterType, AfterFits
<1> QED BY <1>2, <1>3, PhoneStepType

LEMMA FinishType ==
  ASSUME TypeInv, NEW j \in Job_, job[j].pc \in CommitPC, NEW h \in Handle, Finish(j, h),
         PhoneTyped', failures' \in 0 .. MaxFailures, UNCHANGED <<calls, crossed>>
  PROVE  /\ TypeInv' /\ Others(j) /\ job'[j].temp = None
         /\ job'[j].pc \in {"idle", "flush"} /\ job'[j].call.op = "flush"
         /\ file'[job[j].id] = [Mine(j) EXCEPT !.remote = h, !.dirty = FALSE]
         /\ \A i \in File : i # job[j].id => file'[i] = file[i]
         /\ origins' = [origins EXCEPT ![h] = job[j].id]
         /\ committed' = [committed EXCEPT ![job[j].id] = Mine(j).content]
         /\ inPlace' = inPlace \ {job[j].id} /\ UNCHANGED files
<1> DEFINE id == job[j].id
           f == [Mine(j) EXCEPT !.remote = h, !.dirty = FALSE]
<1>0. /\ Typed /\ id \in File /\ file[id] # None /\ Mine(j) = file[id] /\ Mine(j) \in Staged
      /\ Mine(j).content \in Nat /\ lock[id] = j /\ job[j].pc \in FilePC
      /\ Mine(j).content \in 1 .. Mine(j).revision
  <2>1. job[j].pc \in FilePC
    BY DEF FilePC
  <2>2. Commits(j)
    BY DEF TypeInv, Fits
  <2> QED BY <2>1, <2>2, MineType DEF Commits
<1>1. /\ file' = [file EXCEPT ![id] = f] /\ origins' = [origins EXCEPT ![h] = id]
      /\ committed' = [committed EXCEPT ![id] = Mine(j).content]
      /\ inPlace' = inPlace \ {id}
      /\ Unlock(j) /\ After(j) /\ UNCHANGED <<files, disk, timers>>
  BY DEF Finish, Update
<1>2. f \in Staged /\ f.content = Mine(j).content /\ f.revision = Mine(j).revision
  BY <1>0 DEF Staged
<1>3. f # None
  BY <1>2, RecordAssumption
<1> DEFINE c == Mine(j).content
<1> HIDE DEF id, f, c
<1>4. /\ file'[id] = f /\ \A i \in File : i # id => file'[i] = file[i]
      /\ file' \in [File -> Staged \cup {None}]
  BY <1>0, <1>1, <1>2 DEF Typed, TypeOK
<1>5. /\ lock' \in [File -> Job_ \cup {None}]
      /\ \A i \in File : lock[i] \in Job_ \ {j} => lock'[i] = lock[i]
      /\ \A i \in File : file[i] = None => lock'[i] = None
  BY <1>1, UnlockType
<1>6. /\ job' \in [Job_ -> JobType] /\ Others(j) /\ Fits(j)'
      /\ job'[j].pc \in {"idle", "flush"} /\ job'[j].temp = None
      /\ job'[j].call.op = "flush"
  BY <1>0, <1>1, AfterType, AfterFits
<1>7. \A i \in File : /\ file[i] # None <=> file'[i] # None
                      /\ file[i] # None => file'[i].revision = file[i].revision
                                           /\ file'[i].content = file[i].content
  BY <1>0, <1>2, <1>3, <1>4
<1>8. Typed'
  <2>1. \A t \in timers' : /\ t.id \in File /\ file'[t.id] # None
                           /\ t.revision \in 1 .. file'[t.id].revision
    BY <1>0, <1>1, <1>7 DEF Typed, TypeOK
  <2>2. \A i \in File : file'[i] # None => file'[i].content \in 1 .. file'[i].revision
    BY <1>0, <1>7 DEF Typed, TypeOK
  <2>3. origins' \in [Handle -> File \cup {None}] /\ committed' \in [File -> Nat]
    BY <1>0, <1>1 DEF Typed, TypeOK
  <2>4. \A i \in File : file'[i] = None => committed'[i] = 0
    BY <1>0, <1>1, <1>7 DEF Typed, TypeOK
  <2>5. files' \subseteq {i \in File : file'[i] # None} /\ disk' \subseteq File
    BY <1>0, <1>1, <1>7 DEF Typed, TypeOK
  <2>6. timers' \subseteq [id : File, revision : Nat] /\ crossed' \subseteq Handle
        /\ calls' \in 0 .. MaxCalls /\ inPlace' \subseteq File
    BY <1>0, <1>1 DEF Typed, TypeOK
  <2>7. \A i \in File : file'[i] = None => committed'[i] = 0 /\ lock'[i] = None
    BY <1>5, <1>7, <2>4
  <2> QED BY <1>4, <1>5, <1>6, <2>1, <2>2, <2>3, <2>5, <2>6, <2>7
          DEF Typed, TypeOK, PhoneTyped, JobType
<1>9. \A i \in File : lock[i] \in Job_ \ {j} => file'[i] = file[i]
  BY <1>0, <1>4
<1>10. TypeInv'
  BY <1>5, <1>6, <1>7, <1>8, <1>9, FitAll
<1> QED BY <1>1, <1>4, <1>6, <1>10 DEF id, f

LEMMA RemoveType ==
  ASSUME TypeInv, NEW j \in Job, Remove(j) PROVE TypeInv'
<1>0. /\ j \in Job_ /\ TypeInv /\ Typed /\ job[j].pc = "remove" /\ job[j].pc \in FilePC
      /\ UNCHANGED <<file, files, disk, origins, timers, lock, calls, ghost>>
  BY DEF Remove, Job_, FilePC, TypeInv, area
<1>1. /\ lock' \in [File -> Job_ \cup {None}] /\ \A i \in File : lock'[i] = lock[i]
      /\ \A i \in File : file[i] = None => lock'[i] = None
      /\ calls' \in 0 .. MaxCalls
  BY <1>0 DEF Typed, TypeOK
<1>2. /\ device' = device \/ \E h \in Handle \cup {None} : device' = [device EXCEPT ![h] = None]
      /\ failures' = failures \/ Breaks("delete")
      /\ To(j, "unmap") \/ After(j)
  <2>1. Mine(j).remote \in Handle \cup {None}
    BY <1>0, MineType DEF Staged
  <2> QED BY <2>1 DEF Remove
<1>3. PhoneFrame
  BY <1>0, <1>1, <1>2, BreaksType, FrameTypes, DeletedTyped
     DEF PhoneFrame, Typed, TypeOK, PhoneTyped, ghost
<1>4. CASE After(j)
  BY <1>0, <1>1, <1>3, <1>4, AfterType, AfterFits, PhoneStepType
<1>5. CASE To(j, "unmap")
  <2>1. job' \in [Job_ -> JobType] /\ job'[j].pc = "unmap" /\ Same(j) /\ Others(j)
    BY <1>0, <1>5, ToType DEF PC
  <2>2. Fits(j)'
    BY <1>0, <2>1, MineType DEF Fits, FilePC, CommitPC, Same
  <2> QED BY <1>0, <1>1, <1>3, <2>1, <2>2, PhoneStepType
<1> QED BY <1>2, <1>4, <1>5

\* A request for one object: what it leaves of the phone.
OneObject(h) ==
  /\ h = None \/ h \in Handle
  /\ \/ device' = device
     \/ Exists(h) /\ device' = [device EXCEPT ![h] = None]
     \/ Exists(h) /\ \E name \in Name : device' = [device EXCEPT ![h].name = name]

LEMMA OneObjectType ==
  ASSUME Typed, NEW h, OneObject(h),
         failures' = failures \/ (\E request : Breaks(request)),
         UNCHANGED <<file, files, disk, origins, timers, calls, committed, crossed>>,
         inPlace' = inPlace \/ \E i \in File : inPlace' = inPlace \cup {i}
  PROVE  PhoneFrame
<1>1. failures' \in 0 .. MaxFailures /\ calls' \in 0 .. MaxCalls
  BY BreaksType, FrameTypes DEF Typed, TypeOK
<1>2. PhoneTyped'
  <2>1. CASE device' = device
    BY <2>1 DEF PhoneTyped, Typed, TypeOK
  <2>2. CASE device' = [device EXCEPT ![h] = None]
    BY <2>2, DeletedTyped
  <2>3. CASE Exists(h) /\ \E name \in Name : device' = [device EXCEPT ![h].name = name]
    BY <2>3, NamedTyped DEF OneObject, Exists
  <2> QED BY <2>1, <2>2, <2>3 DEF OneObject
<1> QED BY <1>1, <1>2 DEF PhoneFrame, Typed, TypeOK

\* What a commit's requests are about.
LEMMA CommitHas ==
  ASSUME TypeInv, NEW j \in Job_, job[j].pc \in CommitPC
  PROVE  /\ Typed /\ job[j].pc \in FilePC /\ Commits(j)
         /\ Mine(j).remote \in Handle \cup {None} /\ Mine(j).name \in Name
         /\ job[j].temp \in Handle \cup {None} /\ job[j].id \in File
         /\ job[j].pc # "upload" => Mine(j).remote \in Handle
         /\ job[j].pc \notin {"upload", "upload_temporary"} => job[j].temp \in Handle
<1>1. job[j].pc \in FilePC
  BY DEF FilePC
<1>2. Typed /\ Fits(j) /\ Commits(j) /\ Mine(j) \in Staged /\ job[j] \in JobType
  BY <1>1, MineType DEF Fits
<1>3. Mine(j).remote \in Handle \cup {None} /\ Mine(j).name \in Name
      /\ job[j].temp \in Handle \cup {None}
  BY <1>2 DEF Staged, JobType, Name
<1> QED BY <1>1, <1>2, <1>3, MineType DEF Fits, Commits

\* The requests that lead on to the next, whatever comes of them.
Asks(j, h, next) ==
  /\ OneObject(h)
  /\ failures' = failures \/ (\E request : Breaks(request))
  /\ \E pc \in next : To(j, pc)
  /\ UNCHANGED <<file, files, disk, origins, timers, lock, calls, committed, crossed>>
  /\ inPlace' = inPlace \/ inPlace' = inPlace \cup {job[j].id}

LEMMA AsksType ==
  ASSUME TypeInv, NEW j \in Job_, job[j].pc \in CommitPC \ {"upload", "upload_temporary"},
         NEW h, NEW next \in SUBSET (CommitPC \ {"upload", "upload_temporary"}),
         Asks(j, h, next)
  PROVE  TypeInv'
<1>1. PhoneFrame
  BY CommitHas, OneObjectType DEF TypeInv, Asks
<1>2. PICK pc \in next : To(j, pc)
  BY DEF Asks
<1> QED BY <1>1, <1>2, GoesOnType DEF Asks

LEMMA RenameOldAsks ==
  ASSUME TypeInv, NEW j \in Job_, RenameOld(j)
  PROVE  Asks(j, Mine(j).remote, {"rename_temporary", "drop_temporary"})
<1>1. Mine(j).remote \in Handle \cup {None}
  BY CommitHas DEF RenameOld, CommitPC
<1> QED BY <1>1 DEF RenameOld, Requests, Asks, OneObject, Name, area

LEMMA RenameTemporaryAsks ==
  ASSUME TypeInv, NEW j \in Job_, RenameTemporary(j)
  PROVE  Asks(j, job[j].temp, {"delete_old", "restore_old"})
<1>1. job[j].temp \in Handle \cup {None} /\ Mine(j).name \in Name
  BY CommitHas DEF RenameTemporary, CommitPC
<1> QED BY <1>1 DEF RenameTemporary, Requests, Asks, OneObject, area, ghost

LEMMA RestoreOldAsks ==
  ASSUME TypeInv, NEW j \in Job_, RestoreOld(j)
  PROVE  Asks(j, Mine(j).remote, {"give_up"})
<1>1. Mine(j).remote \in Handle \cup {None} /\ Mine(j).name \in Name
  BY CommitHas DEF RestoreOld, CommitPC
<1> QED BY <1>1 DEF RestoreOld, Requests, Asks, OneObject, area, ghost

LEMMA DropTemporaryAsks ==
  ASSUME TypeInv, NEW j \in Job_, DropTemporary(j)
  PROVE  Asks(j, job[j].temp, {"delete_original"})
<1>1. job[j].temp \in Handle \cup {None}
  BY CommitHas DEF DropTemporary, CommitPC
<1> QED BY <1>1 DEF DropTemporary, Deletes, Asks, OneObject, area, ghost

\* A request after which the commit returns with an error.
Fails(j, h) ==
  /\ OneObject(h) /\ Abort(j)
  /\ failures' = failures \/ (\E request : Breaks(request))
  /\ UNCHANGED <<calls, ghost>>

LEMMA FailsType ==
  ASSUME TypeInv, NEW j \in Job_, job[j].pc \in CommitPC, NEW h, Fails(j, h)
  PROVE  TypeInv' /\ PhoneFrame
<1>1. PhoneFrame
  BY OneObjectType DEF TypeInv, Fails, Abort, area, ghost
<1> QED BY <1>1, AbortsType DEF Fails

LEMMA GiveUpFails ==
  ASSUME TypeInv, NEW j \in Job_, GiveUp(j) PROVE Fails(j, job[j].temp)
<1>1. job[j].temp \in Handle \cup {None}
  BY CommitHas DEF GiveUp, CommitPC
<1> QED BY <1>1 DEF GiveUp, Deletes, Fails, OneObject

LEMMA DeleteOriginalSteps ==
  ASSUME TypeInv, NEW j \in Job_, DeleteOriginal(j)
  PROVE  \/ Asks(j, Mine(j).remote, {"upload_again"})
         \/ Fails(j, Mine(j).remote) /\ device' = device
<1>1. Mine(j).remote \in Handle \cup {None}
  BY CommitHas DEF DeleteOriginal, CommitPC
<1> QED BY <1>1 DEF DeleteOriginal, Deletes, Asks, Fails, OneObject, area, ghost

\* An upload that succeeds: a new object.
Uploads(j, name) ==
  /\ Unknown # {} /\ device' = Copied(j, name) /\ UNCHANGED <<failures, calls, crossed>>

LEMMA UploadSteps ==
  ASSUME TypeInv, NEW j \in Job_, Upload(j)
  PROVE  \/ Uploads(j, Mine(j).name) /\ Finish(j, NewHandle)
         \/ Fails(j, None) /\ device' = device
  BY DEF Upload, Uploads, Fails, OneObject, ghost

LEMMA UploadTemporarySteps ==
  ASSUME TypeInv, NEW j \in Job_, UploadTemporary(j)
  PROVE  \/ /\ Uploads(j, "upload") /\ UNCHANGED <<area, lock, committed, inPlace>>
            /\ job' = [job EXCEPT ![j].pc = "rename_old", ![j].temp = NewHandle]
         \/ Fails(j, None) /\ device' = device
  BY DEF UploadTemporary, Uploads, Fails, OneObject, ghost

LEMMA UploadType ==
  ASSUME TypeInv, NEW j \in Job_, Upload(j) PROVE TypeInv'
<1>1. job[j].pc \in CommitPC /\ job[j].pc \in FilePC /\ Mine(j).name \in Name /\ Typed
  BY CommitHas DEF Upload, CommitPC
<1>2. CASE Uploads(j, Mine(j).name) /\ Finish(j, NewHandle)
  <2>1. PhoneTyped' /\ NewHandle \in Handle
    BY <1>1, <1>2, CopiedTyped DEF Uploads
  <2> QED BY <1>1, <1>2, <2>1, FinishType, FrameTypes DEF Uploads
<1>3. CASE Fails(j, None)
  BY <1>1, <1>3, FailsType
<1> QED BY <1>2, <1>3, UploadSteps

LEMMA UploadTemporaryType ==
  ASSUME TypeInv, NEW j \in Job_, UploadTemporary(j) PROVE TypeInv'
<1>1. /\ job[j].pc = "upload_temporary" /\ job[j].pc \in CommitPC /\ job[j].pc \in FilePC
      /\ Typed /\ Commits(j) /\ job[j] \in JobType /\ "upload" \in Name
      /\ job[j].id \in File /\ file[job[j].id] # None /\ Mine(j) = file[job[j].id]
  BY CommitHas, MineType DEF UploadTemporary, CommitPC, Name
<1>2. CASE /\ Uploads(j, "upload") /\ UNCHANGED <<area, lock, committed, inPlace>>
           /\ job' = [job EXCEPT ![j].pc = "rename_old", ![j].temp = NewHandle]
  <2>1. PhoneTyped' /\ NewHandle \in Handle
    BY <1>1, <1>2, CopiedTyped DEF Uploads
  <2> DEFINE r == [job[j] EXCEPT !.pc = "rename_old", !.temp = NewHandle]
  <2>2. job' = [job EXCEPT ![j] = r]
    BY <1>2
  <2>3. /\ r \in JobType /\ r.pc = "rename_old" /\ r.temp = NewHandle
        /\ r.id = job[j].id
    BY <1>1, <2>1 DEF JobType, PC
  <2> HIDE DEF r
  <2>4. job' \in [Job_ -> JobType] /\ Others(j) /\ job'[j] = r
    BY <1>1, <2>2, <2>3, SetJob
  <2>5. PhoneFrame /\ UNCHANGED lock
    BY <1>1, <1>2, <2>1, FrameTypes DEF Uploads, PhoneFrame, area, ghost, Typed, TypeOK
  <2>6. Commits(j)'
    BY <1>1, <2>3, <2>4, <2>5 DEF Commits, Mine, PhoneFrame
  <2>7. Fits(j)'
    BY <1>1, <2>1, <2>3, <2>4, <2>5, <2>6 DEF Fits, FilePC, CommitPC, PhoneFrame
  <2>8. /\ lock' \in [File -> Job_ \cup {None}] /\ \A i \in File : lock'[i] = lock[i]
        /\ \A i \in File : file[i] = None => lock'[i] = None
    BY <1>1, <2>5 DEF Typed, TypeOK
  <2> QED BY <2>4, <2>5, <2>7, <2>8, PhoneStepType
<1>3. CASE Fails(j, None)
  BY <1>1, <1>3, FailsType
<1> QED BY <1>2, <1>3, UploadTemporarySteps

LEMMA DeleteOldSteps ==
  ASSUME TypeInv, NEW j \in Job_, DeleteOld(j)
  PROVE  /\ OneObject(Mine(j).remote) /\ Finish(j, job[j].temp)
         /\ failures' = failures \/ (\E request : Breaks(request))
         /\ UNCHANGED <<calls, crossed>>
<1>1. Mine(j).remote \in Handle \cup {None}
  BY CommitHas DEF DeleteOld, CommitPC
<1> QED BY <1>1 DEF DeleteOld, Deletes, OneObject

LEMMA DeleteOldType ==
  ASSUME TypeInv, NEW j \in Job_, DeleteOld(j) PROVE TypeInv'
<1>1. job[j].pc \in CommitPC /\ job[j].temp \in Handle /\ Typed
  BY CommitHas DEF DeleteOld, CommitPC
<1>2. /\ OneObject(Mine(j).remote) /\ Finish(j, job[j].temp)
      /\ failures' = failures \/ (\E request : Breaks(request))
      /\ UNCHANGED <<calls, crossed>>
  BY DeleteOldSteps
<1>3. failures' \in 0 .. MaxFailures
  BY <1>1, <1>2, BreaksType, FrameTypes
<1>4. PhoneTyped'
  <2>1. CASE device' = device
    BY <1>1, <2>1 DEF PhoneTyped, Typed, TypeOK
  <2>2. CASE device' = [device EXCEPT ![Mine(j).remote] = None]
    BY <1>1, <2>2, DeletedTyped
  <2>3. CASE device' # device /\ device' # [device EXCEPT ![Mine(j).remote] = None]
    BY <1>1, <1>2, <2>3, NamedTyped DEF OneObject, Exists
  <2> QED BY <2>1, <2>2, <2>3
<1> QED BY <1>1, <1>2, <1>3, <1>4, FinishType

-----------------------------------------------------------------------------
(* Type correctness.                                                       *)

LEMMA TypeInit ==
  ASSUME Init PROVE TypeInv
<1>1. PICK n \in [Original -> Place \ Meta] :
        device = [h \in Handle |-> IF h \in Original THEN [name |-> n[h], data |-> 1] ELSE None]
  BY DEF Init
<1>2. PhoneTyped
  <2> SUFFICES ASSUME NEW h \in Handle
               PROVE  device[h] \in Object \cup {None} /\ (device[h] # None => device[h].data >= 1)
    BY <1>1 DEF PhoneTyped
  <2>1. CASE h \in Original
    <3>1. n[h] \in Name
      BY <1>1, <2>1 DEF Name
    <3> QED BY <1>1, <2>1, <3>1 DEF Object
  <2> QED BY <1>1, <2>1
<1>3. Typed
  <2>1. job \in [Job_ -> JobType]
    BY IdleType DEF Init
  <2> QED BY <1>2, <2>1, BoundAssumption DEF Init, PhoneTyped, Typed, TypeOK, JobType
<1>4. \A j \in Job_ : Fits(j)
  BY IdleType DEF Init, Fits, FilePC, CommitPC
<1> QED BY <1>3, <1>4 DEF TypeInv

LEMMA CommitStepType ==
  ASSUME TypeInv, NEW j \in Job_, CommitStep(j) PROVE TypeInv'
<1>1. CASE CommitLocally(j)
  BY <1>1, CommitLocallyType
<1>2. CASE BeginCommit(j)
  BY <1>2, BeginCommitType
<1>3. CASE Upload(j)
  BY <1>3, UploadType
<1>4. CASE UploadTemporary(j)
  BY <1>4, UploadTemporaryType
<1>5. CASE RenameOld(j)
  <2>1. job[j].pc \in CommitPC \ {"upload", "upload_temporary"}
    BY <1>5 DEF RenameOld, CommitPC
  <2>2. {"rename_temporary", "drop_temporary"} \in SUBSET (CommitPC \ {"upload", "upload_temporary"})
    BY DEF CommitPC
  <2> QED BY <1>5, <2>1, <2>2, RenameOldAsks, AsksType
<1>6. CASE RenameTemporary(j)
  <2>1. job[j].pc \in CommitPC \ {"upload", "upload_temporary"}
    BY <1>6 DEF RenameTemporary, CommitPC
  <2>2. {"delete_old", "restore_old"} \in SUBSET (CommitPC \ {"upload", "upload_temporary"})
    BY DEF CommitPC
  <2> QED BY <1>6, <2>1, <2>2, RenameTemporaryAsks, AsksType
<1>7. CASE RestoreOld(j)
  <2>1. job[j].pc \in CommitPC \ {"upload", "upload_temporary"}
    BY <1>7 DEF RestoreOld, CommitPC
  <2>2. {"give_up"} \in SUBSET (CommitPC \ {"upload", "upload_temporary"})
    BY DEF CommitPC
  <2> QED BY <1>7, <2>1, <2>2, RestoreOldAsks, AsksType
<1>8. CASE GiveUp(j)
  <2>1. job[j].pc \in CommitPC
    BY <1>8 DEF GiveUp, CommitPC
  <2> QED BY <1>8, <2>1, GiveUpFails, FailsType
<1>9. CASE DeleteOld(j)
  BY <1>9, DeleteOldType
<1>10. CASE DropTemporary(j)
  <2>1. job[j].pc \in CommitPC \ {"upload", "upload_temporary"}
    BY <1>10 DEF DropTemporary, CommitPC
  <2>2. {"delete_original"} \in SUBSET (CommitPC \ {"upload", "upload_temporary"})
    BY DEF CommitPC
  <2> QED BY <1>10, <2>1, <2>2, DropTemporaryAsks, AsksType
<1>11. CASE DeleteOriginal(j)
  <2>1. job[j].pc \in CommitPC \ {"upload", "upload_temporary"} /\ job[j].pc \in CommitPC
    BY <1>11 DEF DeleteOriginal, CommitPC
  <2>2. {"upload_again"} \in SUBSET (CommitPC \ {"upload", "upload_temporary"})
    BY DEF CommitPC
  <2> QED BY <1>11, <2>1, <2>2, DeleteOriginalSteps, AsksType, FailsType
<1> QED BY <1>1, <1>2, <1>3, <1>4, <1>5, <1>6, <1>7, <1>8, <1>9, <1>10, <1>11 DEF CommitStep

LEMMA CallStepType ==
  ASSUME TypeInv, NEW j \in Job, CallStep(j) PROVE TypeInv'
  BY DownloadType, PublishType, PublishedMeanwhileType, ReachesType, WriteType, RenameType,
     ScheduleType, RemoveType, UnmapType, UnlinkType DEF CallStep

LEMMA TypeStep ==
  ASSUME TypeInv, [Next]_vars PROVE TypeInv'
<1>1. CASE \E n \in Place : Create(n)
  BY <1>1, CreateType
<1>2. CASE \E j \in Job : \E call \in Call : Found(j, call) \/ Direct(j, call) \/ Describe(j, call)
  BY <1>2, FoundType, DirectType, DescribeType
<1>3. CASE \E j \in Job : \E timer \in timers : TimerFires(j, timer)
  BY <1>3, TimerFiresType
<1>4. CASE \E j \in Job : CallStep(j)
  BY <1>4, CallStepType
<1>5. CASE FlushStarts
  BY <1>5, FlushStartsType
<1>6. CASE \E id \in File : FlushNext(id)
  BY <1>6, FlushNextType
<1>7. CASE \E j \in Job_ : CommitStep(j)
  BY <1>7, CommitStepType
<1>8. CASE UNCHANGED vars
  BY <1>8 DEF vars, TypeInv, Typed, TypeOK, Fits, Commits, Mine
<1> QED BY <1>1, <1>2, <1>3, <1>4, <1>5, <1>6, <1>7, <1>8 DEF Next

LEMMA TypeAlways ==
  Spec => []TypeInv
<1>1. Init => TypeInv
  BY TypeInit
<1>2. TypeInv /\ [Next]_vars => TypeInv'
  BY TypeStep
<1> QED BY <1>1, <1>2, PTL DEF Spec

\* Whatever the calls, the delayed commits and the flushes interleave with, the staged files,
\* the overlays and the locks stay well formed, and no delayed commit is for a version that
\* has not been written yet (staging.rs).
THEOREM TypeCorrect ==
  Spec => []TypeOK
<1>1. TypeInv => TypeOK
  BY DEF TypeInv, Typed
<1> QED BY <1>1, TypeAlways, PTL

-----------------------------------------------------------------------------
(* What a step never takes back: an overlay, the loss of a file, and that  *)
(* an object was changed while it was being staged.                        *)

Grows ==
  /\ crossed \subseteq crossed'
  /\ \A h \in Handle : origins[h] # None => origins'[h] = origins[h]
  /\ \A i \in File : file[i] # None /\ i \in files' => i \in files
  /\ \A j \in Job : job[j].pc = "unmap" =>
       \/ job'[j].pc = "unmap" /\ job'[j].id = job[j].id
       \/ job[j].id \notin files'

LEMMA SoundKept ==
  ASSUME TypeInv, Grows, NEW i \in File, file[i] # None, Sound(i)' PROVE Sound(i)
<1>1. i \in files
  BY DEF Sound, Grows
<1>2. \A h \in crossed : origins[h] # i
  <2>1. \A h \in crossed : h \in Handle /\ h \in crossed' /\ origins'[h] # i
    BY DEF TypeInv, Typed, TypeOK, Sound, Grows
  <2>2. i # None
    BY SentinelAssumption
  <2> QED BY <2>1, <2>2 DEF Grows
<1>3. \A j \in Job : job[j].pc = "unmap" => job[j].id # i
  BY DEF Sound, Grows
<1> QED BY <1>1, <1>2, <1>3 DEF Sound

LEMMA GrowsBy ==
  ASSUME TypeInv, NEW j \in Job_, Others(j), job[j].pc # "unmap",
         crossed \subseteq crossed',
         \A h \in Handle : origins[h] # None => origins'[h] = origins[h],
         \A i \in File : file[i] # None /\ i \in files' => i \in files
  PROVE  Grows
  BY DEF Grows, Others, Job_

-----------------------------------------------------------------------------
(* The inductive invariant.                                                *)

\* An object overlaid by a file is found through it.
Origins ==
  /\ \A i \in File : file[i] # None /\ file[i].remote # None => origins[file[i].remote] = i
  /\ \A h \in Handle : origins[h] # None => file[origins[h]] # None

\* The temporary object of a commit is nobody else's.
Private ==
  \A j \in Job_ : job[j].temp # None =>
    /\ origins[job[j].temp] = None
    /\ \A k \in Job_ : /\ job[k].temp = job[j].temp => k = j
                       /\ job[k].call.op # "flush" => job[k].call.node # job[j].temp

\* What stage_existing has read is still so, unless somebody has overlaid or changed the object.
Reading(j) ==
  LET h == job[j].call.node IN
  job[j].pc \in {"download", "publish"} /\ h \notin crossed /\ origins[h] = None =>
    /\ device[h] # None /\ device[h].name = job[j].name
    /\ job[j].pc = "publish" => device[h].data = job[j].data

\* The temporary object is the version being committed.
Copying(j) ==
  LET h == job[j].temp IN
  /\ job[j].pc \in {"rename_old", "rename_temporary"} /\ device[h] # None =>
       device[h].data = Mine(j).content
  /\ job[j].pc = "delete_old" => device[h] = [name |-> Mine(j).name, data |-> Mine(j).content]

\* Only a file whose object the phone has refused to rename is replaced in place.
Replacing(j) ==
  job[j].pc \in {"drop_temporary", "delete_original", "upload_again"} => job[j].id \in inPlace

Holds(j) == Reading(j) /\ Copying(j) /\ Replacing(j)

Clean(i) ==
  Sound(i) /\ ~file[i].dirty /\ ~file[i].local_only =>
    /\ Exists(file[i].remote)
    /\ device[file[i].remote] = [name |-> file[i].name, data |-> file[i].content]

Stable(i) ==
  Sound(i) /\ file[i].remote # None =>
    IF Exists(file[i].remote) THEN device[file[i].remote].data >= committed[i]
    ELSE i \in inPlace

DataInv ==
  /\ TypeInv /\ Origins /\ Private
  /\ \A j \in Job_ : Holds(j)
  /\ \A i \in files : Clean(i) /\ Stable(i)

\* The jobs that take no step.
LEMMA StillHold ==
  ASSUME DataInv, Grows, NEW S \in SUBSET Job_, \A k \in S : job'[k] = job[k],
         \A i \in File : lock[i] \in S => file'[i] = file[i],
         \A i \in inPlace : lock[i] \in S => i \in inPlace',
         \A k \in S : job[k].temp # None => device'[job[k].temp] = device[job[k].temp],
         \A k \in S :
           LET h == job[k].call.node IN
           job[k].pc \in {"download", "publish"} /\ h \notin crossed' /\ origins[h] = None
             => device'[h] = device[h] \/ origins'[h] # None
  PROVE  \A k \in S : Holds(k)'
<1> SUFFICES ASSUME NEW k \in S PROVE Holds(k)'
  OBVIOUS
<1>1. Holds(k) /\ job'[k] = job[k] /\ TypeInv /\ Fits(k) /\ Typed
  BY DEF DataInv, TypeInv
<1>2. Reading(k)'
  <2> SUFFICES ASSUME job[k].pc \in {"download", "publish"},
                      job[k].call.node \notin crossed', origins'[job[k].call.node] = None
               PROVE  /\ device'[job[k].call.node] # None
                      /\ device'[job[k].call.node].name = job[k].name
                      /\ job[k].pc = "publish" => device'[job[k].call.node].data = job[k].data
    BY <1>1 DEF Reading
  <2>1. job[k].call.node \in Handle
    BY <1>1 DEF Fits
  <2>2. job[k].call.node \notin crossed /\ origins[job[k].call.node] = None
    BY <2>1 DEF Grows
  <2> QED BY <1>1, <2>2 DEF Holds, Reading
<1>3. job[k].pc \in CommitPC => file'[job[k].id] = file[job[k].id]
  BY <1>1 DEF Fits, FilePC, Commits
<1>4. Copying(k)'
  <2> SUFFICES ASSUME job[k].pc \in {"rename_old", "rename_temporary", "delete_old"}
               PROVE  Copying(k)'
    BY <1>1 DEF Copying
  <2>1. job[k].temp # None
    BY <1>1, SentinelAssumption DEF Fits, CommitPC
  <2> QED BY <1>1, <1>3, <2>1 DEF Holds, Copying, Mine, CommitPC
<1>5. Replacing(k)'
  <2>1. job[k].pc \in {"drop_temporary", "delete_original", "upload_again"} =>
          lock[job[k].id] = k /\ job[k].id \in inPlace
    BY <1>1 DEF Fits, CommitPC, Commits, Holds, Replacing
  <2> QED BY <1>1, <2>1 DEF Replacing
<1> QED BY <1>2, <1>4, <1>5 DEF Holds

LEMMA OthersHold ==
  ASSUME DataInv, Grows, NEW j \in Job_, Others(j),
         \A i \in File : lock[i] \in Job_ \ {j} => file'[i] = file[i],
         \A i \in inPlace : lock[i] \in Job_ \ {j} => i \in inPlace',
         \A k \in Job_ \ {j} : job[k].temp # None => device'[job[k].temp] = device[job[k].temp],
         \A k \in Job_ \ {j} :
           LET h == job[k].call.node IN
           job[k].pc \in {"download", "publish"} /\ h \notin crossed' /\ origins[h] = None
             => device'[h] = device[h] \/ origins'[h] # None
  PROVE  \A k \in Job_ \ {j} : Holds(k)'
<1>1. PICK S \in SUBSET Job_ : S = Job_ \ {j}
  OBVIOUS
<1> QED BY <1>1, StillHold DEF Others

LEMMA PrivateKept ==
  ASSUME Private, NEW j \in Job_, Others(j),
         job'[j].temp = None \/ job'[j].temp = job[j].temp,
         \A k \in Job_ : job[k].temp # None =>
           /\ origins'[job[k].temp] = None \/ job'[k].temp = None
           /\ job'[j].call.op # "flush" => job'[j].call.node # job[k].temp
  PROVE  Private'
<1> SUFFICES ASSUME NEW i \in Job_, job'[i].temp # None, NEW k \in Job_
             PROVE  /\ origins'[job'[i].temp] = None
                    /\ job'[k].temp = job'[i].temp => k = i
                    /\ job'[k].call.op # "flush" => job'[k].call.node # job'[i].temp
  BY DEF Private
<1>1. job'[i].temp = job[i].temp /\ job'[k].temp \in {None, job[k].temp}
  BY DEF Others
<1>2. job[i].temp # None /\ (k = j \/ job'[k] = job[k])
  BY <1>1 DEF Others
<1> QED BY <1>1, <1>2 DEF Private

\* A file that is left alone, with its object.
LEMMA FileKept ==
  ASSUME DataInv, Grows, NEW i \in files', file[i] # None, i \in File,
         file'[i] = file[i], committed'[i] = committed[i], i \in inPlace => i \in inPlace',
         file[i].remote # None => device'[file[i].remote] = device[file[i].remote] \/ ~Sound(i)'
  PROVE  Clean(i)' /\ Stable(i)'
<1>1. Sound(i)' => Sound(i) /\ i \in files
  BY SoundKept DEF DataInv, Sound
<1>2. Sound(i) /\ i \in files => Clean(i) /\ Stable(i)
  BY DEF DataInv
<1>3. CASE ~Sound(i)'
  BY <1>3 DEF Clean, Stable
<1>4. CASE Sound(i)'
  BY <1>1, <1>2, <1>4 DEF Clean, Stable, Exists
<1> QED BY <1>3, <1>4

-----------------------------------------------------------------------------
(* What the step of one file is of WriteBack.                              *)

SameRefusal(i) == i \in inPlace' <=> i \in inPlace

Keeps(i) == Versions'[i] = Versions[i] /\ Stores'[i] = Stores[i] /\ SameRefusal(i)

\* One file is removed, stored, written or opened, the phone refuses to rename it or lacks it
\* while it is replaced; or nothing can be seen of the step.
Turns(i) ==
  \/ Keeps(i)
  \/ Versions'[i] = None /\ Stores'[i] = None /\ (i \in inPlace' => i \in inPlace)
  \/ /\ Versions[i] # None /\ Versions'[i] = Versions[i] /\ Stores'[i] = Versions[i]
     /\ i \notin inPlace'
  \/ /\ Versions[i] # None /\ Versions'[i] \in Nat /\ Versions'[i] > Versions[i]
     /\ Stores'[i] = Stores[i] /\ SameRefusal(i)
  \/ /\ Versions[i] = None /\ Versions'[i] \in Nat
     /\ Stores'[i] = Stores[i] \/ Stores'[i] = Versions'[i]
     /\ SameRefusal(i)
  \/ Versions'[i] = Versions[i] /\ Stores'[i] = Stores[i] /\ i \in inPlace'
  \/ Versions'[i] = Versions[i] /\ Stores'[i] = None /\ i \in inPlace /\ i \in inPlace'

LEMMA AbstractStep ==
  ASSUME NEW id \in File, \A i \in File \ {id} : Keeps(i), Turns(id),
         inPlace \subseteq File, inPlace' \subseteq File
  PROVE  [Copies!Next]_(Copies!vars)
<1>1. /\ Versions = [i \in File |-> Versions[i]] /\ Versions' = [i \in File |-> Versions'[i]]
      /\ Stores = [i \in File |-> Stores[i]] /\ Stores' = [i \in File |-> Stores'[i]]
  BY DEF Versions, Stores, Sound, Exists
<1>2. /\ Versions' = [Versions EXCEPT ![id] = Versions'[id]]
      /\ Stores' = [Stores EXCEPT ![id] = Stores'[id]]
  BY <1>1 DEF Keeps
<1>3. /\ SameRefusal(id) => inPlace' = inPlace
      /\ id \in inPlace' => inPlace' = inPlace \cup {id}
      /\ id \notin inPlace' => inPlace' = inPlace \ {id}
  BY DEF Keeps, SameRefusal
<1>4. CASE Keeps(id)
  <2>1. Versions' = Versions /\ Stores' = Stores /\ inPlace' = inPlace
    BY <1>1, <1>2, <1>3, <1>4 DEF Keeps
  <2> QED BY <2>1 DEF Copies!vars
<1>5. CASE Versions'[id] = None /\ Stores'[id] = None /\ (id \in inPlace' => id \in inPlace)
  <2>1. inPlace' \in {inPlace, inPlace \ {id}}
    BY <1>3, <1>5 DEF SameRefusal
  <2>2. Copies!Remove(id)
    BY <1>2, <1>5, <2>1 DEF Copies!Remove
  <2> QED BY <2>2 DEF Copies!Next
<1>6. CASE /\ Versions[id] # None /\ Versions'[id] = Versions[id] /\ Stores'[id] = Versions[id]
           /\ id \notin inPlace'
  <2>1. Versions' = Versions
    BY <1>1, <1>2, <1>6
  <2>2. Copies!Store(id)
    BY <1>2, <1>3, <1>6, <2>1 DEF Copies!Store
  <2> QED BY <2>2 DEF Copies!Next
<1>7. CASE /\ Versions[id] # None /\ Versions'[id] \in Nat /\ Versions'[id] > Versions[id]
           /\ Stores'[id] = Stores[id] /\ SameRefusal(id)
  <2>1. Stores' = Stores
    BY <1>1, <1>2, <1>7
  <2>2. Copies!Write(id)
    BY <1>2, <1>3, <1>7, <2>1 DEF Copies!Write, Copies!Changes
  <2> QED BY <2>2 DEF Copies!Next
<1>8. CASE /\ Versions[id] = None /\ Versions'[id] \in Nat
           /\ Stores'[id] = Stores[id] \/ Stores'[id] = Versions'[id]
           /\ SameRefusal(id)
  <2>1. Stores' = Stores \/ Stores' = [Stores EXCEPT ![id] = Versions'[id]]
    BY <1>1, <1>2, <1>8
  <2>2. Copies!Open(id)
    BY <1>2, <1>3, <1>8, <2>1 DEF Copies!Open, Copies!Changes
  <2> QED BY <2>2 DEF Copies!Next
<1>9. CASE Versions'[id] = Versions[id] /\ Stores'[id] = Stores[id] /\ id \in inPlace'
  <2>1. Versions' = Versions /\ Stores' = Stores
    BY <1>1, <1>2, <1>9
  <2>2. Copies!Refuse(id)
    BY <1>3, <1>9, <2>1 DEF Copies!Refuse
  <2> QED BY <2>2 DEF Copies!Next
<1>10. CASE /\ Versions'[id] = Versions[id] /\ Stores'[id] = None
            /\ id \in inPlace /\ id \in inPlace'
  <2>1. Versions' = Versions /\ inPlace' = inPlace
    BY <1>1, <1>2, <1>3, <1>10 DEF SameRefusal
  <2>2. Copies!Withdraw(id)
    BY <1>2, <1>10, <2>1 DEF Copies!Withdraw
  <2> QED BY <2>2 DEF Copies!Next
<1> QED BY <1>4, <1>5, <1>6, <1>7, <1>8, <1>9, <1>10 DEF Turns

LEMMA VersionsAt ==
  ASSUME NEW i \in File
  PROVE  /\ Versions[i] = IF Sound(i) THEN file[i].content ELSE None
         /\ Stores[i] = IF Sound(i) /\ Exists(file[i].remote)
                        THEN device[file[i].remote].data ELSE None
         /\ Versions'[i] = IF Sound(i)' THEN file'[i].content ELSE None
         /\ Stores'[i] = IF Sound(i)' /\ Exists(file[i].remote)'
                         THEN device'[file'[i].remote].data ELSE None
  BY DEF Versions, Stores, Sound, Exists

\* A file nobody loses, and of which neither the content nor the phone's copy changes.
LEMMA KeepsBy ==
  ASSUME DataInv, NEW i \in File, Sound(i) <=> Sound(i)', SameRefusal(i),
         Sound(i) => /\ file'[i].content = file[i].content /\ file'[i].remote = file[i].remote
                     /\ file[i].remote # None =>
                          \/ device'[file[i].remote] = device[file[i].remote]
                          \/ /\ device[file[i].remote] # None /\ device'[file[i].remote] # None
                             /\ device'[file[i].remote].data = device[file[i].remote].data
  PROVE  Keeps(i)
  BY VersionsAt DEF Keeps, Exists

LEMMA LosesTurns ==
  ASSUME NEW i \in File, ~Sound(i)', i \in inPlace' => i \in inPlace PROVE Turns(i)
  BY VersionsAt DEF Turns

LEMMA StuttersKeeping ==
  ASSUME UNCHANGED inPlace, \A i \in File : Keeps(i) PROVE [Copies!Next]_(Copies!vars)
<1>1. /\ Versions = [i \in File |-> Versions[i]] /\ Versions' = [i \in File |-> Versions'[i]]
      /\ Stores = [i \in File |-> Stores[i]] /\ Stores' = [i \in File |-> Stores'[i]]
  BY DEF Versions, Stores, Sound, Exists
<1>2. Versions' = Versions /\ Stores' = Stores
  BY <1>1 DEF Keeps
<1> QED BY <1>2 DEF Copies!vars

LEMMA SameSoundAt ==
  ASSUME TypeInv, TypeInv', NEW i \in File, i \in files <=> i \in files',
         \A h \in Handle : h \in crossed /\ origins[h] = i <=> h \in crossed' /\ origins'[h] = i,
         \A k \in Job : job[k].pc = "unmap" /\ job[k].id = i
                          <=> job'[k].pc = "unmap" /\ job'[k].id = i
  PROVE  Sound(i) <=> Sound(i)'
<1>1. crossed \subseteq Handle /\ crossed' \subseteq Handle
  BY DEF TypeInv, Typed, TypeOK
<1> QED BY <1>1 DEF Sound

-----------------------------------------------------------------------------
(* Steps that leave the files, the overlays and the phone alone.           *)

QuietFrame(j) ==
  /\ UNCHANGED <<device, file, origins, ghost>> /\ files' \subseteq files
  /\ Others(j)
  /\ job[j].pc = "unmap" => job[j].id \notin files'

\* The node a job is called for is no commit's temporary object.
Called(j) == \A k \in Job_ : job'[j].call.op # "flush" /\ job[k].temp # None =>
                               job'[j].call.node # job[k].temp

LEMMA QuietGrows ==
  ASSUME NEW j \in Job_, QuietFrame(j) PROVE Grows
  BY DEF QuietFrame, Grows, Others, ghost, Job_

LEMMA QuietData ==
  ASSUME DataInv, TypeInv', NEW j \in Job_, QuietFrame(j),
         job'[j].temp = None \/ job'[j].temp = job[j].temp, Called(j), Holds(j)'
  PROVE  DataInv'
<1>1. UNCHANGED <<device, file, origins, crossed, committed, inPlace>> /\ Others(j)
  BY DEF QuietFrame, ghost
<1>2. Grows
  BY QuietGrows
<1>3. Origins'
  BY <1>1 DEF DataInv, Origins
<1>4. Private'
  <2>1. \A k \in Job_ : job[k].temp # None => origins'[job[k].temp] = None
    BY <1>1 DEF DataInv, Private
  <2> QED BY <1>1, <2>1, PrivateKept DEF DataInv, Called
<1>5. \A k \in Job_ : Holds(k)'
  BY <1>1, <1>2, OthersHold
<1>6. ASSUME NEW i \in files' PROVE Clean(i)' /\ Stable(i)'
  <2>1. i \in File /\ file[i] # None
    BY <1>6 DEF QuietFrame, DataInv, TypeInv, Typed, TypeOK
  <2> QED BY <1>1, <1>2, <2>1, FileKept
<1> QED BY <1>3, <1>4, <1>5, <1>6 DEF DataInv

\* A step that goes on with the same call, at a point that promises nothing of the phone.
Plain == PC \ {"download", "publish", "rename_old", "rename_temporary", "delete_old",
               "drop_temporary", "delete_original", "upload_again"}

LEMMA PlainHolds ==
  ASSUME NEW j \in Job_, job'[j].pc \in Plain PROVE Holds(j)'
  BY DEF Plain, Holds, Reading, Copying, Replacing

LEMMA CalledSame ==
  ASSUME DataInv, NEW j \in Job_, job'[j].call = job[j].call PROVE Called(j)
  BY DEF DataInv, Private, Called

LEMMA CalledNone ==
  ASSUME NEW j \in Job_, job'[j].call.op = "flush" PROVE Called(j)
  BY DEF Called

LEMMA CalledVisible ==
  ASSUME DataInv, NEW j \in Job_, Visible(job'[j].call.node), job'[j].call.node \in Node
  PROVE  Called(j)
<1> SUFFICES ASSUME NEW k \in Job_, job[k].temp # None, job'[j].call.node = job[k].temp
             PROVE  FALSE
  BY DEF Called
<1>1. job[k].temp \in Handle /\ origins[job[k].temp] = None
  BY ObjectType DEF DataInv, TypeInv, JobType, Private
<1>2. job[k].temp \notin File
  BY <1>1, HandleAssumption
<1> QED BY <1>1, <1>2 DEF Visible

\* The same where the job is done, or goes on plainly.
LEMMA QuietPlain ==
  ASSUME DataInv, TypeInv', NEW j \in Job_, QuietFrame(j),
         job'[j].temp = None \/ job'[j].temp = job[j].temp, job'[j].pc \in Plain,
         job'[j].call = job[j].call
  PROVE  DataInv'
  BY QuietData, PlainHolds, CalledSame

LEMMA QuietAfter ==
  ASSUME DataInv, TypeInv', NEW j \in Job_, QuietFrame(j), After(j)
  PROVE  DataInv'
<1>1. /\ job'[j].temp = None /\ job'[j].call.op = "flush" /\ job'[j].pc \in Plain
  BY AfterType DEF DataInv, TypeInv, Plain, PC
<1> QED BY <1>1, QuietData, PlainHolds, CalledNone

LEMMA FoundData ==
  ASSUME DataInv, TypeInv', NEW j \in Job, NEW call \in Call,
         Found(j, call) \/ Direct(j, call)
  PROVE  DataInv'
<1> DEFINE r == [job[j] EXCEPT !.pc = call.op, !.call = call, !.id = Overlay(call.node)]
           d == [job[j] EXCEPT !.pc = "direct", !.call = call]
<1>0. /\ j \in Job_ /\ job[j] \in JobType /\ TypeInv /\ Typed /\ Arrives(j, call)
      /\ job \in [Job_ -> JobType]
  BY ObjectType DEF DataInv, TypeInv, Job_, Found, Direct
<1>1. /\ call.op # "flush" /\ call.node \in Node /\ Visible(call.node) /\ job[j].pc = "idle"
      /\ UNCHANGED <<device, file, origins, files, ghost>>
  BY <1>0, ArrivesType DEF TalkFrame, Arrives, area
<1>2. call.op \in {"write", "commit", "remove", "rename"}
  BY <1>1, CallType
<1>3. job' = [job EXCEPT ![j] = r] \/ job' = [job EXCEPT ![j] = d]
  BY DEF Found, Direct
<1>4. /\ r.pc \in Plain /\ d.pc \in Plain /\ r.call = call /\ d.call = call
      /\ r.temp = job[j].temp /\ d.temp = job[j].temp
  BY <1>0, <1>2 DEF JobType, Plain, PC
<1> HIDE DEF r, d
<1>5. Others(j) /\ job'[j].pc \in Plain /\ job'[j].call = call /\ job'[j].temp = job[j].temp
  BY <1>0, <1>3, <1>4 DEF Others
<1>6. QuietFrame(j)
  BY <1>1, <1>5 DEF QuietFrame
<1>7. Called(j)
  BY <1>0, <1>1, <1>5, CalledVisible
<1> QED BY <1>0, <1>5, <1>6, <1>7, QuietData, PlainHolds

LEMMA DescribeData ==
  ASSUME DataInv, TypeInv', NEW j \in Job, NEW call \in Call, Describe(j, call)
  PROVE  DataInv'
<1> DEFINE r == [job[j] EXCEPT !.pc = "download", !.call = call,
                               !.name = device[call.node].name]
<1>0. /\ j \in Job_ /\ job[j] \in JobType /\ TypeInv /\ Typed /\ Arrives(j, call)
      /\ job \in [Job_ -> JobType]
  BY ObjectType DEF DataInv, TypeInv, Job_, Describe
<1>1. /\ call.op # "flush" /\ call.node \in Node /\ Visible(call.node) /\ job[j].pc = "idle"
      /\ UNCHANGED <<device, file, origins, files, ghost>>
  BY <1>0, ArrivesType DEF TalkFrame, Arrives, area
<1>2. device[call.node] # None
  BY <1>0, DescribeSees
<1>3. job' = [job EXCEPT ![j] = r]
  BY DEF Describe
<1>4. /\ r.pc = "download" /\ r.call = call /\ r.temp = job[j].temp
      /\ r.name = device[call.node].name
  BY <1>0 DEF JobType
<1> HIDE DEF r
<1>5. Others(j) /\ job'[j] = r
  BY <1>0, <1>3 DEF Others
<1>6. QuietFrame(j)
  BY <1>1, <1>5 DEF QuietFrame
<1>7. Called(j)
  BY <1>0, <1>1, <1>4, <1>5, CalledVisible
<1>8. Holds(j)'
  BY <1>1, <1>2, <1>4, <1>5 DEF Holds, Reading, Copying, Replacing
<1> QED BY <1>0, <1>4, <1>5, <1>6, <1>7, <1>8, QuietData

LEMMA DownloadData ==
  ASSUME DataInv, TypeInv', NEW j \in Job, Download(j) PROVE DataInv'
<1> DEFINE h == job[j].call.node
           r == [job[j] EXCEPT !.pc = "publish", !.data = device[h].data]
<1>0. /\ j \in Job_ /\ job[j] \in JobType /\ TypeInv /\ Typed /\ job[j].pc = "download"
      /\ job \in [Job_ -> JobType] /\ Holds(j)
      /\ UNCHANGED <<device, file, origins, files, ghost>>
  BY ObjectType DEF DataInv, TypeInv, Job_, Download, area
<1>1. CASE Exists(h)
  <2>1. job' = [job EXCEPT ![j] = r]
    BY <1>1 DEF Download
  <2>2. /\ r.pc = "publish" /\ r.call = job[j].call /\ r.temp = job[j].temp
        /\ r.name = job[j].name /\ r.data = device[h].data
    BY <1>0 DEF JobType
  <2> HIDE DEF r
  <2>3. Others(j) /\ job'[j] = r
    BY <1>0, <2>1 DEF Others
  <2>4. QuietFrame(j)
    BY <1>0, <2>3 DEF QuietFrame
  <2>5. Holds(j)'
    BY <1>0, <1>1, <2>2, <2>3 DEF Holds, Reading, Copying, Replacing, ghost
  <2> QED BY <1>0, <2>2, <2>3, <2>4, <2>5, QuietData, CalledSame
<1>2. CASE ~Exists(h)
  <2>1. After(j)
    BY <1>2 DEF Download
  <2>2. QuietFrame(j)
    BY <1>0, <2>1, AfterType DEF QuietFrame
  <2> QED BY <1>0, <2>1, <2>2, QuietAfter
<1> QED BY <1>1, <1>2

\* A job that is set to r, where r is plain and is called for the same.
LEMMA QuietSet ==
  ASSUME DataInv, TypeInv', NEW j \in Job_, NEW r, job' = [job EXCEPT ![j] = r],
         r.pc \in Plain, r.call = job[j].call, r.temp = job[j].temp,
         UNCHANGED <<device, file, files, origins, ghost>>, job[j].pc # "unmap"
  PROVE  DataInv'
<1>1. job'[j] = r /\ Others(j)
  BY ObjectType DEF DataInv, TypeInv, Others
<1>2. QuietFrame(j)
  BY <1>1 DEF QuietFrame
<1> QED BY <1>1, <1>2, QuietPlain

LEMMA QuietDone ==
  ASSUME DataInv, TypeInv', NEW j \in Job_, After(j),
         UNCHANGED <<device, file, files, origins, ghost>>, job[j].pc # "unmap"
  PROVE  DataInv'
<1>1. Others(j)
  BY AfterType DEF DataInv, TypeInv
<1>2. QuietFrame(j)
  BY <1>1 DEF QuietFrame
<1> QED BY <1>2, QuietAfter

LEMMA PublishedMeanwhileData ==
  ASSUME DataInv, TypeInv', NEW j \in Job, PublishedMeanwhile(j) PROVE DataInv'
<1> DEFINE id == origins[job[j].call.node]
           r == [job[j] EXCEPT !.pc = "write", !.id = id]
<1>0. /\ j \in Job_ /\ job[j] \in JobType /\ job[j].pc # "unmap"
      /\ UNCHANGED <<device, file, origins, files, ghost>>
  BY ObjectType DEF DataInv, TypeInv, Job_, PublishedMeanwhile, area
<1>1. CASE id \in files
  <2>1. job' = [job EXCEPT ![j] = r]
    BY <1>1 DEF PublishedMeanwhile
  <2>2. r.pc \in Plain /\ r.call = job[j].call /\ r.temp = job[j].temp
    BY <1>0 DEF JobType, Plain, PC
  <2> HIDE DEF r
  <2> QED BY <1>0, <2>1, <2>2, QuietSet
<1>2. CASE id \notin files
  BY <1>0, <1>2, QuietDone DEF PublishedMeanwhile
<1> QED BY <1>1, <1>2

LEMMA TimerFiresData ==
  ASSUME DataInv, TypeInv', NEW j \in Job, NEW timer \in timers, TimerFires(j, timer)
  PROVE  DataInv'
<1> DEFINE r == [job[j] EXCEPT !.pc = "commit", !.id = timer.id]
<1>0. /\ j \in Job_ /\ job[j] \in JobType /\ job[j].pc = "idle"
      /\ UNCHANGED <<device, file, origins, files, ghost>>
      /\ job \in [Job_ -> JobType]
  BY ObjectType DEF DataInv, TypeInv, Job_, TimerFires
<1>1. r.pc \in Plain /\ r.call = job[j].call /\ r.temp = job[j].temp
  BY <1>0 DEF JobType, Plain, PC
<1>2. job' = [job EXCEPT ![j] = r] \/ job' = [job EXCEPT ![j] = job[j]]
  BY <1>0 DEF TimerFires
<1>3. job[j].pc \in Plain
  BY <1>0 DEF Plain, PC
<1> HIDE DEF r
<1> QED BY <1>0, <1>1, <1>2, <1>3, QuietSet

LEMMA FlushStartsData ==
  ASSUME DataInv, TypeInv', FlushStarts PROVE DataInv'
<1> DEFINE j == Discovery
           r == [job[j] EXCEPT !.pc = "flush", !.todo = files]
<1>0. /\ j \in Job_ /\ job[j] \in JobType /\ job[j].pc # "unmap"
      /\ UNCHANGED <<device, file, origins, files, ghost>>
      /\ job' = [job EXCEPT ![j] = r]
  BY ObjectType DEF DataInv, TypeInv, Job_, FlushStarts, area
<1>1. r.pc \in Plain /\ r.call = job[j].call /\ r.temp = job[j].temp
  BY <1>0 DEF JobType, Plain, PC
<1> HIDE DEF r, j
<1> QED BY <1>0, <1>1, QuietSet

LEMMA FlushNextData ==
  ASSUME DataInv, TypeInv', NEW id \in File, FlushNext(id) PROVE DataInv'
<1> DEFINE j == Discovery
           rest == job[j].todo \ {id}
           c == [job[j] EXCEPT !.pc = "commit", !.id = id, !.todo = rest]
           d == [job[j] EXCEPT !.todo = rest]
<1>0. /\ j \in Job_ /\ job[j] \in JobType /\ job[j].pc = "flush"
      /\ UNCHANGED <<device, file, origins, files, ghost>>
      /\ job \in [Job_ -> JobType]
  BY ObjectType DEF DataInv, TypeInv, Job_, FlushNext, area
<1>1. \/ job' = [job EXCEPT ![j] = c] \/ job' = [job EXCEPT ![j] = d]
      \/ job' = [job EXCEPT ![j] = IdleJob]
  BY <1>0 DEF FlushNext
<1>2. /\ c.pc \in Plain /\ c.call = job[j].call /\ c.temp = job[j].temp
      /\ d.pc \in Plain /\ d.call = job[j].call /\ d.temp = job[j].temp
  BY <1>0 DEF JobType, Plain, PC
<1> HIDE DEF c, d, rest, j
<1>3. CASE job' = [job EXCEPT ![j] = c] \/ job' = [job EXCEPT ![j] = d]
  BY <1>0, <1>2, <1>3, QuietSet
<1>4. CASE job' = [job EXCEPT ![j] = IdleJob]
  <2>1. job'[j] = IdleJob /\ Others(j)
    BY <1>0, <1>4 DEF Others
  <2>2. job'[j].pc \in Plain /\ job'[j].temp = None /\ job'[j].call.op = "flush"
    BY <2>1, IdleType DEF Plain, PC
  <2>3. QuietFrame(j)
    BY <1>0, <2>1 DEF QuietFrame
  <2> QED BY <1>0, <2>2, <2>3, QuietData, PlainHolds, CalledNone
<1> QED BY <1>1, <1>3, <1>4

LEMMA UnmapData ==
  ASSUME DataInv, TypeInv', NEW j \in Job, Unmap(j) PROVE DataInv'
<1>0. /\ j \in Job_ /\ TypeInv /\ Typed /\ To(j, "unlink")
      /\ UNCHANGED <<device, file, origins, ghost>> /\ files' = files \ {job[j].id}
  BY DEF DataInv, TypeInv, Job_, Unmap
<1>1. Others(j) /\ job'[j].pc = "unlink" /\ Same(j)
  BY <1>0, ToType DEF PC
<1>2. QuietFrame(j)
  BY <1>0, <1>1 DEF QuietFrame
<1>3. job'[j].pc \in Plain
  BY <1>1 DEF Plain, PC
<1> QED BY <1>0, <1>1, <1>2, <1>3, QuietPlain DEF Same

LEMMA BeginCommitData ==
  ASSUME DataInv, TypeInv', NEW j \in Job_, BeginCommit(j) PROVE DataInv'
<1> DEFINE pc == IF Mine(j).remote = None THEN "upload" ELSE "upload_temporary"
<1>0. /\ TypeInv /\ Typed /\ To(j, pc) /\ job[j].pc = "commit"
      /\ UNCHANGED <<device, file, files, origins, ghost>>
  BY DEF DataInv, TypeInv, BeginCommit, area
<1>1. pc \in PC /\ pc \in Plain
  BY DEF Plain, PC
<1> HIDE DEF pc
<1>2. Others(j) /\ job'[j].pc = pc /\ Same(j)
  BY <1>0, <1>1, ToType
<1>3. QuietFrame(j)
  BY <1>0, <1>2 DEF QuietFrame
<1> QED BY <1>1, <1>2, <1>3, QuietPlain DEF Same

-----------------------------------------------------------------------------
(* Another version of a file.                                              *)

LEMMA EditData ==
  ASSUME DataInv, TypeInv', NEW j \in Job_, NEW id \in File, NEW f \in Staged,
         file' = [file EXCEPT ![id] = f], lock[id] = None, file[id] # None,
         UNCHANGED <<device, files, origins, ghost>>, job[j].pc # "unmap",
         f.remote = file[id].remote, f.dirty \/ f = file[id] \/ f.local_only,
         Others(j), job'[j].temp = None \/ job'[j].temp = job[j].temp, job'[j].pc \in Plain,
         Called(j)
  PROVE  DataInv'
<1>1. /\ f # None /\ file'[id] = f /\ \A i \in File : i # id => file'[i] = file[i]
      /\ \A i \in File : file'[i] # None => file[i] # None
      /\ \A i \in File : file[i] # None => file'[i] # None
      /\ UNCHANGED <<crossed, committed, inPlace>>
  BY RecordAssumption DEF DataInv, TypeInv, Typed, TypeOK, ghost
<1>2. Grows
  BY <1>1, GrowsBy DEF DataInv
<1>3. Origins'
  <2>1. \A i \in File : file'[i] # None => file[i] # None /\ file'[i].remote = file[i].remote
    BY <1>1
  <2>2. \A h \in Handle : origins[h] # None => origins[h] \in File
    BY DEF DataInv, TypeInv, Typed, TypeOK
  <2> QED BY <1>1, <2>1, <2>2 DEF DataInv, Origins
<1>4. Private'
  <2>1. \A k \in Job_ : job[k].temp # None => origins'[job[k].temp] = None
    BY DEF DataInv, Private
  <2> QED BY <2>1, PrivateKept DEF DataInv, Called
<1>5. \A i \in File : lock[i] \in Job_ \ {j} => file'[i] = file[i]
  BY <1>1, JobAssumption DEF Job_
<1>6. \A k \in Job_ : Holds(k)'
  BY <1>1, <1>2, <1>5, OthersHold, PlainHolds
<1>7. ASSUME NEW i \in files' PROVE Clean(i)' /\ Stable(i)'
  <2>1. i \in files /\ i \in File /\ file[i] # None /\ Clean(i) /\ Stable(i)
    BY <1>7 DEF DataInv, TypeInv, Typed, TypeOK
  <2>2. CASE file'[i] = file[i]
    BY <1>1, <1>2, <2>1, <2>2, FileKept
  <2>3. CASE file'[i] # file[i]
    <3>1. i = id /\ f # file[id]
      BY <1>1, <2>1, <2>3
    <3>2. Sound(i)' => Sound(i)
      BY <1>2, <2>1, SoundKept DEF DataInv
    <3>3. Clean(i)'
      BY <1>1, <3>1 DEF Clean
    <3>4. Stable(i)'
      BY <1>1, <2>1, <3>1, <3>2 DEF Stable, Exists
    <3> QED BY <3>3, <3>4
  <2> QED BY <2>2, <2>3
<1> QED BY <1>3, <1>4, <1>6, <1>7 DEF DataInv

LEMMA WriteData ==
  ASSUME DataInv, TypeInv', NEW j \in Job, Write(j) PROVE DataInv'
<1> DEFINE id == job[j].id
<1>0. /\ j \in Job_ /\ job[j].pc = "write" /\ job[j].pc \in FilePC /\ lock[id] = None
      /\ TypeInv /\ Typed /\ UNCHANGED <<device, files, origins, ghost>>
  BY DEF Write, Job_, FilePC, DataInv, TypeInv, Locks, local
<1>1. /\ id \in File /\ file[id] # None /\ Mine(j) = file[id] /\ Fits(j) /\ job[j] \in JobType
  BY <1>0, MineType
<1>2. CASE id \in disk
  <2>1. PICK f \in Staged : /\ Update(j, f) /\ f.remote = file[id].remote
                            /\ f.dirty \/ f = file[id]
    BY <1>0, <1>1, <1>2, WriteSets
  <2>2. file' = [file EXCEPT ![id] = f]
    BY <2>1 DEF Update
  <2>3. /\ Others(j)
        /\ job'[j].temp = None \/ job'[j].temp = job[j].temp
        /\ job'[j].pc \in Plain /\ Called(j)
    <3>1. CASE job[j].call.then = "nothing"
      <4>1. After(j)
        BY <1>2, <3>1 DEF Write
      <4>2. Others(j) /\ job'[j].temp = None /\ job'[j].pc \in {"idle", "flush"}
            /\ job'[j].call.op = "flush"
        BY <1>0, <4>1, AfterType
      <4> QED BY <1>0, <4>2, CalledNone DEF Plain, PC
    <3>2. CASE job[j].call.then # "nothing"
      <4>1. To(j, job[j].call.then)
        BY <1>2, <3>2 DEF Write
      <4>2. job[j].call.then \in {"schedule", "commit"}
        BY <1>0, <1>1, <3>2, CallType DEF Fits, JobType
      <4>3. Others(j) /\ job'[j].pc \in {"schedule", "commit"} /\ Same(j)
        BY <1>0, <4>1, <4>2, ToType DEF PC
      <4> QED BY <1>0, <4>3, CalledSame DEF Plain, PC, Same
    <3> QED BY <3>1, <3>2
  <2> HIDE DEF id
  <2> QED BY <1>0, <1>1, <2>1, <2>2, <2>3, EditData
<1>3. CASE id \notin disk
  BY <1>0, <1>3, QuietDone DEF Write
<1> QED BY <1>2, <1>3

LEMMA RenameData ==
  ASSUME DataInv, TypeInv', NEW j \in Job, Rename(j) PROVE DataInv'
<1> DEFINE f == Renamed(Mine(j), job[j].call.name)
           id == job[j].id
<1>0. /\ j \in Job_ /\ job[j].pc = "rename" /\ job[j].pc \in FilePC /\ lock[id] = None
      /\ TypeInv /\ Typed /\ UNCHANGED <<device, files, origins, ghost>>
  BY DEF Rename, Job_, FilePC, DataInv, TypeInv, Locks, local
<1>1. /\ id \in File /\ file[id] # None /\ Mine(j) = file[id] /\ Fits(j)
      /\ Mine(j) \in Staged /\ Mine(j).revision \in Nat /\ job[j] \in JobType
  BY <1>0, MineType
<1>2. f \in Staged
  BY <1>0, <1>1, CallType, RenamedType DEF Fits, JobType
<1>3. f.dirty /\ f.remote = file[id].remote
  BY <1>1 DEF Staged, Renamed
<1>4. file' = [file EXCEPT ![id] = f]
  BY DEF Rename, Update
<1>5. Others(j) /\ job'[j].pc = "schedule" /\ Same(j)
  BY <1>0, ToType DEF Rename, PC
<1>6. job'[j].temp = job[j].temp /\ job'[j].pc \in Plain /\ Called(j)
  BY <1>0, <1>5, CalledSame DEF Plain, PC, Same
<1> HIDE DEF f, id
<1> QED BY <1>0, <1>1, <1>2, <1>3, <1>4, <1>5, <1>6, EditData

LEMMA CommitLocallyData ==
  ASSUME DataInv, TypeInv', NEW j \in Job_, CommitLocally(j) PROVE DataInv'
<1> DEFINE f == [Mine(j) EXCEPT !.dirty = FALSE]
           id == job[j].id
<1>0. /\ job[j].pc = "commit" /\ job[j].pc \in FilePC /\ lock[id] = None
      /\ TypeInv /\ Typed /\ UNCHANGED <<device, files, origins, ghost>> /\ After(j)
  BY DEF CommitLocally, FilePC, DataInv, TypeInv, Locks, local
<1>1. /\ id \in File /\ file[id] # None /\ Mine(j) = file[id] /\ Mine(j) \in Staged
  BY <1>0, MineType
<1>2. f \in Staged /\ f.remote = file[id].remote
  BY <1>1 DEF Staged
<1>3. f = file[id] \/ f.local_only
  BY <1>1 DEF CommitLocally, Staged
<1>4. file' = [file EXCEPT ![id] = f]
  BY DEF CommitLocally, Update
<1>5. /\ Others(j) /\ job'[j].temp = None /\ job'[j].pc \in Plain /\ Called(j)
  BY <1>0, AfterType, CalledNone DEF Plain, PC
<1> HIDE DEF f, id
<1> QED BY <1>0, <1>1, <1>2, <1>3, <1>4, <1>5, EditData

-----------------------------------------------------------------------------
(* Steps that change one object on the phone.                              *)

\* No other job has read object h, or has made it.
Apart(j, h) ==
  \A k \in Job_ \ {j} :
    /\ job[k].temp # None => job[k].temp # h
    /\ job[k].pc \in {"download", "publish"} => job[k].call.node # h \/ origins[h] # None

LEMMA OwnApart ==
  ASSUME DataInv, NEW j \in Job_, NEW h \in Handle, h = job[j].temp \/ origins[h] # None
  PROVE  Apart(j, h)
<1> SUFFICES ASSUME NEW k \in Job_ \ {j}
             PROVE  /\ job[k].temp # None => job[k].temp # h
                    /\ job[k].pc \in {"download", "publish"} => job[k].call.node # h \/ origins[h] # None
  BY DEF Apart
<1>1. h # None
  BY SentinelAssumption
<1>2. job[k].pc \in {"download", "publish"} => job[k].call.op # "flush"
  BY DEF DataInv, TypeInv, Fits
<1> QED BY <1>1, <1>2 DEF DataInv, Private

LEMMA PhoneData ==
  ASSUME DataInv, TypeInv', PhoneFrame, NEW j \in Job_, Others(j), job[j].pc # "unmap",
         NEW h, \A g \in Handle : g # h => device'[g] = device[g], Apart(j, h) \/ h \notin Handle,
         \A i \in files : file[i].remote = h => Clean(i)' /\ Stable(i)',
         Private', Holds(j)'
  PROVE  DataInv'
<1>1. UNCHANGED <<file, files, origins, crossed, committed>> /\ inPlace \subseteq inPlace'
  BY DEF PhoneFrame
<1>2. Grows
  BY <1>1, GrowsBy DEF DataInv
<1>3. Origins'
  BY <1>1 DEF DataInv, Origins
<1>4. ASSUME NEW k \in Job_ \ {j}
      PROVE  /\ job[k].temp # None => device'[job[k].temp] = device[job[k].temp]
             /\ LET n == job[k].call.node IN
                job[k].pc \in {"download", "publish"} /\ n \notin crossed' /\ origins[n] = None
                  => device'[n] = device[n] \/ origins'[n] # None
  <2>1. /\ job[k].temp \in Handle \cup {None}
        /\ job[k].pc \in {"download", "publish"} => job[k].call.node \in Handle
    BY ObjectType DEF DataInv, TypeInv, Fits, JobType
  <2> QED BY <2>1 DEF Apart
<1>5. \A k \in Job_ : Holds(k)'
  BY <1>1, <1>2, <1>4, OthersHold
<1>6. ASSUME NEW i \in files' PROVE Clean(i)' /\ Stable(i)'
  <2>1. i \in files /\ i \in File /\ file[i] # None /\ file[i].remote \in Handle \cup {None}
    BY <1>1, ObjectType DEF DataInv, TypeInv, Typed, TypeOK, Staged
  <2>2. CASE file[i].remote = h
    BY <2>1, <2>2
  <2>3. CASE file[i].remote # h
    BY <1>1, <1>2, <2>1, <2>3, FileKept
  <2> QED BY <2>2, <2>3
<1> QED BY <1>3, <1>5, <1>6 DEF DataInv

LEMMA RemoteOwned ==
  ASSUME DataInv, NEW i \in File, file[i] # None, file[i].remote # None
  PROVE  /\ file[i].remote \in Handle /\ origins[file[i].remote] = i
         /\ \A k \in files : file[k].remote = file[i].remote => k = i
<1>1. file[i].remote \in Handle
  BY ObjectType DEF DataInv, TypeInv, Staged
<1>2. \A k \in files : k \in File /\ file[k] # None
  BY DEF DataInv, TypeInv, Typed, TypeOK
<1> QED BY <1>1, <1>2 DEF DataInv, Origins

LEMMA RemoveData ==
  ASSUME DataInv, TypeInv', NEW j \in Job, Remove(j) PROVE DataInv'
<1> DEFINE id == job[j].id
           h  == Mine(j).remote
<1>0. /\ j \in Job_ /\ job[j].pc = "remove" /\ job[j].pc \in FilePC /\ TypeInv /\ Typed
      /\ UNCHANGED <<file, files, disk, origins, timers, lock, calls, ghost>>
  BY DEF Remove, Job_, FilePC, DataInv, TypeInv, area
<1>1. id \in File /\ file[id] # None /\ Mine(j) = file[id]
  BY <1>0, MineType
<1>2. CASE After(j) /\ device' = device
  BY <1>0, <1>2, QuietDone
<1>3. CASE To(j, "unmap") /\ device' = device
  <2>1. Others(j) /\ job'[j].pc = "unmap" /\ Same(j)
    BY <1>0, <1>3, ToType DEF PC
  <2>2. QuietFrame(j)
    BY <1>0, <1>3, <2>1 DEF QuietFrame
  <2>3. job'[j].pc \in Plain
    BY <2>1 DEF Plain, PC
  <2> QED BY <1>0, <2>1, <2>2, <2>3, QuietPlain DEF Same
<1>4. CASE /\ To(j, "unmap") /\ h # None /\ UNCHANGED failures
           /\ device' = [device EXCEPT ![h] = None]
  <2>1. Others(j) /\ job'[j].pc = "unmap" /\ Same(j)
    BY <1>0, <1>4, ToType DEF PC
  <2>2. h \in Handle /\ origins[h] = id /\ id # None /\ \A k \in files : file[k].remote = h => k = id
    BY <1>1, <1>4, RemoteOwned, SentinelAssumption
  <2>3. PhoneFrame
    BY <1>0, <1>4, DeletedTyped, FrameTypes DEF PhoneFrame, ghost, Typed, TypeOK
  <2>4. \A g \in Handle : g # h => device'[g] = device[g]
    BY <1>0, <1>4 DEF Typed, TypeOK
  <2>5. \A i \in files : file[i].remote = h => ~Sound(i)'
    BY <2>1, <2>2 DEF Sound, Same
  <2>6. \A i \in files : file[i].remote = h => Clean(i)' /\ Stable(i)'
    BY <2>5 DEF Clean, Stable
  <2>7. job'[j].pc \in Plain /\ Called(j)
    BY <1>0, <2>1, CalledSame DEF Plain, PC, Same
  <2>8. Private'
    <3>1. \A k \in Job_ : job[k].temp # None => origins'[job[k].temp] = None
      BY <1>0 DEF DataInv, Private
    <3> QED BY <1>0, <2>1, <2>7, <3>1, PrivateKept DEF DataInv, Called, Same
  <2>9. Apart(j, h)
    BY <1>0, <2>2, OwnApart
  <2> HIDE DEF h, id
  <2> QED BY <1>0, <2>1, <2>3, <2>4, <2>6, <2>7, <2>8, <2>9, PhoneData, PlainHolds
<1> QED BY <1>2, <1>3, <1>4 DEF Remove

\* What a commit has at hand: the object of the file, and its temporary object.
LEMMA CommitOwns ==
  ASSUME DataInv, NEW j \in Job_, job[j].pc \in CommitPC \ {"upload"}
  PROVE  /\ job[j].id \in File /\ file[job[j].id] # None /\ Mine(j) = file[job[j].id]
         /\ Mine(j).dirty /\ job[j].pc # "unmap"
         /\ Mine(j).remote \in Handle /\ Mine(j).remote # None
         /\ origins[Mine(j).remote] = job[j].id
         /\ \A k \in files : file[k].remote = Mine(j).remote => k = job[j].id
         /\ Apart(j, Mine(j).remote)
         /\ job[j].pc # "upload_temporary" =>
              /\ job[j].temp \in Handle /\ origins[job[j].temp] = None
              /\ \A k \in files : file[k].remote # job[j].temp
              /\ job[j].temp # Mine(j).remote /\ job[j].temp # None
              /\ Apart(j, job[j].temp)
<1>1. /\ job[j].id \in File /\ file[job[j].id] # None /\ Mine(j) = file[job[j].id]
      /\ Mine(j).dirty /\ Mine(j).remote \in Handle /\ job[j].pc # "unmap"
  BY CommitHas, MineType DEF DataInv, Commits, CommitPC
<1>2. Mine(j).remote # None /\ job[j].id # None
  BY <1>1, SentinelAssumption
<1>3. /\ origins[Mine(j).remote] = job[j].id
      /\ \A k \in files : file[k].remote = Mine(j).remote => k = job[j].id
  BY <1>1, <1>2, RemoteOwned
<1>4. Apart(j, Mine(j).remote)
  BY <1>1, <1>2, <1>3, OwnApart
<1>5. ASSUME job[j].pc # "upload_temporary"
      PROVE  /\ job[j].temp \in Handle /\ origins[job[j].temp] = None
             /\ \A k \in files : file[k].remote # job[j].temp
             /\ job[j].temp # Mine(j).remote /\ job[j].temp # None
             /\ Apart(j, job[j].temp)
  <2>1. job[j].temp \in Handle
    BY <1>5, CommitHas DEF DataInv
  <2>2. job[j].temp # None /\ origins[job[j].temp] = None
    BY <2>1, SentinelAssumption DEF DataInv, Private
  <2>3. ASSUME NEW k \in files PROVE file[k].remote # job[j].temp
    <3>1. k \in File /\ file[k] # None /\ k # None
      BY SentinelAssumption DEF DataInv, TypeInv, Typed, TypeOK
    <3> QED BY <2>2, <3>1 DEF DataInv, Origins
  <2>4. Apart(j, job[j].temp)
    BY <2>1, OwnApart
  <2> QED BY <1>2, <1>3, <2>1, <2>2, <2>3, <2>4
<1> QED BY <1>1, <1>2, <1>3, <1>4, <1>5

LEMMA RequestData ==
  ASSUME DataInv, TypeInv', PhoneFrame, NEW j \in Job_,
         job[j].pc \in CommitPC \ {"upload", "upload_temporary"},
         Others(j), job'[j].temp = None \/ job'[j].temp = job[j].temp, Called(j), Holds(j)',
         NEW h, h = Mine(j).remote \/ h = job[j].temp,
         \A g \in Handle : g # h => device'[g] = device[g],
         h = Mine(j).remote =>
           \/ device'[h] = device[h]
           \/ job[j].id \in inPlace /\ device'[h] = None
           \/ device[h] # None /\ device'[h] # None /\ device'[h].data = device[h].data
  PROVE  DataInv'
<1> DEFINE id == job[j].id
<1>1. /\ id \in File /\ file[id] # None /\ Mine(j) = file[id] /\ Mine(j).dirty
      /\ job[j].pc # "unmap" /\ h \in Handle /\ h # None /\ Apart(j, h)
      /\ h = Mine(j).remote => \A k \in files : file[k].remote = h => k = id
      /\ h = job[j].temp => \A k \in files : file[k].remote # h
  BY CommitOwns
<1>2. UNCHANGED <<file, files, origins, crossed, committed>> /\ inPlace \subseteq inPlace'
  BY DEF PhoneFrame
<1>3. Grows
  BY <1>1, <1>2, GrowsBy DEF DataInv
<1>4. ASSUME NEW i \in files, file[i].remote = h PROVE Clean(i)' /\ Stable(i)'
  <2>1. i = id /\ h = Mine(j).remote
    BY <1>1, <1>4, SMTT(30)
  <2>2. Clean(i)'
    BY <1>1, <1>2, <2>1 DEF Clean
  <2>3. Sound(i)' => Sound(i)
    BY <1>1, <1>3, <2>1, SoundKept DEF DataInv
  <2>4. Stable(i)
    BY SMTT(30) DEF DataInv
  <2>5. Stable(i)'
    BY <1>1, <1>2, <1>4, <2>1, <2>3, <2>4 DEF Stable, Exists
  <2> QED BY <2>2, <2>5
<1>5. Private'
  <2>1. \A k \in Job_ : job[k].temp # None => origins'[job[k].temp] = None
    BY <1>2 DEF DataInv, Private
  <2> QED BY <2>1, PrivateKept DEF DataInv, Called
<1> QED BY <1>1, <1>4, <1>5, PhoneData

\* The next request of a commit.
LEMMA GoesOnData ==
  ASSUME DataInv, TypeInv', NEW j \in Job_,
         job[j].pc \in CommitPC \ {"upload", "upload_temporary"},
         NEW next, Asks(j, Mine(j).remote, next) \/ Asks(j, job[j].temp, next),
         NEW pc \in PC, To(j, pc), Holds(j)',
         NEW h, h = Mine(j).remote \/ h = job[j].temp,
         \A g \in Handle : g # h => device'[g] = device[g],
         h = Mine(j).remote =>
           \/ device'[h] = device[h]
           \/ job[j].id \in inPlace /\ device'[h] = None
           \/ device[h] # None /\ device'[h] # None /\ device'[h].data = device[h].data
  PROVE  DataInv'
<1>1. PhoneFrame
  BY CommitHas, OneObjectType DEF DataInv, TypeInv, Asks
<1>2. Others(j) /\ job'[j].temp = job[j].temp /\ Called(j)
  <2>1. Others(j) /\ Same(j)
    BY ToType DEF DataInv, TypeInv
  <2> QED BY <2>1, CalledSame DEF Same
<1> QED BY <1>1, <1>2, RequestData

\* A commit that fails at its last request.
LEMMA FailsData ==
  ASSUME DataInv, TypeInv', NEW j \in Job_, job[j].pc \in CommitPC, NEW h, Fails(j, h),
         device' = device \/ (h = job[j].temp /\ job[j].pc \notin {"upload", "upload_temporary"})
  PROVE  DataInv'
<1>1. PhoneFrame /\ After(j) /\ UNCHANGED <<file, files, origins, ghost>>
      /\ job[j].pc # "unmap" /\ TypeInv /\ Typed
  BY FailsType DEF DataInv, TypeInv, Fails, Abort, CommitPC, area
<1>2. CASE device' = device
  BY <1>1, <1>2, QuietDone
<1>3. CASE device' # device
  <2>1. h = job[j].temp /\ job[j].pc \in CommitPC \ {"upload", "upload_temporary"}
    BY <1>3
  <2>2. /\ Others(j) /\ job'[j].temp = None /\ job'[j].pc \in Plain /\ Called(j) /\ Holds(j)'
    BY <1>1, AfterType, CalledNone, PlainHolds DEF Plain, PC
  <2>3. \A g \in Handle : g # h => device'[g] = device[g]
    BY <1>1 DEF Fails, OneObject, Typed, TypeOK
  <2>4. h # Mine(j).remote
    BY <2>1, CommitOwns
  <2> QED BY <1>1, <2>1, <2>2, <2>3, <2>4, RequestData
<1> QED BY <1>2, <1>3

LEMMA GiveUpData ==
  ASSUME DataInv, TypeInv', NEW j \in Job_, GiveUp(j) PROVE DataInv'
<1>1. job[j].pc = "give_up" /\ job[j].pc \in CommitPC
  BY DEF GiveUp, CommitPC
<1> QED BY <1>1, GiveUpFails, FailsData DEF DataInv

LEMMA RestoreOldData ==
  ASSUME DataInv, TypeInv', NEW j \in Job_, RestoreOld(j) PROVE DataInv'
<1> DEFINE h == Mine(j).remote
<1>1. /\ job[j].pc = "restore_old" /\ job[j].pc \in CommitPC \ {"upload", "upload_temporary"}
      /\ job[j].pc \in CommitPC /\ TypeInv /\ Typed
  BY DEF RestoreOld, CommitPC, DataInv, TypeInv
<1>2. Asks(j, h, {"give_up"})
  BY <1>1, RestoreOldAsks
<1>3. /\ To(j, "give_up")
      /\ \/ device' = device
         \/ Exists(h) /\ device' = [device EXCEPT ![h].name = Mine(j).name]
  BY DEF RestoreOld, Requests
<1>4. job'[j].pc \in Plain
  BY <1>1, <1>3, ToType DEF PC, Plain
<1>5. h \in Handle /\ Mine(j).name \in Name
  BY <1>1, CommitHas
<1>6. /\ \A g \in Handle : g # h => device'[g] = device[g]
      /\ \/ device'[h] = device[h]
         \/ device[h] # None /\ device'[h] # None /\ device'[h].data = device[h].data
  BY <1>1, <1>3, <1>5, NamedTyped DEF Exists, Typed, TypeOK
<1> HIDE DEF h
<1>7. Holds(j)' /\ "give_up" \in PC
  BY <1>4, PlainHolds DEF PC
<1> QED BY <1>1, <1>2, <1>3, <1>6, <1>7, GoesOnData DEF h

LEMMA RenameOldData ==
  ASSUME DataInv, TypeInv', NEW j \in Job_, RenameOld(j) PROVE DataInv'
<1> DEFINE h == Mine(j).remote
           t == job[j].temp
<1>1. /\ job[j].pc = "rename_old" /\ job[j].pc \in CommitPC \ {"upload", "upload_temporary"}
      /\ job[j].pc \in CommitPC /\ TypeInv /\ Typed /\ Holds(j) /\ UNCHANGED file
  BY DEF RenameOld, CommitPC, DataInv, TypeInv, area
<1>2. Asks(j, h, {"rename_temporary", "drop_temporary"})
  BY <1>1, RenameOldAsks
<1>3. /\ h \in Handle /\ t \in Handle /\ t # h /\ "backup" \in Name
      /\ job[j].id \in File /\ file[job[j].id] # None /\ Mine(j) = file[job[j].id]
  BY <1>1, CommitOwns DEF Name
<1>4. CASE /\ device' = [device EXCEPT ![h].name = "backup"] /\ Exists(h)
           /\ To(j, "rename_temporary")
  <2>1. job'[j].pc = "rename_temporary" /\ Same(j) /\ Others(j)
    BY <1>1, <1>4, ToType DEF PC
  <2>2. /\ \A g \in Handle : g # h => device'[g] = device[g]
        /\ device[h] # None /\ device'[h] # None /\ device'[h].data = device[h].data
    BY <1>1, <1>3, <1>4, NamedTyped, ZenonT(60) DEF Typed, TypeOK, Exists
  <2>3. Holds(j)'
    BY <1>1, <1>3, <2>1, <2>2 DEF Holds, Reading, Copying, Replacing, Mine, Same
  <2> HIDE DEF h, t
  <2> QED BY <1>1, <1>2, <1>4, <2>2, <2>3, GoesOnData, ZenonT(60) DEF PC, h
<1>5. CASE /\ device' = device /\ To(j, "drop_temporary")
           /\ inPlace' = inPlace \cup {job[j].id}
  <2>1. job'[j].pc = "drop_temporary" /\ Same(j) /\ Others(j)
    BY <1>1, <1>5, ToType DEF PC
  <2>2. Holds(j)'
    BY <1>5, <2>1 DEF Holds, Reading, Copying, Replacing, Same
  <2> HIDE DEF h, t
  <2> QED BY <1>1, <1>2, <1>5, <2>2, GoesOnData DEF PC, h
<1> QED BY <1>4, <1>5 DEF RenameOld, Requests

LEMMA RenameTemporaryData ==
  ASSUME DataInv, TypeInv', NEW j \in Job_, RenameTemporary(j) PROVE DataInv'
<1> DEFINE t == job[j].temp
<1>1. /\ job[j].pc = "rename_temporary" /\ job[j].pc \in CommitPC \ {"upload", "upload_temporary"}
      /\ job[j].pc \in CommitPC /\ TypeInv /\ Typed /\ Holds(j)
      /\ UNCHANGED <<file, files, origins, ghost>>
  BY DEF RenameTemporary, CommitPC, DataInv, TypeInv, area
<1>2. Asks(j, t, {"delete_old", "restore_old"})
  BY <1>1, RenameTemporaryAsks
<1>3. /\ t \in Handle /\ t # Mine(j).remote /\ Mine(j).name \in Name
      /\ job[j].id \in File /\ file[job[j].id] # None /\ Mine(j) = file[job[j].id]
  BY <1>1, CommitOwns, CommitHas
<1>4. CASE /\ device' = [device EXCEPT ![t].name = Mine(j).name] /\ Exists(t)
           /\ To(j, "delete_old")
  <2>1. job'[j].pc = "delete_old" /\ Same(j) /\ Others(j)
    BY <1>1, <1>4, ToType DEF PC
  <2>2. /\ \A g \in Handle : g # t => device'[g] = device[g]
        /\ device'[t] # None /\ device'[t].data = device[t].data /\ device'[t].name = Mine(j).name
        /\ PhoneTyped'
    BY <1>1, <1>3, <1>4, NamedTyped, ZenonT(30) DEF Typed, TypeOK, Exists
  <2>3. device[t].data = Mine(j).content
    BY <1>1, <1>4 DEF Holds, Copying, Exists
  <2>4. device'[t] \in Object
    BY <1>3, <2>2 DEF PhoneTyped
  <2>5. device'[t] = [name |-> Mine(j).name, data |-> Mine(j).content]
    BY <2>2, <2>3, <2>4 DEF Object
  <2>6. Holds(j)'
    BY <1>1, <2>1, <2>5 DEF Holds, Reading, Copying, Replacing, Mine, Same
  <2>7. To(j, "delete_old") /\ t # Mine(j).remote
    BY <1>3, <1>4
  <2>8. \A g \in Handle : g # t => device'[g] = device[g]
    BY <2>2
  <2> HIDE DEF t
  <2> QED BY <1>1, <1>2, <2>6, <2>7, <2>8, GoesOnData DEF PC, t
<1>5. CASE device' = device /\ To(j, "restore_old")
  <2>1. job'[j].pc \in Plain
    BY <1>1, <1>5, ToType DEF PC, Plain
  <2> HIDE DEF t
  <2> QED BY <1>1, <1>2, <1>5, <2>1, GoesOnData, PlainHolds DEF PC, t
<1> QED BY <1>4, <1>5 DEF RenameTemporary, Requests

LEMMA DropTemporaryData ==
  ASSUME DataInv, TypeInv', NEW j \in Job_, DropTemporary(j) PROVE DataInv'
<1> DEFINE t == job[j].temp
<1>1. /\ job[j].pc = "drop_temporary" /\ job[j].pc \in CommitPC \ {"upload", "upload_temporary"}
      /\ job[j].pc \in CommitPC /\ TypeInv /\ Typed /\ Holds(j)
      /\ UNCHANGED <<file, files, origins, ghost>>
  BY DEF DropTemporary, CommitPC, DataInv, TypeInv, area
<1>2. Asks(j, t, {"delete_original"})
  BY <1>1, DropTemporaryAsks
<1>3. t # Mine(j).remote
  BY <1>1, CommitOwns
<1>4. To(j, "delete_original") /\ (device' = device \/ device' = [device EXCEPT ![t] = None])
  BY DEF DropTemporary, Deletes
<1>5. job'[j].pc = "delete_original" /\ Same(j) /\ Others(j)
  BY <1>1, <1>4, ToType DEF PC
<1>8. Holds(j)'
  BY <1>1, <1>5 DEF Holds, Reading, Copying, Replacing, Same, ghost
<1>9. \A g \in Handle : g # t => device'[g] = device[g]
  BY <1>1, <1>4 DEF Typed, TypeOK
<1> HIDE DEF t
<1> QED BY <1>1, <1>2, <1>3, <1>4, <1>8, <1>9, GoesOnData DEF PC, t

LEMMA DeleteOriginalData ==
  ASSUME DataInv, TypeInv', NEW j \in Job_, DeleteOriginal(j) PROVE DataInv'
<1> DEFINE h == Mine(j).remote
<1>1. /\ job[j].pc = "delete_original"
      /\ job[j].pc \in CommitPC \ {"upload", "upload_temporary"}
      /\ job[j].pc \in CommitPC /\ TypeInv /\ Typed /\ Holds(j)
  BY DEF DeleteOriginal, CommitPC, DataInv, TypeInv
<1>2. CASE Asks(j, h, {"upload_again"})
  <2>1. To(j, "upload_again") /\ UNCHANGED inPlace
    BY <1>2 DEF Asks, DeleteOriginal, ghost
  <2>2. device' = device \/ device' = [device EXCEPT ![h] = None]
    BY <1>1 DEF DeleteOriginal, Deletes
  <2>3. job'[j].pc = "upload_again" /\ Same(j) /\ Others(j)
    BY <1>1, <2>1, ToType DEF PC
  <2>4. job[j].id \in inPlace
    BY <1>1 DEF Holds, Replacing
  <2>5. Holds(j)'
    BY <2>1, <2>3, <2>4 DEF Holds, Reading, Copying, Replacing, Same
  <2>6. h \in Handle
    BY <1>1, CommitOwns
  <2>7. /\ \A g \in Handle : g # h => device'[g] = device[g]
        /\ device'[h] = device[h] \/ device'[h] = None
    BY <1>1, <2>2, <2>6 DEF Typed, TypeOK
  <2> HIDE DEF h
  <2> QED BY <1>1, <1>2, <2>1, <2>4, <2>5, <2>7, GoesOnData DEF PC, h
<1>3. CASE Fails(j, h) /\ device' = device
  BY <1>1, <1>3, FailsData
<1> QED BY <1>1, <1>2, <1>3, DeleteOriginalSteps

\* An object nobody knows.
LEMMA NewApart ==
  ASSUME DataInv, NEW j \in Job_, Unknown # {}
  PROVE  /\ NewHandle \in Handle /\ Apart(j, NewHandle) /\ origins[NewHandle] = None
         /\ \A i \in files : file[i].remote # NewHandle
<1>1. \A k \in Job_ : job[k].pc \in {"download", "publish"} => job[k].call.op # "flush"
  BY DEF DataInv, TypeInv, Fits
<1>2. \A i \in files : i \in File /\ file[i] # None
  BY DEF DataInv, TypeInv, Typed, TypeOK
<1> QED BY <1>1, <1>2, NewHandleType DEF Apart

LEMMA UploadTemporaryData ==
  ASSUME DataInv, TypeInv', NEW j \in Job_, UploadTemporary(j) PROVE DataInv'
<1>1. /\ job[j].pc = "upload_temporary" /\ job[j].pc \in CommitPC /\ job[j].pc \in FilePC
      /\ TypeInv /\ Typed /\ job[j] \in JobType /\ "upload" \in Name
      /\ job[j].id \in File /\ file[job[j].id] # None /\ Mine(j) = file[job[j].id]
      /\ Mine(j).content \in Nat
  BY CommitHas, MineType DEF UploadTemporary, CommitPC, Name, DataInv
<1>2. CASE /\ Uploads(j, "upload") /\ UNCHANGED <<area, lock, committed, inPlace>>
           /\ job' = [job EXCEPT ![j].pc = "rename_old", ![j].temp = NewHandle]
  <2>1. /\ PhoneTyped' /\ device'[NewHandle] = [name |-> "upload", data |-> Mine(j).content]
        /\ \A h \in Handle : h # NewHandle => device'[h] = device[h]
    BY <1>1, <1>2, CopiedTyped DEF Uploads
  <2>2. PICK n \in Handle : n = NewHandle
    BY <1>2, NewHandleType DEF Uploads
  <2> DEFINE r == [job[j] EXCEPT !.pc = "rename_old", !.temp = n]
  <2>3. job' = [job EXCEPT ![j] = r]
    BY <1>2, <2>2
  <2>4. /\ r.pc = "rename_old" /\ r.temp = n /\ r.id = job[j].id /\ r.call = job[j].call
    BY <1>1 DEF JobType
  <2> HIDE DEF r
  <2>5. Others(j) /\ job'[j] = r
    BY <1>1, <2>3, ObjectType DEF Others
  <2>6. PhoneFrame
    BY <1>1, <1>2, <2>1, FrameTypes DEF Uploads, PhoneFrame, area, ghost, Typed, TypeOK
  <2>7. /\ Apart(j, n) /\ origins[n] = None /\ \A i \in files : file[i].remote # n
        /\ \A k \in Job_ : job[k].temp # n /\ (job[k].call.op # "flush" => job[k].call.node # n)
    BY <1>2, <2>2, NewApart, NewHandleType DEF Uploads
  <2>8. Private'
    <3> SUFFICES ASSUME NEW i \in Job_, job'[i].temp # None, NEW k \in Job_
                 PROVE  /\ origins'[job'[i].temp] = None
                        /\ job'[k].temp = job'[i].temp => k = i
                        /\ job'[k].call.op # "flush" => job'[k].call.node # job'[i].temp
      BY DEF Private
    <3>1. UNCHANGED origins /\ \A l \in Job_ : job'[l].call = job[l].call
      BY <1>2, <2>4, <2>5 DEF area, Others
    <3>2. CASE i = j
      BY <2>4, <2>5, <2>7, <3>1, <3>2 DEF Others
    <3>3. CASE i # j
      <4>1. job'[i].temp = job[i].temp
        BY <2>5, <3>3 DEF Others
      <4> QED BY <2>4, <2>5, <2>7, <3>1, <3>3, <4>1 DEF Others, DataInv, Private
    <3> QED BY <3>2, <3>3
  <2>9. Holds(j)'
    <3>1. Mine(j)' = Mine(j)
      BY <1>2, <2>4, <2>5 DEF Mine, area
    <3> QED BY <2>1, <2>2, <2>4, <2>5, <3>1 DEF Holds, Reading, Copying, Replacing
  <2>10. \A g \in Handle : g # n => device'[g] = device[g]
    BY <2>1, <2>2
  <2> QED BY <1>1, <2>5, <2>6, <2>7, <2>8, <2>9, <2>10, PhoneData
<1>3. CASE Fails(j, None) /\ device' = device
  BY <1>1, <1>3, FailsData
<1> QED BY <1>2, <1>3, UploadTemporarySteps DEF DataInv

\* The commit returns: object h is the file.
LEMMA FinishData ==
  ASSUME DataInv, NEW j \in Job_, job[j].pc \in CommitPC, NEW h \in Handle, Finish(j, h),
         PhoneTyped', failures' \in 0 .. MaxFailures, UNCHANGED <<calls, crossed>>,
         origins[h] = None, Apart(j, h), device'[h] # None,
         device'[h] = [name |-> Mine(j).name, data |-> Mine(j).content],
         \A g \in Handle : g # h /\ g # Mine(j).remote => device'[g] = device[g]
  PROVE  DataInv' /\ [Copies!Next]_(Copies!vars)
<1>1. /\ TypeInv /\ Typed /\ Commits(j) /\ job[j].id \in File /\ file[job[j].id] # None
      /\ Mine(j) = file[job[j].id] /\ Mine(j) \in Staged /\ Mine(j).content \in Nat
      /\ Mine(j).remote \in Handle \cup {None} /\ job[j].pc # "unmap"
  BY CommitHas, MineType DEF DataInv, CommitPC
<1>2. PICK id \in File : id = job[j].id
  BY <1>1
<1>3. PICK f \in Staged : f = Mine(j)
  BY <1>1, SMTT(30)
<1>4. /\ TypeInv' /\ Others(j) /\ job'[j].temp = None
      /\ job'[j].pc \in {"idle", "flush"} /\ job'[j].call.op = "flush"
      /\ file'[id] = [f EXCEPT !.remote = h, !.dirty = FALSE]
      /\ \A i \in File : i # id => file'[i] = file[i]
      /\ origins' = [origins EXCEPT ![h] = id]
      /\ committed' = [committed EXCEPT ![id] = f.content]
      /\ inPlace' = inPlace \ {id} /\ UNCHANGED files
  BY <1>1, <1>2, <1>3, FinishType
<1>5. /\ file[id] = f /\ file[id] # None /\ lock[id] = j /\ id # None /\ h # None
      /\ file'[id].remote = h /\ file'[id].name = f.name /\ file'[id].content = f.content
      /\ file'[id] # None /\ f.content \in Nat
  <2>1. [f EXCEPT !.remote = h, !.dirty = FALSE] \in Staged
    BY DEF Staged
  <2> QED BY <1>1, <1>2, <1>3, <1>4, <2>1, RecordAssumption, SentinelAssumption, ZenonT(30)
          DEF Staged, Commits
<1>6. /\ origins'[h] = id /\ \A g \in Handle : g # h => origins'[g] = origins[g]
      /\ committed'[id] = f.content /\ \A i \in File : i # id => committed'[i] = committed[i]
  BY <1>1, <1>4 DEF Typed, TypeOK
<1>7. Grows
  BY <1>1, <1>4, <1>6, GrowsBy
<1>8. Origins'
  <2>1. ASSUME NEW i \in File, file'[i] # None, file'[i].remote # None
        PROVE  origins'[file'[i].remote] = i
    <3>1. CASE i = id
      BY <1>5, <1>6, <3>1
    <3>2. CASE i # id
      <4>1. file'[i] = file[i]
        BY <1>4, <3>2
      <4>2. file[i].remote \in Handle /\ origins[file[i].remote] = i /\ i # None
        BY <2>1, <4>1, RemoteOwned, SentinelAssumption
      <4> QED BY <1>6, <4>1, <4>2
    <3> QED BY <3>1, <3>2
  <2>2. ASSUME NEW g \in Handle, origins'[g] # None PROVE file'[origins'[g]] # None
    <3>1. CASE g = h
      BY <1>5, <1>6, <3>1
    <3>2. CASE g # h
      <4>1. origins'[g] = origins[g] /\ origins[g] \in File /\ file[origins[g]] # None
        BY <1>1, <1>6, <2>2, <3>2 DEF DataInv, Origins, Typed, TypeOK
      <4> QED BY <1>4, <1>5, <4>1
    <3> QED BY <3>1, <3>2
  <2> QED BY <2>1, <2>2 DEF Origins
<1>9. \A k \in Job_ : job[k].temp # None =>
        /\ job[k].temp \in Handle /\ origins[job[k].temp] = None
        /\ k # j => job[k].temp # h
  BY <1>1, ObjectType DEF DataInv, Private, JobType, Apart
<1>10. Private'
  <2>1. \A k \in Job_ : job[k].temp # None => origins'[job[k].temp] = None \/ job'[k].temp = None
    BY <1>4, <1>6, <1>9
  <2> QED BY <1>4, <2>1, PrivateKept DEF DataInv
<1>11. f.remote # None => f.remote \in Handle /\ origins[f.remote] = id
                          /\ \A k \in files : file[k].remote = f.remote => k = id
  BY <1>5, RemoteOwned
<1>12. \A k \in Job_ : Holds(k)'
  <2>1. \A i \in File : lock[i] \in Job_ \ {j} => file'[i] = file[i]
    BY <1>4, <1>5
  <2>2. \A k \in Job_ \ {j} : job[k].temp # None => device'[job[k].temp] = device[job[k].temp]
    BY <1>3, <1>5, <1>9, <1>11
  <2>3. \A k \in Job_ \ {j} :
          LET n == job[k].call.node IN
          job[k].pc \in {"download", "publish"} /\ n \notin crossed' /\ origins[n] = None
            => device'[n] = device[n] \/ origins'[n] # None
    <3> SUFFICES ASSUME NEW k \in Job_ \ {j}, job[k].pc \in {"download", "publish"},
                        origins[job[k].call.node] = None
                 PROVE  device'[job[k].call.node] = device[job[k].call.node]
      OBVIOUS
    <3>1. job[k].call.node \in Handle
      BY <1>1 DEF TypeInv, Fits
    <3>2. job[k].call.node # h
      BY DEF Apart
    <3>3. job[k].call.node # f.remote
      BY <1>5, <1>11, <3>1, SentinelAssumption
    <3> QED BY <1>3, <3>1, <3>2, <3>3
  <2>4. Holds(j)'
    BY <1>4, PlainHolds DEF Plain, PC
  <2>5. \A i \in inPlace : lock[i] \in Job_ \ {j} => i \in inPlace'
    BY <1>4, <1>5
  <2> QED BY <1>4, <1>7, <2>1, <2>2, <2>3, <2>4, <2>5, OthersHold
<1>13. ASSUME NEW i \in files' PROVE Clean(i)' /\ Stable(i)'
  <2>1. i \in files /\ i \in File /\ file[i] # None
    BY <1>1, <1>4 DEF Typed, TypeOK
  <2>2. CASE i = id
    BY <1>3, <1>5, <1>6, <2>2 DEF Clean, Stable, Exists
  <2>3. CASE i # id
    <3>1. file'[i] = file[i] /\ committed'[i] = committed[i] /\ (i \in inPlace => i \in inPlace')
      BY <1>4, <1>6, <2>1, <2>3
    <3>2. file[i].remote # None =>
            file[i].remote \in Handle /\ file[i].remote # h /\ file[i].remote # f.remote
      BY <1>11, <2>1, <2>3, RemoteOwned, SentinelAssumption
    <3> QED BY <1>3, <1>7, <2>1, <3>1, <3>2, FileKept
  <2> QED BY <2>2, <2>3
<1>14. ASSUME NEW i \in File \ {id} PROVE Keeps(i)
  <2>1. Sound(i) <=> Sound(i)'
    <3>1. \A g \in Handle : origins[g] = i <=> origins'[g] = i
      BY <1>6, SentinelAssumption
    <3>2. \A k \in Job : job[k].pc = "unmap" /\ job[k].id = i
                            <=> job'[k].pc = "unmap" /\ job'[k].id = i
      BY <1>1, <1>4 DEF Others, Job_
    <3> QED BY <1>1, <1>4, <3>1, <3>2, SameSoundAt
  <2>2. ASSUME Sound(i), file[i].remote # None
        PROVE  device'[file[i].remote] = device[file[i].remote]
    <3>1. i \in files /\ file[i] # None /\ i # None
      BY <1>1, <2>2, SentinelAssumption DEF Sound, Typed, TypeOK
    <3>2. file[i].remote \in Handle /\ file[i].remote # h /\ file[i].remote # f.remote
      BY <1>11, <2>2, <3>1, RemoteOwned
    <3> QED BY <1>3, <3>2
  <2>3. SameRefusal(i)
    BY <1>4 DEF SameRefusal
  <2> QED BY <1>4, <2>1, <2>2, <2>3, KeepsBy
<1>15. Turns(id)
  <2>1. CASE Sound(id)'
    <3>1. Sound(id)
      BY <1>1, <1>5, <1>7, <2>1, SoundKept
    <3>2. /\ Versions[id] = f.content /\ Versions'[id] = f.content
          /\ Stores'[id] = device'[h].data
      BY <1>5, <2>1, <3>1, VersionsAt DEF Exists
    <3>3. Versions[id] # None /\ device'[h].data = f.content
      BY <1>3, <1>5, <3>2, SentinelAssumption
    <3> QED BY <1>4, <3>2, <3>3 DEF Turns
  <2> QED BY <1>4, <2>1, LosesTurns
<1>16. [Copies!Next]_(Copies!vars)
  BY <1>1, <1>4, <1>14, <1>15, AbstractStep DEF TypeInv, Typed, TypeOK
<1> QED BY <1>4, <1>8, <1>10, <1>12, <1>13, <1>16 DEF DataInv

LEMMA UploadData ==
  ASSUME DataInv, TypeInv', NEW j \in Job_, Upload(j) PROVE DataInv'
<1>1. /\ job[j].pc \in CommitPC /\ job[j].pc \in FilePC /\ Mine(j).name \in Name
      /\ TypeInv /\ Typed
  BY CommitHas DEF Upload, CommitPC, DataInv
<1>2. CASE Uploads(j, Mine(j).name) /\ Finish(j, NewHandle)
  <2>1. /\ PhoneTyped' /\ device'[NewHandle] # None
        /\ device'[NewHandle] = [name |-> Mine(j).name, data |-> Mine(j).content]
        /\ \A h \in Handle : h # NewHandle => device'[h] = device[h]
    BY <1>1, <1>2, CopiedTyped DEF Uploads
  <2>2. NewHandle \in Handle /\ Apart(j, NewHandle) /\ origins[NewHandle] = None
    BY <1>2, NewApart DEF Uploads
  <2>3. failures' \in 0 .. MaxFailures /\ UNCHANGED <<calls, crossed>>
    BY <1>1, <1>2, FrameTypes DEF Uploads
  <2> QED BY <1>1, <1>2, <2>1, <2>2, <2>3, FinishData
<1>3. CASE Fails(j, None) /\ device' = device
  BY <1>1, <1>3, FailsData
<1> QED BY <1>1, <1>2, <1>3, UploadSteps

LEMMA DeleteOldData ==
  ASSUME DataInv, NEW j \in Job_, DeleteOld(j)
  PROVE  DataInv' /\ [Copies!Next]_(Copies!vars)
<1> DEFINE t == job[j].temp
           h == Mine(j).remote
<1>1. /\ job[j].pc = "delete_old" /\ job[j].pc \in CommitPC \ {"upload"}
      /\ job[j].pc \in CommitPC /\ TypeInv /\ Typed /\ Holds(j)
  BY DEF DeleteOld, CommitPC, DataInv, TypeInv
<1>2. /\ Finish(j, t) /\ UNCHANGED <<calls, crossed>>
      /\ failures' = failures \/ (\E request : Breaks(request))
  BY <1>1, DeleteOldSteps
<1>3. device' = device \/ device' = [device EXCEPT ![h] = None]
  BY DEF DeleteOld, Deletes
<1>4. /\ h \in Handle /\ t \in Handle /\ t # h /\ origins[t] = None /\ Apart(j, t)
  BY <1>1, CommitOwns
<1>5. failures' \in 0 .. MaxFailures
  BY <1>1, <1>2, BreaksType, FrameTypes
<1>6. PhoneTyped'
  <2>1. CASE device' = device
    BY <1>1, <2>1 DEF PhoneTyped, Typed, TypeOK
  <2>2. CASE device' = [device EXCEPT ![h] = None]
    BY <1>1, <2>2, DeletedTyped
  <2> QED BY <1>3, <2>1, <2>2
<1>7. \A g \in Handle : g # h => device'[g] = device[g]
  BY <1>1, <1>3 DEF Typed, TypeOK
<1>8. device[t] = [name |-> Mine(j).name, data |-> Mine(j).content]
  BY <1>1 DEF Holds, Copying
<1>9. device[t] # None
  <2>1. Mine(j).name \in Name /\ Mine(j).content \in Nat
    BY <1>1, CommitHas, MineType
  <2>2. [name |-> Mine(j).name, data |-> Mine(j).content] \in Object
    BY <2>1 DEF Object
  <2> QED BY <1>8, <2>2, RecordAssumption
<1>10. device'[t] = device[t]
  BY <1>4, <1>7
<1> QED BY <1>1, <1>2, <1>4, <1>5, <1>6, <1>7, <1>8, <1>9, <1>10, FinishData

-----------------------------------------------------------------------------
(* New files, and calls that go to the phone.                              *)

LEMMA CreateData ==
  ASSUME DataInv, TypeInv', NEW name \in Place, Create(name)
  PROVE  DataInv' /\ [Copies!Next]_(Copies!vars)
<1>0. TypeInv /\ Typed
  BY DEF DataInv, TypeInv
<1>1. PICK id \in File : id = NewFile /\ file[id] = None
  BY NewFileType DEF Create
<1>2. /\ UNCHANGED <<device, origins, lock, job, crossed, committed, inPlace>> /\ files' = files \cup {id}
      /\ file'[id].remote = None /\ file'[id].dirty
      /\ \A i \in File : i # id => file'[i] = file[i]
  BY <1>0, <1>1 DEF Create, ghost, Typed, TypeOK
<1>3. Grows
  BY <1>1, <1>2 DEF Grows
<1>4. file'[id] # None
  BY <1>2 DEF TypeInv, Typed, TypeOK
<1>5. Origins'
  <2>1. \A h \in Handle : origins[h] # None => origins[h] \in File
    BY <1>0 DEF Typed, TypeOK
  <2>2. \A i \in File : file'[i] # None /\ file'[i].remote # None => i # id /\ file'[i] = file[i]
    BY <1>2
  <2> QED BY <1>1, <1>2, <1>4, <2>1, <2>2 DEF DataInv, Origins
<1>6. Private'
  BY <1>2 DEF DataInv, Private
<1>7. \A i \in File : lock[i] \in Job_ => file'[i] = file[i]
  BY <1>0, <1>1, <1>2, JobAssumption DEF Typed, Job_
<1>8. \A k \in Job_ : Holds(k)'
  BY <1>2, <1>3, <1>7, StillHold
<1>9. ASSUME NEW i \in files' PROVE Clean(i)' /\ Stable(i)'
  <2>1. CASE i = id
    BY <1>2, <2>1 DEF Clean, Stable
  <2>2. CASE i # id
    <3>1. i \in files /\ i \in File /\ file[i] # None
      BY <1>0, <1>2, <2>2 DEF Typed, TypeOK
    <3> QED BY <1>2, <1>3, <2>2, <3>1, FileKept
  <2> QED BY <2>1, <2>2
<1>10. ASSUME NEW i \in File \ {id} PROVE Keeps(i)
  <2>1. Sound(i) <=> Sound(i)'
    BY <1>0, <1>2, SameSoundAt
  <2> QED BY <1>2, <2>1, KeepsBy DEF SameRefusal
<1>11. Turns(id)
  <2>1. CASE Sound(id)'
    <3>1. ~Sound(id)
      BY <1>0, <1>1 DEF Sound, Typed, TypeOK
    <3>2. file'[id].content \in Nat
      <4>1. file'[id] \in Staged
        BY <1>4 DEF TypeInv, Typed, TypeOK
      <4> QED BY <4>1 DEF Staged
    <3>3. Versions[id] = None /\ Versions'[id] \in Nat /\ Stores'[id] = Stores[id]
      BY <1>2, <2>1, <3>1, <3>2, VersionsAt DEF Exists
    <3> QED BY <1>2, <3>3 DEF Turns, SameRefusal
  <2> QED BY <1>2, <2>1, LosesTurns
<1>12. [Copies!Next]_(Copies!vars)
  BY <1>0, <1>10, <1>11, AbstractStep DEF TypeInv, Typed, TypeOK
<1> QED BY <1>5, <1>6, <1>8, <1>9, <1>12 DEF DataInv

LEMMA PublishData ==
  ASSUME DataInv, TypeInv', NEW j \in Job, Publish(j)
  PROVE  DataInv' /\ [Copies!Next]_(Copies!vars)
<1>0. /\ j \in Job_ /\ TypeInv /\ Typed /\ Fits(j) /\ Holds(j) /\ job[j] \in JobType
      /\ job[j].pc = "publish"
  BY ObjectType DEF DataInv, TypeInv, Job_, Publish
<1>1. PICK id \in File : id = NewFile /\ file[id] = None
  BY NewFileType DEF Publish
<1>2. PICK h \in Handle : h = job[j].call.node /\ origins[h] = None
  BY <1>0 DEF Fits, Publish, NotOverlaid
<1> DEFINE f == [name |-> job[j].name, remote |-> h, local_only |-> FALSE,
                 dirty |-> FALSE, revision |-> job[j].data, content |-> job[j].data]
           r == [job[j] EXCEPT !.pc = "write", !.id = id]
<1>3. /\ UNCHANGED <<device, lock, crossed, committed, inPlace>> /\ files' = files \cup {id}
      /\ file' = [file EXCEPT ![id] = f] /\ origins' = [origins EXCEPT ![h] = id]
      /\ job' = [job EXCEPT ![j] = r]
  BY <1>1, <1>2 DEF Publish, ghost
<1>4. r.pc = "write" /\ r.call = job[j].call /\ r.temp = job[j].temp
  BY <1>0 DEF JobType
<1>5. f.name = job[j].name /\ f.remote = h /\ f.content = job[j].data
  OBVIOUS
<1> HIDE DEF f, r
<1>6. /\ file'[id] = f /\ \A i \in File : i # id => file'[i] = file[i]
      /\ origins'[h] = id /\ \A g \in Handle : g # h => origins'[g] = origins[g]
      /\ Others(j) /\ job'[j] = r /\ id # None /\ h # None
  BY <1>0, <1>3, ObjectType, SentinelAssumption DEF Typed, TypeOK, Others
<1>7. file'[id] # None
  BY <1>3 DEF TypeInv, Typed, TypeOK
<1>8. Grows
  BY <1>0, <1>1, <1>2, <1>3, <1>6, GrowsBy DEF Typed, TypeOK
<1>9. Origins'
  <2>1. ASSUME NEW i \in File, file'[i] # None, file'[i].remote # None
        PROVE  origins'[file'[i].remote] = i
    <3>1. CASE i = id
      BY <1>5, <1>6, <3>1
    <3>2. CASE i # id
      <4>1. file'[i] = file[i]
        BY <1>6, <3>2
      <4>2. file[i].remote \in Handle /\ origins[file[i].remote] = i /\ i # None
        BY <2>1, <4>1, RemoteOwned, SentinelAssumption
      <4> QED BY <1>2, <1>6, <4>1, <4>2
    <3> QED BY <3>1, <3>2
  <2>2. ASSUME NEW g \in Handle, origins'[g] # None PROVE file'[origins'[g]] # None
    <3>1. CASE g = h
      BY <1>6, <1>7, <3>1
    <3>2. CASE g # h
      <4>1. origins'[g] = origins[g] /\ origins[g] \in File /\ file[origins[g]] # None
        BY <1>0, <1>6, <2>2, <3>2 DEF DataInv, Origins, Typed, TypeOK
      <4> QED BY <1>6, <1>7, <4>1
    <3> QED BY <3>1, <3>2
  <2> QED BY <2>1, <2>2 DEF Origins
<1>10. \A k \in Job_ : job[k].temp # None =>
         job[k].temp \in Handle /\ job[k].temp # h /\ origins[job[k].temp] = None
  BY <1>0, <1>2, ObjectType DEF DataInv, Private, JobType, Fits
<1>11. Private'
  <2>1. \A k \in Job_ : job[k].temp # None => origins'[job[k].temp] = None
    BY <1>6, <1>10
  <2>2. Called(j)
    BY <1>0, <1>4, <1>6, CalledSame
  <2> QED BY <1>0, <1>4, <1>6, <2>1, <2>2, PrivateKept DEF DataInv, Called
<1>12. \A k \in Job_ : Holds(k)'
  <2>1. \A i \in File : lock[i] \in Job_ \ {j} => file'[i] = file[i]
    BY <1>0, <1>1, <1>6, JobAssumption DEF Typed, Job_
  <2>2. Holds(j)'
    BY <1>0, <1>4, <1>6, PlainHolds DEF Plain, PC
  <2> QED BY <1>0, <1>3, <1>6, <1>8, <2>1, <2>2, OthersHold
<1>13. ASSUME NEW i \in files' PROVE Clean(i)' /\ Stable(i)'
  <2>1. CASE i = id
    <3> SUFFICES ASSUME Sound(i)' PROVE Clean(i)' /\ Stable(i)'
      BY DEF Clean, Stable
    <3>1. h \notin crossed
      BY <1>3, <1>6, <2>1 DEF Sound
    <3>2. device[h] # None /\ device[h].name = job[j].name /\ device[h].data = job[j].data
      BY <1>0, <1>2, <3>1 DEF Holds, Reading
    <3>3. device[h] = [name |-> f.name, data |-> f.content] /\ device[h].data \in Nat
      BY <1>0, <1>5, <3>2, ObjectType DEF Object
    <3>4. committed[id] = 0
      BY <1>0, <1>1 DEF Typed
    <3> QED BY <1>3, <1>5, <1>6, <2>1, <3>2, <3>3, <3>4 DEF Clean, Stable, Exists
  <2>2. CASE i # id
    <3>1. i \in files /\ i \in File /\ file[i] # None
      BY <1>0, <1>3, <2>2 DEF Typed, TypeOK
    <3> QED BY <1>3, <1>6, <1>8, <2>2, <3>1, FileKept
  <2> QED BY <2>1, <2>2
<1>14. ASSUME NEW i \in File \ {id} PROVE Keeps(i)
  <2>1. Sound(i) <=> Sound(i)'
    <3>1. \A g \in Handle : origins[g] = i <=> origins'[g] = i
      BY <1>2, <1>6, SentinelAssumption
    <3>2. \A k \in Job : job[k].pc = "unmap" /\ job[k].id = i
                            <=> job'[k].pc = "unmap" /\ job'[k].id = i
      BY <1>0, <1>4, <1>6 DEF Others, Job_
    <3> QED BY <1>0, <1>3, <3>1, <3>2, SameSoundAt
  <2> QED BY <1>3, <1>6, <2>1, KeepsBy DEF SameRefusal
<1>15. Turns(id)
  <2>1. CASE Sound(id)'
    <3>1. ~Sound(id)
      BY <1>0, <1>1 DEF Sound, Typed, TypeOK
    <3>2. h \notin crossed
      BY <1>3, <1>6, <2>1 DEF Sound
    <3>3. device[h] # None /\ device[h].data = job[j].data /\ job[j].data \in Nat
      BY <1>0, <1>2, <3>2 DEF Holds, Reading, JobType
    <3>4. Versions[id] = None /\ Versions'[id] = job[j].data /\ Stores'[id] = job[j].data
      BY <1>3, <1>5, <1>6, <2>1, <3>1, <3>3, VersionsAt DEF Exists
    <3> QED BY <1>3, <3>3, <3>4 DEF Turns, SameRefusal
  <2> QED BY <1>3, <2>1, LosesTurns
<1>16. [Copies!Next]_(Copies!vars)
  BY <1>0, <1>14, <1>15, AbstractStep DEF TypeInv, Typed, TypeOK
<1> QED BY <1>9, <1>11, <1>12, <1>13, <1>16 DEF DataInv

LEMMA ReachesData ==
  ASSUME DataInv, TypeInv', NEW j \in Job, Reaches(j)
  PROVE  DataInv' /\ [Copies!Next]_(Copies!vars)
<1>0. /\ j \in Job_ /\ TypeInv /\ Typed /\ Fits(j) /\ job[j].pc = "direct" /\ After(j)
      /\ UNCHANGED <<file, files, origins, lock, committed, inPlace>>
      /\ job[j].call.op \in {"remove", "rename"}
  BY DEF DataInv, TypeInv, Job_, Reaches, Fits, area
<1>1. PICK h \in Handle : h = job[j].call.node
  BY <1>0 DEF Fits
<1>2. \A g \in Handle : g # h => device'[g] = device[g]
  BY <1>0, <1>1 DEF Reaches, Typed, TypeOK
<1>3. /\ crossed \subseteq crossed'
      /\ origins[h] # None => h \in crossed'
      /\ \A k \in Job : job[k].pc \in {"download", "publish"} /\ job[k].call.node = h
           => h \in crossed'
  BY <1>1 DEF Reaches
<1>4. /\ Others(j) /\ job'[j].temp = None /\ job'[j].pc \in Plain /\ Called(j)
  BY <1>0, AfterType, CalledNone DEF Plain, PC
<1>5. Grows
  BY <1>0, <1>3, <1>4, GrowsBy
<1>6. Origins'
  BY <1>0 DEF DataInv, Origins
<1>7. Private'
  <2>1. \A k \in Job_ : job[k].temp # None => origins'[job[k].temp] = None
    BY <1>0 DEF DataInv, Private
  <2> QED BY <1>0, <1>4, <2>1, PrivateKept DEF DataInv, Called
<1>8. \A k \in Job_ : Holds(k)'
  <2>1. \A k \in Job_ \ {j} : job[k].temp # None => device'[job[k].temp] = device[job[k].temp]
    <3> SUFFICES ASSUME NEW k \in Job_ \ {j}, job[k].temp # None
                 PROVE  device'[job[k].temp] = device[job[k].temp]
      OBVIOUS
    <3>1. job[k].temp \in Handle
      BY <1>0, ObjectType DEF JobType
    <3>2. job[k].temp # h
      BY <1>0, <1>1 DEF DataInv, Private
    <3> QED BY <1>2, <3>1, <3>2
  <2>2. \A k \in Job_ \ {j} :
          LET n == job[k].call.node IN
          job[k].pc \in {"download", "publish"} /\ n \notin crossed' /\ origins[n] = None
            => device'[n] = device[n] \/ origins'[n] # None
    <3> SUFFICES ASSUME NEW k \in Job_ \ {j}, job[k].pc \in {"download", "publish"},
                        job[k].call.node \notin crossed'
                 PROVE  device'[job[k].call.node] = device[job[k].call.node]
      OBVIOUS
    <3>1. k \in Job /\ job[k].call.node \in Handle
      BY <1>0 DEF TypeInv, Fits
    <3> QED BY <1>2, <1>3, <3>1
  <2>3. Holds(j)'
    BY <1>0, <1>4, PlainHolds
  <2> QED BY <1>0, <1>4, <1>5, <2>1, <2>2, <2>3, OthersHold
<1>9. ASSUME NEW i \in files' PROVE Clean(i)' /\ Stable(i)'
  <2>1. i \in files /\ i \in File /\ file[i] # None
    BY <1>0 DEF Typed, TypeOK
  <2>2. ASSUME file[i].remote # None, device'[file[i].remote] # device[file[i].remote]
        PROVE  ~Sound(i)'
    <3>1. file[i].remote \in Handle /\ origins[file[i].remote] = i /\ i # None
      BY <2>1, <2>2, RemoteOwned, SentinelAssumption
    <3>2. file[i].remote = h
      BY <1>2, <2>2, <3>1
    <3> QED BY <1>0, <1>3, <3>1, <3>2 DEF Sound
  <2> QED BY <1>0, <1>5, <2>1, <2>2, FileKept
<1>10. ASSUME NEW i \in File, origins[h] # i PROVE Keeps(i)
  <2>1. Sound(i) <=> Sound(i)'
    <3>1. \A g \in Handle : g # h => (g \in crossed <=> g \in crossed')
      BY <1>1 DEF Reaches
    <3>2. \A k \in Job : job[k].pc = "unmap" /\ job[k].id = i
                            <=> job'[k].pc = "unmap" /\ job'[k].id = i
      BY <1>0, <1>4, AfterType DEF Others, Job_
    <3> QED BY <1>0, <1>10, <3>1, <3>2, SameSoundAt
  <2>2. ASSUME Sound(i), file[i].remote # None
        PROVE  device'[file[i].remote] = device[file[i].remote]
    <3>1. i \in files /\ file[i] # None
      BY <1>0, <2>2 DEF Sound, Typed, TypeOK
    <3> QED BY <1>2, <1>10, <2>2, <3>1, RemoteOwned
  <2> QED BY <1>0, <2>1, <2>2, KeepsBy DEF SameRefusal
<1>11. [Copies!Next]_(Copies!vars)
  <2>1. CASE origins[h] = None
    <3>1. \A i \in File : Keeps(i)
      BY <1>10, <2>1, SentinelAssumption
    <3> QED BY <1>0, <3>1, StuttersKeeping
  <2>2. CASE origins[h] # None
    <3>1. PICK id \in File : id = origins[h] /\ id # None
      BY <1>0, <2>2 DEF Typed, TypeOK
    <3>2. \A i \in File \ {id} : Keeps(i)
      BY <1>10, <3>1
    <3>3. ~Sound(id)'
      BY <1>0, <1>3, <3>1 DEF Sound
    <3>4. Turns(id)
      BY <1>0, <3>3, LosesTurns
    <3> QED BY <1>0, <3>2, <3>4, AbstractStep DEF TypeInv, Typed, TypeOK
  <2> QED BY <2>1, <2>2
<1> QED BY <1>6, <1>7, <1>8, <1>9, <1>11 DEF DataInv

LEMMA DataStep ==
  ASSUME DataInv, [Next]_vars PROVE DataInv'
<1>0. TypeInv'
  BY TypeStep DEF DataInv
<1>1. CASE \E n \in Place : Create(n)
  BY <1>0, <1>1, CreateData
<1>2. CASE \E j \in Job : \E call \in Call : Found(j, call) \/ Direct(j, call) \/ Describe(j, call)
  BY <1>0, <1>2, FoundData, DescribeData
<1>3. CASE \E j \in Job : \E timer \in timers : TimerFires(j, timer)
  BY <1>0, <1>3, TimerFiresData
<1>4. ASSUME NEW j \in Job, CallStep(j) PROVE DataInv'
  <2>1. CASE Schedule(j) \/ Unlink(j)
    BY <1>0, <2>1, QuietDone DEF Schedule, Unlink, Job_
  <2> QED BY <1>0, <1>4, <2>1, DownloadData, PublishData, PublishedMeanwhileData, ReachesData,
             WriteData, RenameData, RemoveData, UnmapData DEF CallStep
<1>5. CASE FlushStarts
  BY <1>0, <1>5, FlushStartsData
<1>6. CASE \E id \in File : FlushNext(id)
  BY <1>0, <1>6, FlushNextData
<1>7. ASSUME NEW j \in Job_, CommitStep(j) PROVE DataInv'
  BY <1>0, <1>7, CommitLocallyData, BeginCommitData, UploadData, UploadTemporaryData,
     RenameOldData, RenameTemporaryData, RestoreOldData, GiveUpData, DeleteOldData,
     DropTemporaryData, DeleteOriginalData DEF CommitStep
<1>8. CASE UNCHANGED vars
  BY <1>0, <1>8 DEF vars, DataInv, Origins, Private, Holds, Reading, Copying, Replacing, Mine,
                    Clean, Stable, Sound, Exists
<1> QED BY <1>1, <1>2, <1>3, <1>4, <1>5, <1>6, <1>7, <1>8 DEF Next

LEMMA DataAlways ==
  Spec => []DataInv
<1>1. Init => DataInv
  <2> SUFFICES ASSUME Init PROVE DataInv
    OBVIOUS
  <2>1. TypeInv
    BY TypeInit
  <2>2. \A j \in Job_ : job[j].pc = "idle" /\ job[j].temp = None
    BY IdleType DEF Init
  <2> QED BY <2>1, <2>2 DEF Init, DataInv, Origins, Private, Holds, Reading, Copying, Replacing
<1>2. DataInv /\ [Next]_vars => DataInv'
  BY DataStep
<1> QED BY <1>1, <1>2, PTL DEF Spec

\* However many first writes to an object race, they stage it once: no two files that can be
\* found stand for the same object (stage_existing).
THEOREM OneOverlayAlways ==
  Spec => []OneOverlay
<1>1. DataInv => OneOverlay
  <2> SUFFICES ASSUME DataInv, NEW i \in files, NEW k \in files,
                      file[i].remote # None, file[i].remote = file[k].remote
               PROVE  i = k
    BY DEF OneOverlay
  <2>1. i \in File /\ file[i] # None
    BY DEF DataInv, TypeInv, Typed, TypeOK
  <2> QED BY <2>1, RemoteOwned
<1> QED BY <1>1, DataAlways, PTL

\* A file that is not dirty is on the phone as it was last written, whatever writes, renames,
\* commits and failures have overlapped, on every phone (write, set_len, rename, commit).
THEOREM CleanMeansStoredAlways ==
  Spec => []CleanMeansStored
<1>1. DataInv => CleanMeansStored
  BY DEF DataInv, Clean, CleanMeansStored
<1> QED BY <1>1, DataAlways, PTL

\* Whichever requests of a commit fail, the phone holds a copy at least as new as the last
\* commit that has answered, unless it has refused to rename the old object and the commit has
\* deleted it to upload again (replace_remote).
THEOREM StableSurvivesAlways ==
  Spec => []StableSurvives
<1>1. DataInv => StableSurvives
  BY DEF DataInv, Stable, StableSurvives
<1> QED BY <1>1, DataAlways, PTL

-----------------------------------------------------------------------------
(* A step the phone's copies do not show.                                  *)

SameSound == \A i \in File : Sound(i) <=> Sound(i)'

LEMMA SameSoundBy ==
  ASSUME NEW j \in Job_, Others(j), job[j].pc # "unmap", job'[j].pc # "unmap",
         UNCHANGED <<files, origins, crossed>>
  PROVE  SameSound
  BY DEF SameSound, Sound, Others, Job_

\* What can be seen of file i, and of its object, stays.
Unseen(i) ==
  /\ file'[i].content = file[i].content /\ file'[i].remote = file[i].remote
  /\ file[i].remote # None =>
       \/ device'[file[i].remote] = device[file[i].remote]
       \/ /\ device[file[i].remote] # None /\ device'[file[i].remote] # None
          /\ device'[file[i].remote].data = device[file[i].remote].data

LEMMA Stutters ==
  ASSUME DataInv, SameSound, UNCHANGED inPlace, \A i \in files : Sound(i) => Unseen(i)
  PROVE  [Copies!Next]_(Copies!vars)
<1>1. \A i \in File : Keeps(i)
  BY KeepsBy DEF SameSound, Sound, Unseen, SameRefusal
<1> QED BY <1>1, StuttersKeeping

LEMMA StuttersSet ==
  ASSUME DataInv, NEW j \in Job_, NEW r, job' = [job EXCEPT ![j] = r],
         r.pc # "unmap", job[j].pc # "unmap", UNCHANGED <<device, file, files, origins, crossed, inPlace>>
  PROVE  [Copies!Next]_(Copies!vars)
<1>1. job'[j] = r /\ Others(j)
  BY ObjectType DEF DataInv, TypeInv, Others
<1>2. SameSound
  BY <1>1, SameSoundBy
<1> QED BY <1>2, Stutters DEF Unseen

LEMMA StuttersAfter ==
  ASSUME DataInv, NEW j \in Job_, After(j), job[j].pc # "unmap",
         UNCHANGED <<files, origins, crossed, inPlace>>,
         \A i \in files : Sound(i) => Unseen(i)
  PROVE  [Copies!Next]_(Copies!vars)
<1>1. Others(j) /\ job'[j].pc # "unmap"
  BY AfterType DEF DataInv, TypeInv
<1> QED BY <1>1, SameSoundBy, Stutters

LEMMA StuttersTo ==
  ASSUME DataInv, NEW j \in Job_, NEW pc \in PC, To(j, pc), pc # "unmap", job[j].pc # "unmap",
         UNCHANGED <<files, origins, crossed, inPlace>>,
         \A i \in files : Sound(i) => Unseen(i)
  PROVE  [Copies!Next]_(Copies!vars)
<1>1. Others(j) /\ job'[j].pc # "unmap"
  BY ToType DEF DataInv, TypeInv
<1> QED BY <1>1, SameSoundBy, Stutters

\* Arrivals, reading an object, delayed commits and the flush.
LEMMA TalkAbstract ==
  ASSUME DataInv,
         \/ \E j \in Job : \/ \E call \in Call : Found(j, call) \/ Direct(j, call) \/ Describe(j, call)
                           \/ \E timer \in timers : TimerFires(j, timer)
                           \/ Download(j) \/ PublishedMeanwhile(j) \/ Schedule(j) \/ Unlink(j)
         \/ FlushStarts \/ \E id \in File : FlushNext(id)
         \/ \E j \in Job_ : BeginCommit(j)
  PROVE  [Copies!Next]_(Copies!vars)
<1>0. /\ TypeInv /\ Typed /\ \A j \in Job_ : job[j] \in JobType
      /\ \A j \in Job_ : job' = job => job' = [job EXCEPT ![j] = job[j]]
      /\ UNCHANGED <<device, file, files, origins, crossed, inPlace>> => \A i \in files : Unseen(i)
  BY ObjectType DEF DataInv, TypeInv, Unseen
<1>1. ASSUME NEW j \in Job, NEW call \in Call, Found(j, call) \/ Direct(j, call) \/ Describe(j, call)
      PROVE  [Copies!Next]_(Copies!vars)
  <2> DEFINE r == [job[j] EXCEPT !.pc = call.op, !.call = call, !.id = Overlay(call.node)]
             d == [job[j] EXCEPT !.pc = "direct", !.call = call]
             e == [job[j] EXCEPT !.pc = "download", !.call = call, !.name = device[call.node].name]
  <2>1. j \in Job_ /\ call.op # "unmap"
    BY CallType DEF Job_
  <2>2. r.pc # "unmap" /\ d.pc # "unmap" /\ e.pc # "unmap"
    BY <1>0, <2>1, SMTT(30) DEF JobType
  <2>3. /\ job[j].pc # "unmap" /\ UNCHANGED <<device, file, files, origins, crossed, inPlace>>
        /\ \/ job' = [job EXCEPT ![j] = r] \/ job' = [job EXCEPT ![j] = d]
           \/ job' = [job EXCEPT ![j] = e]
    BY <1>1 DEF Found, Direct, Describe, Arrives, area, ghost
  <2> HIDE DEF r, d, e
  <2> QED BY <2>1, <2>2, <2>3, StuttersSet
<1>2. ASSUME NEW j \in Job, NEW timer \in timers, TimerFires(j, timer)
      PROVE  [Copies!Next]_(Copies!vars)
  <2> DEFINE r == [job[j] EXCEPT !.pc = "commit", !.id = timer.id]
  <2>1. /\ j \in Job_ /\ job[j].pc # "unmap" /\ UNCHANGED <<device, file, files, origins, crossed, inPlace>>
        /\ job' = [job EXCEPT ![j] = r] \/ job' = [job EXCEPT ![j] = job[j]]
    BY <1>0, <1>2 DEF TimerFires, Job_, ghost
  <2>2. r.pc # "unmap"
    BY <1>0, <2>1 DEF JobType
  <2> HIDE DEF r
  <2> QED BY <2>1, <2>2, StuttersSet
<1>3. ASSUME NEW j \in Job, Download(j) PROVE [Copies!Next]_(Copies!vars)
  <2> DEFINE r == [job[j] EXCEPT !.pc = "publish", !.data = device[job[j].call.node].data]
  <2>1. /\ j \in Job_ /\ job[j].pc # "unmap" /\ UNCHANGED <<device, file, files, origins, crossed, inPlace>>
        /\ job' = [job EXCEPT ![j] = r] \/ After(j)
    BY <1>3 DEF Download, Job_, area, ghost
  <2>2. r.pc # "unmap"
    BY <1>0, <2>1 DEF JobType
  <2> HIDE DEF r
  <2> QED BY <1>0, <2>1, <2>2, StuttersSet, StuttersAfter
<1>4. ASSUME NEW j \in Job, PublishedMeanwhile(j) PROVE [Copies!Next]_(Copies!vars)
  <2> DEFINE r == [job[j] EXCEPT !.pc = "write", !.id = origins[job[j].call.node]]
  <2>1. /\ j \in Job_ /\ job[j].pc # "unmap" /\ UNCHANGED <<device, file, files, origins, crossed, inPlace>>
        /\ job' = [job EXCEPT ![j] = r] \/ After(j)
    BY <1>4 DEF PublishedMeanwhile, Job_, area, ghost
  <2>2. r.pc # "unmap"
    BY <1>0, <2>1 DEF JobType
  <2> HIDE DEF r
  <2> QED BY <1>0, <2>1, <2>2, StuttersSet, StuttersAfter
<1>5. ASSUME NEW j \in Job, Schedule(j) \/ Unlink(j) PROVE [Copies!Next]_(Copies!vars)
  <2>1. /\ j \in Job_ /\ job[j].pc # "unmap" /\ After(j)
        /\ UNCHANGED <<device, file, files, origins, crossed, inPlace>>
    BY <1>5 DEF Schedule, Unlink, Job_, ghost
  <2> QED BY <1>0, <2>1, StuttersAfter
<1>6. CASE FlushStarts
  <2> DEFINE j == Discovery
             r == [job[j] EXCEPT !.pc = "flush", !.todo = files]
  <2>1. /\ j \in Job_ /\ job[j].pc # "unmap" /\ UNCHANGED <<device, file, files, origins, crossed, inPlace>>
        /\ job' = [job EXCEPT ![j] = r]
    BY <1>6 DEF FlushStarts, Job_, area, ghost
  <2>2. r.pc # "unmap"
    BY <1>0, <2>1 DEF JobType
  <2> HIDE DEF r, j
  <2> QED BY <2>1, <2>2, StuttersSet
<1>7. ASSUME NEW id \in File, FlushNext(id) PROVE [Copies!Next]_(Copies!vars)
  <2> DEFINE j == Discovery
             rest == job[j].todo \ {id}
             c == [job[j] EXCEPT !.pc = "commit", !.id = id, !.todo = rest]
             d == [job[j] EXCEPT !.todo = rest]
  <2>1. /\ j \in Job_ /\ job[j].pc = "flush" /\ UNCHANGED <<device, file, files, origins, crossed, inPlace>>
        /\ \/ job' = [job EXCEPT ![j] = c] \/ job' = [job EXCEPT ![j] = d]
           \/ job' = [job EXCEPT ![j] = IdleJob]
    BY <1>0, <1>7 DEF FlushNext, Job_, area, ghost, Typed, TypeOK
  <2>2. c.pc # "unmap" /\ d.pc # "unmap" /\ IdleJob.pc # "unmap"
    BY <1>0, <2>1, IdleType DEF JobType
  <2> HIDE DEF c, d, j
  <2> QED BY <2>1, <2>2, StuttersSet
<1>8. ASSUME NEW j \in Job_, BeginCommit(j) PROVE [Copies!Next]_(Copies!vars)
  <2> DEFINE pc == IF Mine(j).remote = None THEN "upload" ELSE "upload_temporary"
  <2>1. /\ job[j].pc # "unmap" /\ UNCHANGED <<device, file, files, origins, crossed, inPlace>> /\ To(j, pc)
    BY <1>8 DEF BeginCommit, area, ghost
  <2>2. pc \in PC /\ pc # "unmap"
    BY DEF PC
  <2> HIDE DEF pc
  <2> QED BY <1>0, <2>1, <2>2, StuttersTo
<1> QED BY <1>1, <1>2, <1>3, <1>4, <1>5, <1>6, <1>7, <1>8

LEMMA RenameAbstract ==
  ASSUME DataInv, NEW j \in Job, Rename(j) PROVE [Copies!Next]_(Copies!vars)
<1>0. /\ j \in Job_ /\ job[j].pc = "rename" /\ job[j].pc \in FilePC /\ TypeInv /\ Typed
      /\ UNCHANGED <<device, files, origins, crossed, inPlace>> /\ To(j, "schedule") /\ "schedule" \in PC
  BY DEF Rename, Job_, FilePC, DataInv, TypeInv, local, ghost, PC
<1>1. /\ job[j].id \in File /\ Mine(j) = file[job[j].id] /\ Mine(j) \in Staged
      /\ Mine(j).revision \in Nat /\ Fits(j) /\ job[j] \in JobType
  BY <1>0, MineType
<1>2. PICK f : f = Renamed(Mine(j), job[j].call.name)
  OBVIOUS
<1>3. f.content = Mine(j).content /\ f.remote = Mine(j).remote
  BY <1>1, <1>2 DEF Staged, Renamed
<1>4. file' = [file EXCEPT ![job[j].id] = f]
  BY <1>2 DEF Rename, Update
<1>5. \A i \in files : Unseen(i)
  BY <1>0, <1>1, <1>3, <1>4 DEF Unseen, Typed, TypeOK
<1> QED BY <1>0, <1>5, StuttersTo

LEMMA CommitLocallyAbstract ==
  ASSUME DataInv, NEW j \in Job_, CommitLocally(j) PROVE [Copies!Next]_(Copies!vars)
<1>0. /\ job[j].pc = "commit" /\ job[j].pc \in FilePC /\ TypeInv /\ Typed
      /\ UNCHANGED <<device, files, origins, crossed, inPlace>> /\ After(j)
  BY DEF CommitLocally, FilePC, DataInv, TypeInv, local, ghost
<1>1. job[j].id \in File /\ Mine(j) = file[job[j].id] /\ Mine(j) \in Staged
  BY <1>0, MineType
<1>2. PICK f : f = [Mine(j) EXCEPT !.dirty = FALSE]
  OBVIOUS
<1>3. f.content = Mine(j).content /\ f.remote = Mine(j).remote
  BY <1>1, <1>2 DEF Staged
<1>4. file' = [file EXCEPT ![job[j].id] = f]
  BY <1>2 DEF CommitLocally, Update
<1>5. \A i \in files : Unseen(i)
  BY <1>0, <1>1, <1>3, <1>4 DEF Unseen, Typed, TypeOK
<1> QED BY <1>0, <1>5, StuttersAfter

LEMMA WriteAbstract ==
  ASSUME DataInv, NEW j \in Job, Write(j) PROVE [Copies!Next]_(Copies!vars)
<1>0. /\ j \in Job_ /\ job[j].pc = "write" /\ job[j].pc \in FilePC /\ TypeInv /\ Typed
      /\ UNCHANGED <<device, files, origins, crossed, inPlace>>
  BY DEF Write, Job_, FilePC, DataInv, TypeInv, local, ghost
<1>1. /\ file[job[j].id] # None /\ Mine(j) = file[job[j].id]
      /\ Mine(j).revision \in Nat /\ Mine(j).content \in Nat
      /\ Mine(j).content <= Mine(j).revision /\ Fits(j) /\ job[j] \in JobType
  BY <1>0, MineType
<1>2. PICK id \in File : id = job[j].id
  BY <1>0, MineType
<1>3. CASE id \in disk
  <2>1. PICK f \in Staged : /\ Update(j, f) /\ f.remote = Mine(j).remote
                            /\ f = Mine(j) \/ f.content = Mine(j).revision + 1
    BY <1>0, <1>2, <1>3, WriteSets
  <2>2. file' = [file EXCEPT ![id] = f]
    BY <1>2, <2>1 DEF Update
  <2>3. file'[id] = f /\ \A i \in File : i # id => file'[i] = file[i]
    BY <1>0, <2>2 DEF Typed, TypeOK
  <2>4. SameSound
    <3>1. CASE After(j)
      BY <1>0, <3>1, AfterType, SameSoundBy
    <3>2. CASE To(j, job[j].call.then) /\ job[j].call.then # "nothing"
      <4>1. job[j].call.then \in {"schedule", "commit"}
        BY <1>0, <1>1, <3>2, CallType DEF Fits, JobType
      <4>2. Others(j) /\ job'[j].pc \in {"schedule", "commit"}
        BY <1>0, <3>2, <4>1, ToType DEF PC
      <4> QED BY <1>0, <4>2, SameSoundBy
    <3> QED BY <1>2, <1>3, <3>1, <3>2 DEF Write
  <2>5. \A i \in File : file'[i] = file[i] => Keeps(i)
    BY <1>0, <2>4, KeepsBy DEF SameSound, SameRefusal
  <2>6. Turns(id)
    <3>1. CASE Sound(id) /\ f.content = Mine(j).revision + 1
      <4>1. Sound(id)'
        BY <2>4, <3>1 DEF SameSound
      <4>2. /\ Versions[id] = Mine(j).content /\ Versions'[id] = f.content
            /\ Stores'[id] = Stores[id]
        BY <1>0, <1>1, <1>2, <2>1, <2>3, <3>1, <4>1, VersionsAt DEF Exists
      <4>3. Versions[id] # None /\ Versions'[id] \in Nat /\ Versions'[id] > Versions[id]
        BY <1>1, <3>1, <4>2, SentinelAssumption
      <4> QED BY <1>0, <4>2, <4>3 DEF Turns, SameRefusal
    <3>2. CASE ~Sound(id)
      BY <1>0, <2>4, <3>2, LosesTurns DEF SameSound
    <3>3. CASE f = Mine(j)
      BY <1>1, <1>2, <2>3, <2>5, <3>3 DEF Turns
    <3> QED BY <2>1, <3>1, <3>2, <3>3
  <2> QED BY <1>0, <2>3, <2>5, <2>6, AbstractStep DEF Typed, TypeOK
<1>4. CASE id \notin disk
  <2>1. UNCHANGED file /\ After(j)
    BY <1>2, <1>4 DEF Write
  <2>2. \A i \in files : Unseen(i)
    BY <1>0, <2>1 DEF Unseen
  <2> QED BY <1>0, <2>1, <2>2, StuttersAfter
<1> QED BY <1>3, <1>4

\* A request for the object of a file, or for a commit's temporary object.
LEMMA RequestUnseen ==
  ASSUME DataInv, NEW j \in Job_,
         job[j].pc \in CommitPC \ {"upload", "upload_temporary"}, UNCHANGED file,
         NEW h, h = Mine(j).remote \/ h = job[j].temp,
         \A g \in Handle : g # h => device'[g] = device[g],
         h = Mine(j).remote =>
           \/ device'[h] = device[h]
           \/ device[h] # None /\ device'[h] # None /\ device'[h].data = device[h].data
  PROVE  \A i \in files : Sound(i) => Unseen(i)
<1> SUFFICES ASSUME NEW i \in files, Sound(i) PROVE Unseen(i)
  OBVIOUS
<1>1. i \in File /\ file[i] # None /\ file[i].remote \in Handle \cup {None}
  BY ObjectType DEF DataInv, TypeInv, Typed, TypeOK, Staged
<1>2. CASE file[i].remote = h
  <2>1. h = Mine(j).remote
    BY <1>2, CommitOwns
  <2> QED BY <1>2, <2>1 DEF Unseen
<1>3. CASE file[i].remote # h
  BY <1>1, <1>3 DEF Unseen
<1> QED BY <1>2, <1>3

\* The phone refuses to rename the old object, or it is renamed.
LEMMA RenameOldAbstract ==
  ASSUME DataInv, TypeInv', NEW j \in Job_, RenameOld(j) PROVE [Copies!Next]_(Copies!vars)
<1> DEFINE h == Mine(j).remote
<1>0. /\ TypeInv /\ Typed /\ job[j].pc \in CommitPC \ {"upload", "upload_temporary"}
      /\ job[j].pc # "unmap" /\ UNCHANGED <<file, files, origins, crossed>>
  BY DEF DataInv, TypeInv, CommitPC, RenameOld, area
<1>1. h \in Handle /\ "backup" \in Name
  BY <1>0, CommitOwns DEF Name
<1>2. CASE /\ device' = [device EXCEPT ![h].name = "backup"] /\ Exists(h)
           /\ To(j, "rename_temporary") /\ UNCHANGED inPlace
  <2>1. /\ \A g \in Handle : g # h => device'[g] = device[g]
        /\ device[h] # None /\ device'[h] # None /\ device'[h].data = device[h].data
    BY <1>0, <1>1, <1>2, NamedTyped, ZenonT(60) DEF Exists, Typed, TypeOK
  <2>2. \A i \in files : Sound(i) => Unseen(i)
    BY <1>0, <2>1, RequestUnseen
  <2> QED BY <1>0, <1>2, <2>2, StuttersTo DEF PC
<1>3. CASE /\ device' = device /\ To(j, "drop_temporary")
           /\ inPlace' = inPlace \cup {job[j].id}
  <2>1. PICK id \in File : id = job[j].id
    BY <1>0, CommitOwns
  <2>2. SameSound
    BY <1>0, <1>3, ToType, SameSoundBy DEF PC
  <2>3. ASSUME NEW i \in File
        PROVE  Versions'[i] = Versions[i] /\ Stores'[i] = Stores[i]
    BY <1>0, <1>3, <2>2, VersionsAt DEF SameSound, Exists
  <2>4. \A i \in File \ {id} : Keeps(i)
    BY <1>3, <2>1, <2>3 DEF Keeps, SameRefusal
  <2>5. Turns(id)
    BY <1>3, <2>1, <2>3 DEF Turns
  <2> QED BY <1>0, <2>4, <2>5, AbstractStep DEF TypeInv, Typed, TypeOK
<1> QED BY <1>2, <1>3 DEF RenameOld, Requests

LEMMA RequestAbstract ==
  ASSUME DataInv, NEW j \in Job_,
         RenameTemporary(j) \/ RestoreOld(j) \/ DropTemporary(j) \/ GiveUp(j)
  PROVE  [Copies!Next]_(Copies!vars)
<1> DEFINE h == Mine(j).remote
           t == job[j].temp
<1>0. /\ TypeInv /\ Typed /\ job[j].pc \in CommitPC \ {"upload", "upload_temporary"}
      /\ job[j].pc # "unmap" /\ UNCHANGED <<file, files, origins, crossed, inPlace>>
  BY DEF DataInv, TypeInv, CommitPC, RenameTemporary, RestoreOld, DropTemporary,
         GiveUp, Requests, Deletes, Abort, area, ghost
<1>1. h \in Handle /\ t \in Handle /\ h # t /\ Mine(j).name \in Name
  BY <1>0, CommitOwns, CommitHas
<1>2. CASE RestoreOld(j)
  <2>1. /\ \/ device' = device
           \/ Exists(h) /\ device' = [device EXCEPT ![h].name = Mine(j).name]
        /\ To(j, "give_up")
    BY <1>1, <1>2 DEF RestoreOld, Requests
  <2>2. /\ \A g \in Handle : g # h => device'[g] = device[g]
        /\ \/ device'[h] = device[h]
           \/ device[h] # None /\ device'[h] # None /\ device'[h].data = device[h].data
    BY <1>0, <1>1, <2>1, NamedTyped DEF Exists, Typed, TypeOK
  <2>3. \A i \in files : Sound(i) => Unseen(i)
    BY <1>0, <2>2, RequestUnseen
  <2> QED BY <1>0, <2>1, <2>3, StuttersTo DEF PC
<1>3. CASE RenameTemporary(j) \/ DropTemporary(j) \/ GiveUp(j)
  <2>1. /\ \/ device' = device
           \/ device' = [device EXCEPT ![t] = None]
           \/ \E name \in Name : device' = [device EXCEPT ![t].name = name]
        /\ \/ \E pc \in {"delete_old", "restore_old", "delete_original"} : To(j, pc)
           \/ After(j)
    BY <1>1, <1>3 DEF RenameTemporary, DropTemporary, GiveUp, Requests, Deletes, Abort
  <2>2. \A g \in Handle : g # t => device'[g] = device[g]
    BY <1>0, <2>1 DEF Typed, TypeOK
  <2>3. \A i \in files : Sound(i) => Unseen(i)
    BY <1>0, <1>1, <2>2, RequestUnseen
  <2> QED BY <1>0, <2>1, <2>3, StuttersTo, StuttersAfter DEF PC
<1> QED BY <1>2, <1>3

\* The old object goes: of a file the phone has refused to rename.
LEMMA DeleteOriginalAbstract ==
  ASSUME DataInv, NEW j \in Job_, DeleteOriginal(j) PROVE [Copies!Next]_(Copies!vars)
<1> DEFINE h == Mine(j).remote
<1>0. /\ TypeInv /\ Typed /\ job[j].pc = "delete_original"
      /\ job[j].pc \in CommitPC \ {"upload", "upload_temporary"} /\ job[j].pc # "unmap"
      /\ UNCHANGED <<file, files, origins, crossed, inPlace>> /\ Replacing(j)
  BY DEF DataInv, TypeInv, Holds, CommitPC, DeleteOriginal, Deletes, Abort, area, ghost
<1>1. PICK id \in File : /\ id = job[j].id /\ h = file[id].remote /\ h \in Handle /\ h # None
                         /\ id \in inPlace
                         /\ \A k \in files : file[k].remote = h => k = id
  BY <1>0, CommitOwns DEF Replacing
<1>2. /\ device' = device \/ device' = [device EXCEPT ![h] = None]
      /\ To(j, "upload_again") \/ After(j)
  BY DEF DeleteOriginal, Deletes, Abort
<1>3. /\ \A g \in Handle : g # h => device'[g] = device[g]
      /\ device'[h] \in {device[h], None}
  BY <1>0, <1>1, <1>2 DEF Typed, TypeOK
<1>4. SameSound
  <2>1. Others(j) /\ job'[j].pc # "unmap"
    BY <1>0, <1>2, ToType, AfterType DEF PC
  <2> QED BY <1>0, <2>1, SameSoundBy
<1>5. ASSUME NEW i \in File \ {id} PROVE Keeps(i)
  <2>1. ASSUME Sound(i), file[i].remote # None
        PROVE  device'[file[i].remote] = device[file[i].remote]
    <3>1. i \in files /\ file[i] # None
      BY <1>0, <2>1 DEF Sound, Typed, TypeOK
    <3> QED BY <1>1, <1>3, <2>1, <3>1, RemoteOwned
  <2> QED BY <1>0, <1>4, <2>1, KeepsBy DEF SameSound, SameRefusal
<1>6. Turns(id)
  <2>1. CASE ~Sound(id)
    BY <1>0, <1>4, <2>1, LosesTurns DEF SameSound
  <2>2. CASE Sound(id)
    <3>1. Versions'[id] = Versions[id] /\ Stores'[id] \in {Stores[id], None}
      BY <1>0, <1>1, <1>3, <1>4, <2>2, VersionsAt DEF SameSound, Exists
    <3> QED BY <1>0, <1>1, <3>1 DEF Turns
  <2> QED BY <2>1, <2>2
<1> QED BY <1>0, <1>5, <1>6, AbstractStep DEF Typed, TypeOK

LEMMA UploadTemporaryAbstract ==
  ASSUME DataInv, NEW j \in Job_, UploadTemporary(j) PROVE [Copies!Next]_(Copies!vars)
<1>0. /\ job[j].pc # "unmap" /\ job[j].pc \in FilePC /\ job[j].pc \in CommitPC
      /\ TypeInv /\ Typed /\ "upload" \in Name /\ job[j] \in JobType
      /\ UNCHANGED <<file, files, origins, crossed, inPlace>>
  BY CommitHas, MineType DEF UploadTemporary, CommitPC, Name, DataInv, Abort, area, ghost
<1>1. CASE /\ Uploads(j, "upload")
           /\ job' = [job EXCEPT ![j].pc = "rename_old", ![j].temp = NewHandle]
  <2>1. \A h \in Handle : h # NewHandle => device'[h] = device[h]
    BY <1>0, <1>1, CopiedTyped DEF Uploads
  <2>2. \A i \in files : i \in File /\ file[i].remote # NewHandle
                         /\ file[i].remote \in Handle \cup {None}
    BY <1>0, <1>1, NewApart, ObjectType DEF Uploads, Typed, TypeOK, Staged
  <2>3. \A i \in files : Unseen(i)
    BY <1>0, <2>1, <2>2 DEF Unseen
  <2> DEFINE r == [job[j] EXCEPT !.pc = "rename_old", !.temp = NewHandle]
  <2>4. job' = [job EXCEPT ![j] = r]
    BY <1>1
  <2>5. r.pc = "rename_old"
    BY <1>0 DEF JobType
  <2> HIDE DEF r
  <2>6. job'[j] = r /\ Others(j)
    BY <1>0, <2>4, ObjectType DEF Others
  <2>7. SameSound
    BY <1>0, <2>5, <2>6, SameSoundBy
  <2> QED BY <1>0, <2>3, <2>7, Stutters
<1>2. CASE Fails(j, None) /\ device' = device
  <2>1. After(j) /\ \A i \in files : Unseen(i)
    BY <1>0, <1>2 DEF Fails, Abort, Unseen
  <2> QED BY <1>0, <2>1, StuttersAfter
<1> QED BY <1>0, <1>1, <1>2, UploadTemporarySteps

LEMMA UploadAbstract ==
  ASSUME DataInv, NEW j \in Job_, Upload(j) PROVE [Copies!Next]_(Copies!vars)
<1>1. /\ job[j].pc \in CommitPC /\ job[j].pc \in FilePC /\ Mine(j).name \in Name
      /\ TypeInv /\ Typed /\ job[j].pc # "unmap"
  BY CommitHas DEF Upload, CommitPC, DataInv
<1>2. CASE Uploads(j, Mine(j).name) /\ Finish(j, NewHandle)
  <2>1. /\ PhoneTyped' /\ device'[NewHandle] # None
        /\ device'[NewHandle] = [name |-> Mine(j).name, data |-> Mine(j).content]
        /\ \A h \in Handle : h # NewHandle => device'[h] = device[h]
    BY <1>1, <1>2, CopiedTyped DEF Uploads
  <2>2. NewHandle \in Handle /\ Apart(j, NewHandle) /\ origins[NewHandle] = None
    BY <1>2, NewApart DEF Uploads
  <2>3. failures' \in 0 .. MaxFailures /\ UNCHANGED <<calls, crossed>>
    BY <1>1, <1>2, FrameTypes DEF Uploads
  <2> QED BY <1>1, <1>2, <2>1, <2>2, <2>3, FinishData
<1>3. CASE Fails(j, None) /\ device' = device
  <2>1. /\ After(j) /\ \A i \in files : Unseen(i)
        /\ UNCHANGED <<files, origins, crossed, inPlace>>
    BY <1>3 DEF Fails, Abort, Unseen, area, ghost
  <2> QED BY <1>1, <2>1, StuttersAfter
<1> QED BY <1>1, <1>2, <1>3, UploadSteps

LEMMA RemoveAbstract ==
  ASSUME DataInv, NEW j \in Job, Remove(j) \/ Unmap(j) PROVE [Copies!Next]_(Copies!vars)
<1>0. /\ j \in Job_ /\ job[j].pc \in {"remove", "unmap"} /\ job[j].pc \in FilePC
      /\ TypeInv /\ Typed /\ UNCHANGED <<file, origins, crossed, inPlace>>
  BY DEF Remove, Unmap, Job_, FilePC, DataInv, TypeInv, area, ghost
<1>1. /\ file[job[j].id] # None /\ Mine(j) = file[job[j].id]
      /\ Mine(j).remote \in Handle \cup {None}
  BY <1>0, MineType DEF Staged
<1>2. PICK id \in File : id = job[j].id
  BY <1>0, MineType
<1>3. CASE After(j) /\ device' = device /\ files' = files /\ job[j].pc # "unmap"
  <2>1. \A i \in files : Unseen(i)
    BY <1>0, <1>3 DEF Unseen
  <2> QED BY <1>0, <1>3, <2>1, StuttersAfter
<1>4. CASE \/ /\ To(j, "unmap") /\ job[j].pc = "remove" /\ files' = files
              /\ device' = device \/ device' = [device EXCEPT ![Mine(j).remote] = None]
           \/ /\ To(j, "unlink") /\ job[j].pc = "unmap" /\ files' = files \ {id}
              /\ device' = device
  <2>1. /\ Others(j) /\ job'[j].id = id
        /\ \/ job'[j].pc = "unmap"
           \/ job'[j].pc = "unlink" /\ files' = files \ {id}
        /\ job'[j].pc = "unlink" => job[j].pc = "unmap"
    BY <1>0, <1>2, <1>4, ToType DEF PC, Same
  <2>2. ~Sound(id)'
    BY <2>1 DEF Sound
  <2>3. ASSUME NEW i \in File \ {id} PROVE Keeps(i)
    <3>1. Sound(i) <=> Sound(i)'
      BY <1>0, <1>2, <1>4, <2>1 DEF Sound, Others, Job_
    <3>2. ASSUME Sound(i), file[i].remote # None
          PROVE  device'[file[i].remote] = device[file[i].remote]
      <4>1. i \in files /\ file[i] # None
        BY <1>0, <3>2 DEF Sound, Typed, TypeOK
      <4>2. file[i].remote \in Handle /\ origins[file[i].remote] = i
        BY <3>2, <4>1, RemoteOwned
      <4>3. file[i].remote # Mine(j).remote
        BY <1>1, <1>2, <3>2, <4>2, RemoteOwned
      <4> QED BY <1>0, <1>4, <4>2, <4>3 DEF Typed, TypeOK
    <3> QED BY <1>0, <3>1, <3>2, KeepsBy DEF SameRefusal
  <2>4. Turns(id)
    BY <1>0, <2>2, LosesTurns
  <2> QED BY <1>0, <2>3, <2>4, AbstractStep DEF Typed, TypeOK
<1> QED BY <1>0, <1>2, <1>3, <1>4 DEF Remove, Unmap, area

LEMMA StoreStep ==
  ASSUME DataInv, TypeInv', [Next]_vars PROVE [Copies!Next]_(Copies!vars)
<1>1. CASE \E n \in Place : Create(n)
  BY <1>1, CreateData
<1>2. CASE \E j \in Job : \/ \E call \in Call : Found(j, call) \/ Direct(j, call) \/ Describe(j, call)
                          \/ \E timer \in timers : TimerFires(j, timer)
  BY <1>2, TalkAbstract
<1>3. ASSUME NEW j \in Job, CallStep(j) PROVE [Copies!Next]_(Copies!vars)
  BY <1>3, TalkAbstract, PublishData, ReachesData, WriteAbstract, RenameAbstract, RemoveAbstract
     DEF CallStep
<1>4. CASE FlushStarts \/ \E id \in File : FlushNext(id)
  BY <1>4, TalkAbstract
<1>5. ASSUME NEW j \in Job_, CommitStep(j) PROVE [Copies!Next]_(Copies!vars)
  BY <1>5, CommitLocallyAbstract, TalkAbstract, UploadAbstract, UploadTemporaryAbstract,
     RenameOldAbstract, RequestAbstract, DeleteOldData, DeleteOriginalAbstract DEF CommitStep
<1>6. CASE UNCHANGED vars
  <2>1. Versions' = Versions /\ Stores' = Stores /\ inPlace' = inPlace
    BY <1>6 DEF vars, Versions, Stores, Sound, Exists
  <2> QED BY <2>1 DEF Copies!vars
<1> QED BY <1>1, <1>2, <1>3, <1>4, <1>5, <1>6 DEF Next

\* The staging area implements WriteBack: the phone's copy of a file goes from one complete
\* version to the then current one, in a single step unless the phone has refused to rename it,
\* whatever fails and overlaps (replace_remote).
THEOREM Implements ==
  Spec => StoreSpec
<1>1. Init => Copies!Init
  BY DEF Init, Copies!Init, Versions, Stores, Sound
<1>2. DataInv /\ TypeInv' /\ [Next]_vars => [Copies!Next]_(Copies!vars)
  BY StoreStep
<1> QED BY <1>1, <1>2, DataAlways, TypeAlways, PTL DEF Spec, StoreSpec, Copies!Spec

-----------------------------------------------------------------------------
(* Objects under names of the daemon's own.                                *)

Stray(h) == device[h] # None /\ device[h].name \notin Place

\* Those a commit under way will see to: its temporary object until it has the file's name,
\* and the old object while it is the backup.
HoldPC == {"rename_old", "rename_temporary", "restore_old", "give_up", "drop_temporary",
           "delete_old"}
Holding(j, h) ==
  \/ job[j].pc \in HoldPC \ {"delete_old"} /\ h = job[j].temp
  \/ job[j].pc \in {"rename_temporary", "restore_old", "delete_old"} /\ h = Mine(j).remote

\* Those nobody will.
Lost == {h \in Handle : Stray(h) /\ \A j \in Job_ : ~Holding(j, h)}

\* A backup is made only where renaming works.
Renamer(j) == job[j].pc \in {"rename_temporary", "restore_old"} => Renames

LeftInv ==
  /\ TypeInv
  /\ \A j \in Job_ : Renamer(j)
  /\ IsFiniteSet(Lost) /\ Cardinality(Lost) <= MaxFailures - failures

\* Jobs other than j hold what they held.
Leaves(j) == Others(j) /\ \A i \in File : lock[i] \in Job_ \ {j} => file'[i] = file[i]

LEMMA OthersHolding ==
  ASSUME TypeInv, NEW j \in Job_, Leaves(j), NEW k \in Job_ \ {j}, NEW h
  PROVE  (Holding(k, h)' <=> Holding(k, h)) /\ (Renamer(k) => Renamer(k)')
<1>1. job'[k] = job[k]
  BY DEF Leaves, Others
<1>2. job[k].pc \in HoldPC => Mine(k)' = Mine(k)
  <2>1. HoldPC \subseteq CommitPC /\ CommitPC \subseteq FilePC
    BY DEF HoldPC, CommitPC, FilePC
  <2>2. job[k].pc \in HoldPC => Commits(k) /\ job[k].id \in File
    BY <2>1 DEF TypeInv, Fits
  <2> QED BY <1>1, <2>2 DEF Commits, Mine, Leaves
<1> QED BY <1>1, <1>2 DEF Holding, HoldPC, Renamer

\* What is lost by a step of j is what j has let go, and there is one such object at most for
\* a request that fails.
LEMMA LostBy ==
  ASSUME LeftInv, TypeInv', NEW j \in Job_, Leaves(j), Renamer(j)', NEW g,
         failures' <= failures,
         \A h \in Handle : Stray(h)' => \/ Stray(h) /\ ~Holding(j, h)
                                        \/ Holding(j, h)'
                                        \/ h = g /\ failures' = failures - 1
  PROVE  LeftInv'
<1>0. /\ MaxFailures \in Nat /\ failures \in Nat /\ failures' \in Nat
  BY BoundAssumption, FrameTypes DEF LeftInv, TypeInv, Typed, TypeOK
<1>1. \A k \in Job_ : Renamer(k)'
  BY OthersHolding DEF LeftInv
<1>2. ASSUME NEW h \in Lost'
      PROVE  h \in Lost \/ (h = g /\ failures' = failures - 1)
  <2>1. h \in Handle /\ Stray(h)' /\ \A k \in Job_ : ~Holding(k, h)'
    BY DEF Lost
  <2>2. \A k \in Job_ \ {j} : ~Holding(k, h)
    BY <2>1, OthersHolding DEF LeftInv
  <2> QED BY <2>1, <2>2 DEF Lost
<1>3. /\ IsFiniteSet(Lost) /\ Cardinality(Lost) \in Nat
      /\ Cardinality(Lost) <= MaxFailures - failures
  BY FS_CardinalityType DEF LeftInv
<1>4. CASE Lost' \subseteq Lost
  <2>1. IsFiniteSet(Lost') /\ Cardinality(Lost') <= Cardinality(Lost)
    BY <1>3, <1>4, FS_Subset
  <2>2. Cardinality(Lost') \in Nat
    BY <2>1, FS_CardinalityType
  <2> QED BY <1>0, <1>1, <1>3, <2>1, <2>2 DEF LeftInv
<1>5. CASE ~(Lost' \subseteq Lost)
  <2>1. failures' = failures - 1 /\ Lost' \subseteq Lost \cup {g}
    BY <1>2, <1>5
  <2>2. /\ IsFiniteSet(Lost \cup {g})
        /\ Cardinality(Lost \cup {g}) <= Cardinality(Lost) + 1
    <3>1. PICK n \in Nat : n = Cardinality(Lost)
      BY <1>3
    <3>2. /\ IsFiniteSet(Lost \cup {g})
          /\ Cardinality(Lost \cup {g}) = IF g \in Lost THEN n ELSE n + 1
      BY <1>3, <3>1, FS_AddElement
    <3> QED BY <3>1, <3>2
  <2>3. IsFiniteSet(Lost') /\ Cardinality(Lost') <= Cardinality(Lost \cup {g})
    BY <2>1, <2>2, FS_Subset
  <2>4. Cardinality(Lost') \in Nat /\ Cardinality(Lost \cup {g}) \in Nat
    BY <2>2, <2>3, FS_CardinalityType
  <2> QED BY <1>0, <1>1, <1>3, <2>1, <2>2, <2>3, <2>4 DEF LeftInv
<1> QED BY <1>4, <1>5

\* Steps of a job that holds nothing before or after.
LEMMA LostCalm ==
  ASSUME LeftInv, TypeInv', NEW j \in Job_, Leaves(j), job[j].pc \notin HoldPC,
         job'[j].pc \notin HoldPC, failures' <= failures,
         \A h \in Handle : Stray(h)' => Stray(h)
  PROVE  LeftInv'
<1>1. (\A h \in Handle : ~Holding(j, h)) /\ Renamer(j)'
  BY DEF Holding, HoldPC, Renamer
<1> QED BY <1>1, LostBy

LEMMA LostTo ==
  ASSUME LeftInv, TypeInv', NEW j \in Job_, NEW pc \in PC \ HoldPC, To(j, pc),
         job[j].pc \notin HoldPC, failures' <= failures,
         \A i \in File : lock[i] \in Job_ \ {j} => file'[i] = file[i],
         \A h \in Handle : Stray(h)' => Stray(h)
  PROVE  LeftInv'
<1>1. Others(j) /\ job'[j].pc = pc
  BY ToType DEF LeftInv, TypeInv
<1> QED BY <1>1, LostCalm DEF Leaves

LEMMA LostAfter ==
  ASSUME LeftInv, TypeInv', NEW j \in Job_, After(j),
         job[j].pc \notin HoldPC, failures' <= failures,
         \A i \in File : lock[i] \in Job_ \ {j} => file'[i] = file[i],
         \A h \in Handle : Stray(h)' => Stray(h)
  PROVE  LeftInv'
<1>1. Others(j) /\ job'[j].pc \notin HoldPC
  BY AfterType DEF LeftInv, TypeInv, HoldPC
<1> QED BY <1>1, LostCalm DEF Leaves

LEMMA LostSet ==
  ASSUME LeftInv, TypeInv', NEW j \in Job_, NEW r, job' = [job EXCEPT ![j] = r],
         r.pc \notin HoldPC, job[j].pc \notin HoldPC, failures' <= failures,
         \A i \in File : lock[i] \in Job_ \ {j} => file'[i] = file[i],
         \A h \in Handle : Stray(h)' => Stray(h)
  PROVE  LeftInv'
<1>1. job'[j] = r /\ Others(j)
  BY ObjectType DEF LeftInv, TypeInv, Others
<1> QED BY <1>1, LostCalm DEF Leaves

LEMMA StrayUnless ==
  ASSUME UNCHANGED device \/ (\E h : device' = [device EXCEPT ![h] = None]), TypeInv
  PROVE  \A h \in Handle : Stray(h)' => Stray(h)
  BY DEF Stray, TypeInv, Typed, TypeOK

\* NFS calls, delayed commits and the flush: none holds anything.
LEMMA LostTalk ==
  ASSUME LeftInv, TypeInv',
         \/ \E j \in Job : \/ \E call \in Call : Found(j, call) \/ Direct(j, call) \/ Describe(j, call)
                           \/ \E timer \in timers : TimerFires(j, timer)
                           \/ Download(j) \/ PublishedMeanwhile(j) \/ Schedule(j)
                           \/ Unmap(j) \/ Unlink(j)
         \/ FlushStarts \/ \E id \in File : FlushNext(id)
         \/ \E j \in Job_ : BeginCommit(j)
  PROVE  LeftInv'
<1> DEFINE Frame == UNCHANGED <<device, file, failures>>
<1>0. /\ TypeInv /\ Typed /\ (\A j \in Job_ : job[j] \in JobType) /\ failures \in Nat
      /\ \A j \in Job_ : job' = job => job' = [job EXCEPT ![j] = job[j]]
      /\ Frame => /\ failures' <= failures
                  /\ \A i \in File : file'[i] = file[i]
                  /\ \A h \in Handle : Stray(h)' => Stray(h)
  BY ObjectType, BoundAssumption DEF LeftInv, TypeInv, Stray, Typed, TypeOK
<1>1. ASSUME NEW j \in Job, NEW call \in Call, Found(j, call) \/ Direct(j, call) \/ Describe(j, call)
      PROVE  LeftInv'
  <2> DEFINE r == [job[j] EXCEPT !.pc = call.op, !.call = call, !.id = Overlay(call.node)]
             d == [job[j] EXCEPT !.pc = "direct", !.call = call]
             e == [job[j] EXCEPT !.pc = "download", !.call = call, !.name = device[call.node].name]
  <2>1. j \in Job_ /\ call.op \notin HoldPC
    BY CallType DEF Job_, HoldPC
  <2>2. r.pc \notin HoldPC /\ d.pc \notin HoldPC /\ e.pc \notin HoldPC
    BY <1>0, <2>1, SMTT(30) DEF JobType, HoldPC
  <2>3. /\ job[j].pc \notin HoldPC /\ Frame
        /\ \/ job' = [job EXCEPT ![j] = r] \/ job' = [job EXCEPT ![j] = d]
           \/ job' = [job EXCEPT ![j] = e]
    BY <1>1 DEF Found, Direct, Describe, Arrives, area, HoldPC
  <2> HIDE DEF r, d, e, Frame
  <2> QED BY <1>0, <2>1, <2>2, <2>3, LostSet
<1>2. ASSUME NEW j \in Job, NEW timer \in timers, TimerFires(j, timer)
      PROVE  LeftInv'
  <2> DEFINE r == [job[j] EXCEPT !.pc = "commit", !.id = timer.id]
  <2>1. /\ j \in Job_ /\ job[j].pc \notin HoldPC /\ Frame
        /\ job' = [job EXCEPT ![j] = r] \/ job' = [job EXCEPT ![j] = job[j]]
    BY <1>0, <1>2 DEF TimerFires, Job_, HoldPC
  <2>2. r.pc \notin HoldPC
    BY <1>0, <2>1 DEF JobType, HoldPC
  <2> HIDE DEF r, Frame
  <2> QED BY <1>0, <2>1, <2>2, LostSet
<1>3. ASSUME NEW j \in Job, Download(j) PROVE LeftInv'
  <2> DEFINE r == [job[j] EXCEPT !.pc = "publish", !.data = device[job[j].call.node].data]
  <2>1. /\ j \in Job_ /\ job[j].pc \notin HoldPC /\ Frame
        /\ job' = [job EXCEPT ![j] = r] \/ After(j)
    BY <1>3 DEF Download, Job_, area, HoldPC
  <2>2. r.pc \notin HoldPC
    BY <1>0, <2>1 DEF JobType, HoldPC
  <2> HIDE DEF r, Frame
  <2> QED BY <1>0, <2>1, <2>2, LostSet, LostAfter
<1>4. ASSUME NEW j \in Job, PublishedMeanwhile(j) PROVE LeftInv'
  <2> DEFINE r == [job[j] EXCEPT !.pc = "write", !.id = origins[job[j].call.node]]
  <2>1. /\ j \in Job_ /\ job[j].pc \notin HoldPC /\ Frame
        /\ job' = [job EXCEPT ![j] = r] \/ After(j)
    BY <1>4 DEF PublishedMeanwhile, Job_, area, HoldPC
  <2>2. r.pc \notin HoldPC
    BY <1>0, <2>1 DEF JobType, HoldPC
  <2> HIDE DEF r, Frame
  <2> QED BY <1>0, <2>1, <2>2, LostSet, LostAfter
<1>5. ASSUME NEW j \in Job, Schedule(j) \/ Unmap(j) \/ Unlink(j) PROVE LeftInv'
  <2>1. j \in Job_ /\ (After(j) \/ To(j, "unlink")) /\ "unlink" \in PC \ HoldPC
    BY <1>5 DEF Schedule, Unmap, Unlink, Job_, HoldPC, PC
  <2>2. Frame /\ job[j].pc \notin HoldPC
    BY <1>5 DEF Schedule, Unmap, Unlink, HoldPC
  <2> HIDE DEF Frame
  <2> QED BY <1>0, <2>1, <2>2, LostAfter, LostTo
<1>6. CASE FlushStarts
  <2> DEFINE j == Discovery
             r == [job[j] EXCEPT !.pc = "flush", !.todo = files]
  <2>1. /\ j \in Job_ /\ job[j].pc \notin HoldPC /\ Frame
        /\ job' = [job EXCEPT ![j] = r]
    BY <1>6 DEF FlushStarts, Job_, area, HoldPC
  <2>2. r.pc \notin HoldPC
    BY <1>0, <2>1 DEF JobType, HoldPC
  <2> HIDE DEF r, j, Frame
  <2> QED BY <1>0, <2>1, <2>2, LostSet
<1>7. ASSUME NEW id \in File, FlushNext(id) PROVE LeftInv'
  <2> DEFINE j == Discovery
             rest == job[j].todo \ {id}
             c == [job[j] EXCEPT !.pc = "commit", !.id = id, !.todo = rest]
             d == [job[j] EXCEPT !.todo = rest]
  <2>1. /\ j \in Job_ /\ job[j].pc = "flush" /\ Frame
        /\ \/ job' = [job EXCEPT ![j] = c] \/ job' = [job EXCEPT ![j] = d]
           \/ job' = [job EXCEPT ![j] = IdleJob]
    BY <1>0, <1>7 DEF FlushNext, Job_, area, Typed, TypeOK
  <2>2. /\ c.pc \notin HoldPC /\ d.pc \notin HoldPC /\ IdleJob.pc \notin HoldPC
        /\ job[j].pc \notin HoldPC
    BY <1>0, <2>1, IdleType DEF JobType, HoldPC
  <2> HIDE DEF c, d, j, Frame
  <2> QED BY <1>0, <2>1, <2>2, LostSet
<1>8. ASSUME NEW j \in Job_, BeginCommit(j) PROVE LeftInv'
  <2> DEFINE pc == IF Mine(j).remote = None THEN "upload" ELSE "upload_temporary"
  <2>1. job[j].pc \notin HoldPC /\ Frame /\ To(j, pc)
    BY <1>8 DEF BeginCommit, area, HoldPC
  <2>2. pc \in PC \ HoldPC
    BY DEF PC, HoldPC
  <2> HIDE DEF pc, Frame
  <2> QED BY <1>0, <2>1, <2>2, LostTo
<1> HIDE DEF Frame
<1> QED BY <1>1, <1>2, <1>3, <1>4, <1>5, <1>6, <1>7, <1>8

\* Steps on the state of a file whose lock nobody has.
LEMMA LostEdit ==
  ASSUME LeftInv, TypeInv', NEW j \in Job_, Write(j) \/ Rename(j) \/ CommitLocally(j)
  PROVE  LeftInv'
<1>0. /\ TypeInv /\ Typed /\ job[j].pc \in FilePC /\ job[j].pc \notin HoldPC
      /\ UNCHANGED <<device, failures>> /\ failures \in Nat
      /\ job[j].id \in File /\ lock[job[j].id] = None
  <2>1. job[j].pc \in {"write", "rename", "commit"} /\ Locks(j)
    BY DEF Write, Rename, CommitLocally
  <2>2. job[j].pc \in FilePC /\ job[j].pc \notin HoldPC
    BY <2>1 DEF FilePC, HoldPC
  <2>3. TypeInv /\ UNCHANGED <<device, failures>> /\ failures \in Nat
    BY FrameTypes, BoundAssumption DEF LeftInv, TypeInv, Write, Rename, CommitLocally
  <2> QED BY <2>1, <2>2, <2>3, MineType DEF Locks
<1>1. file' = file \/ \E f : file' = [file EXCEPT ![job[j].id] = f]
  BY DEF Write, Rename, CommitLocally, Update
<1>2. /\ \A i \in File : lock[i] \in Job_ \ {j} => file'[i] = file[i]
      /\ \A h \in Handle : Stray(h)' => Stray(h)
      /\ failures' <= failures
  BY <1>0, <1>1, JobAssumption DEF Job_, Typed, TypeOK, Stray
<1>3. CASE After(j)
  BY <1>0, <1>2, <1>3, LostAfter
<1>4. CASE \E pc \in {"schedule", "commit"} : To(j, pc)
  BY <1>0, <1>2, <1>4, LostTo DEF PC, HoldPC
<1>5. CASE Write(j) /\ ~After(j)
  <2>1. job[j].call.op = "write" /\ job[j].call \in Call
    BY <1>0, <1>5, MineType DEF Write, Fits, JobType
  <2>2. job[j].call.then \in {"schedule", "commit"} /\ To(j, job[j].call.then)
    BY <1>5, <2>1, CallType DEF Write
  <2> QED BY <1>4, <2>2
<1> QED BY <1>3, <1>4, <1>5 DEF Rename, CommitLocally

LEMMA LostCreate ==
  ASSUME LeftInv, TypeInv', NEW name \in Place, Create(name) PROVE LeftInv'
<1> DEFINE j == Discovery
<1>0. /\ Typed /\ j \in Job_ /\ NewFile \in File /\ file[NewFile] = None
      /\ UNCHANGED <<device, lock, job, failures>> /\ failures \in Nat
  BY NewFileType, FrameTypes, BoundAssumption DEF Create, LeftInv, TypeInv, Job_
<1>7. PICK f : file' = [file EXCEPT ![NewFile] = f]
  BY Zenon DEF Create
<1>1. \A i \in File : file[i] # None => file'[i] = file[i]
  BY <1>0, <1>7 DEF Typed, TypeOK
<1>2. \A i \in File : lock[i] \in Job_ => file[i] # None
  BY <1>0, JobAssumption DEF Typed, Job_
<1>3. Leaves(j) /\ Renamer(j)'
  BY <1>0, <1>1, <1>2 DEF Leaves, Others, Renamer, LeftInv
<1>4. \A h \in Handle : Holding(j, h) => Holding(j, h)'
  <2>1. job[j].pc \in HoldPC => job[j].id \in File /\ file[job[j].id] # None
    BY <1>0 DEF LeftInv, TypeInv, Fits, FilePC, CommitPC, HoldPC
  <2> QED BY <1>0, <1>1, <2>1 DEF Holding, Mine, HoldPC
<1>5. \A h \in Handle : Stray(h)' => Stray(h)
  BY <1>0 DEF Stray
<1>6. failures' <= failures
  BY <1>0
<1> HIDE DEF j
<1> QED BY <1>0, <1>3, <1>4, <1>5, <1>6, LostBy

LEMMA LostPublish ==
  ASSUME LeftInv, TypeInv', NEW j \in Job, Publish(j) PROVE LeftInv'
<1> DEFINE r == [job[j] EXCEPT !.pc = "write", !.id = NewFile]
<1>0. /\ Typed /\ j \in Job_ /\ NewFile \in File /\ file[NewFile] = None
      /\ failures \in Nat /\ job[j].pc = "publish" /\ job[j] \in JobType
  BY NewFileType, FrameTypes, ObjectType, BoundAssumption DEF Publish, LeftInv, TypeInv, Job_
<1>4. UNCHANGED <<device, lock, failures>> /\ job' = [job EXCEPT ![j] = r]
  BY DEF Publish
<1>5. PICK f : file' = [file EXCEPT ![NewFile] = f]
  BY Zenon DEF Publish
<1>1. \A i \in File : lock[i] \in Job_ => file'[i] = file[i]
  BY <1>0, <1>4, <1>5, JobAssumption DEF Typed, TypeOK, Job_
<1>2. r.pc \notin HoldPC /\ job[j].pc \notin HoldPC
  BY <1>0 DEF JobType, HoldPC
<1>3. failures' <= failures /\ \A h \in Handle : Stray(h)' => Stray(h)
  BY <1>0, <1>4 DEF Stray
<1> HIDE DEF r
<1> QED BY <1>0, <1>4, <1>1, <1>2, <1>3, LostSet

\* The requests of calls: what they leave on the phone has a client's name.
LEMMA LostReaches ==
  ASSUME LeftInv, TypeInv', NEW j \in Job, Reaches(j) PROVE LeftInv'
<1>0. /\ Typed /\ Fits(j) /\ j \in Job_ /\ job[j].pc = "direct" /\ After(j)
      /\ job[j].pc \notin HoldPC /\ UNCHANGED <<file, failures>> /\ failures \in Nat
  BY FrameTypes, BoundAssumption DEF Reaches, LeftInv, TypeInv, Job_, HoldPC, area
<1> DEFINE call == job[j].call
<1>1. call \in Call /\ call.node \in Handle /\ call.op \in {"remove", "rename"}
  BY <1>0, ObjectType DEF Fits, JobType
<1>2. \A h \in Handle : Stray(h)' => Stray(h)
  <2>1. CASE ~Exists(call.node)
    BY <2>1 DEF Reaches, Stray
  <2>2. CASE Exists(call.node) /\ call.op = "remove"
    BY <1>0, <2>2 DEF Reaches, Stray, Typed, TypeOK
  <2>3. CASE Exists(call.node) /\ call.op = "rename"
    <3>1. call.name \in Place
      BY <1>1, <2>3, CallType
    <3>2. device' = [device EXCEPT ![call.node].name = call.name]
      BY <1>1, <2>3 DEF Reaches
    <3>3. device'[call.node].name = call.name
      BY <1>0, <1>1, <2>3, <3>1, <3>2, NamedTyped DEF Exists, Name
    <3>4. \A h \in Handle : h # call.node => device'[h] = device[h]
      BY <1>0, <3>2 DEF Typed, TypeOK
    <3> HIDE DEF call
    <3> QED BY <3>1, <3>3, <3>4 DEF Stray
  <2> QED BY <1>1, <2>1, <2>2, <2>3
<1>3. failures' <= failures
  BY <1>0
<1> QED BY <1>0, <1>2, <1>3, LostAfter

LEMMA LostRemove ==
  ASSUME LeftInv, TypeInv', NEW j \in Job, Remove(j) PROVE LeftInv'
<1>0. /\ TypeInv /\ Typed /\ j \in Job_ /\ job[j].pc \notin HoldPC /\ UNCHANGED file
      /\ failures \in Nat /\ "unmap" \in PC \ HoldPC
  BY FrameTypes, BoundAssumption DEF Remove, LeftInv, TypeInv, Job_, HoldPC, area, PC
<1>1. failures' <= failures
  BY <1>0 DEF Remove, Breaks
<1>2. \A h \in Handle : Stray(h)' => Stray(h)
  BY <1>0, StrayUnless DEF Remove
<1> QED BY <1>0, <1>1, <1>2, LostAfter, LostTo DEF Remove

-----------------------------------------------------------------------------
(* The requests of a commit.                                               *)

\* What a commit's next position makes of what it holds.
LEMMA HoldingTo ==
  ASSUME TypeInv, NEW j \in Job_, NEW pc \in PC, To(j, pc), UNCHANGED file
  PROVE  /\ Leaves(j) /\ job'[j].pc = pc /\ Mine(j)' = Mine(j) /\ job'[j].temp = job[j].temp
         /\ (pc \in {"rename_temporary", "restore_old"} => Renames) => Renamer(j)'
         /\ \A h : Holding(j, h)' <=>
              \/ pc \in HoldPC \ {"delete_old"} /\ h = job[j].temp
              \/ pc \in {"rename_temporary", "restore_old", "delete_old"} /\ h = Mine(j).remote
<1>1. Others(j) /\ job'[j].pc = pc /\ Same(j)
  BY ToType DEF TypeInv
<1> QED BY <1>1 DEF Leaves, Same, Mine, Renamer, Holding

\* A request to rename ends in one of three ways.
LEMMA RequestEnds ==
  ASSUME TypeInv, NEW h \in Handle, NEW name \in Name, NEW request, NEW done, NEW failed,
         Requests(h, name, request, done, failed)
  PROVE  /\ \/ /\ Renames /\ device[h] # None /\ done /\ failures' = failures
               /\ device'[h].name = name
               /\ \A g \in Handle : g # h => device'[g] = device[g]
            \/ /\ failed /\ device' = device /\ failures' = failures
               /\ Renames => device[h] = None
            \/ failed /\ device' = device /\ failures' = failures - 1
         /\ failures' <= failures /\ failures \in Nat
<1>1. Typed /\ failures \in Nat
  BY FrameTypes, BoundAssumption DEF TypeInv
<1>2. CASE /\ Renames /\ Exists(h) /\ device' = [device EXCEPT ![h].name = name]
           /\ done /\ UNCHANGED failures
  <2>1. device[h] # None
    BY <1>2 DEF Exists
  <2>2. device'[h].name = name
    BY <1>1, <1>2, <2>1, NamedTyped
  <2>3. \A g \in Handle : g # h => device'[g] = device[g]
    BY <1>1, <1>2 DEF Typed, TypeOK
  <2> QED BY <1>1, <1>2, <2>1, <2>2, <2>3
<1>3. CASE /\ IF Renames /\ Exists(h) THEN Breaks(request) ELSE UNCHANGED failures
           /\ failed /\ UNCHANGED device
  <2>1. Exists(h) <=> device[h] # None
    BY SentinelAssumption DEF Exists
  <2> QED BY <1>1, <1>3, <2>1 DEF Breaks
<1> QED BY <1>2, <1>3 DEF Requests

LEMMA DeletionEnds ==
  ASSUME TypeInv, NEW h \in Handle, NEW done, Deletes(h, done, done)
  PROVE  /\ done /\ failures' <= failures /\ failures \in Nat
         /\ \A g \in Handle : Stray(g)' => Stray(g) /\ (g = h => failures' = failures - 1)
<1>1. Typed /\ failures \in Nat
  BY FrameTypes, BoundAssumption DEF TypeInv
<1>2. CASE device' = [device EXCEPT ![h] = None] /\ done /\ UNCHANGED failures
  <2>1. device'[h] = None /\ \A g \in Handle : g # h => device'[g] = device[g]
    BY <1>1, <1>2 DEF Typed, TypeOK
  <2> QED BY <1>1, <1>2, <2>1 DEF Stray
<1>3. CASE /\ IF Exists(h) THEN Breaks("delete") ELSE UNCHANGED failures
           /\ done /\ UNCHANGED device
  <2>1. Exists(h) <=> device[h] # None
    BY SentinelAssumption DEF Exists
  <2> QED BY <1>1, <1>3, <2>1 DEF Breaks, Stray
<1> QED BY <1>2, <1>3 DEF Deletes

LEMMA LostUploadTemporary ==
  ASSUME LeftInv, TypeInv', NEW j \in Job_, UploadTemporary(j) PROVE LeftInv'
<1>0. /\ TypeInv /\ Typed /\ job[j].pc = "upload_temporary" /\ job[j].pc \in CommitPC
      /\ job[j].pc \in FilePC /\ job[j].pc \notin HoldPC /\ "upload" \in Name
      /\ failures \in Nat /\ UNCHANGED file
  BY FrameTypes, BoundAssumption DEF UploadTemporary, LeftInv, TypeInv, CommitPC, FilePC, HoldPC,
                                     Name, Abort, area
<1>1. CASE /\ Uploads(j, "upload") /\ UNCHANGED <<area, lock, committed, inPlace>>
           /\ job' = [job EXCEPT ![j].pc = "rename_old", ![j].temp = NewHandle]
  <2> DEFINE r == [job[j] EXCEPT !.pc = "rename_old", !.temp = NewHandle]
  <2>0. PICK n : n = NewHandle
    OBVIOUS
  <2>1. \A h \in Handle : h # n => device'[h] = device[h]
    BY <1>0, <1>1, <2>0, CopiedTyped DEF Uploads
  <2>2. r.pc = "rename_old" /\ r.temp = n
    BY <1>0, <2>0, ObjectType DEF JobType
  <2>3. job' = [job EXCEPT ![j] = r]
    BY <1>1
  <2> HIDE DEF r
  <2>4. job'[j] = r /\ Others(j)
    BY <1>0, <2>3, ObjectType DEF Others
  <2>5. Leaves(j) /\ Renamer(j)' /\ Holding(j, n)'
    BY <1>0, <2>2, <2>4 DEF Leaves, Renamer, Holding, HoldPC
  <2>6. \A h \in Handle : ~Holding(j, h)
    BY <1>0 DEF Holding, HoldPC
  <2>7. \A h \in Handle : h # n => (Stray(h)' => Stray(h))
    BY <2>1 DEF Stray
  <2>8. failures' <= failures
    BY <1>0, <1>1 DEF Uploads
  <2> QED BY <2>5, <2>6, <2>7, <2>8, LostBy
<1>2. CASE Fails(j, None) /\ device' = device
  <2>1. After(j) /\ failures' <= failures /\ \A h \in Handle : Stray(h)' => Stray(h)
    BY <1>0, <1>2 DEF Fails, Abort, Breaks, Stray
  <2> QED BY <1>0, <2>1, LostAfter
<1> QED BY <1>0, <1>1, <1>2, UploadTemporarySteps

\* What a commit finishes with: the others' files stay.
LEMMA FinishLeaves ==
  ASSUME TypeInv, NEW j \in Job_, job[j].pc \in CommitPC, NEW h \in Handle, Finish(j, h),
         PhoneTyped', failures' \in 0 .. MaxFailures, UNCHANGED <<calls, crossed>>
  PROVE  Leaves(j) /\ job'[j].pc \in {"idle", "flush"}
<1>1. lock[job[j].id] = j
  BY CommitHas DEF Commits
<1> QED BY <1>1, FinishType DEF Leaves

LEMMA LostUpload ==
  ASSUME LeftInv, TypeInv', NEW j \in Job_, Upload(j) PROVE LeftInv'
<1>0. /\ TypeInv /\ Typed /\ job[j].pc \in CommitPC /\ job[j].pc \in FilePC
      /\ job[j].pc \notin HoldPC /\ failures \in Nat
  BY FrameTypes, BoundAssumption DEF Upload, LeftInv, TypeInv, CommitPC, FilePC, HoldPC
<1>1. CASE Uploads(j, Mine(j).name) /\ Finish(j, NewHandle)
  <2>1. Mine(j) \in Staged
    BY <1>0, MineType
  <2>2. Mine(j).name \in Place /\ Mine(j).name \in Name
    BY <2>1 DEF Staged, Name
  <2>3. /\ PhoneTyped' /\ NewHandle \in Handle
        /\ device'[NewHandle] = [name |-> Mine(j).name, data |-> Mine(j).content]
        /\ \A h \in Handle : h # NewHandle => device'[h] = device[h]
    BY <1>0, <1>1, <2>2, CopiedTyped DEF Uploads
  <2>4. device'[NewHandle].name = Mine(j).name
    BY <2>3
  <2>5. \A h \in Handle : Stray(h)' => Stray(h)
    BY <2>2, <2>3, <2>4 DEF Stray
  <2>6. failures' \in 0 .. MaxFailures /\ failures' <= failures /\ UNCHANGED <<calls, crossed>>
    BY <1>0, <1>1, FrameTypes DEF Uploads
  <2>7. Leaves(j) /\ job'[j].pc \in {"idle", "flush"}
    BY <1>0, <1>1, <2>3, <2>6, FinishLeaves
  <2> QED BY <1>0, <2>5, <2>6, <2>7, LostCalm DEF HoldPC
<1>2. CASE Fails(j, None) /\ device' = device
  <2>1. /\ After(j) /\ failures' <= failures /\ \A h \in Handle : Stray(h)' => Stray(h)
        /\ UNCHANGED file
    BY <1>0, <1>2 DEF Fails, Abort, Breaks, Stray, area
  <2> QED BY <1>0, <2>1, LostAfter
<1> QED BY <1>0, <1>1, <1>2, UploadSteps

\* A request of a commit that leads to another: the object it is about is held, or not the
\* daemon's own any more, or the request has failed.
LEMMA LostRenaming ==
  ASSUME LeftInv, TypeInv', NEW j \in Job_,
         RenameOld(j) \/ RenameTemporary(j) \/ RestoreOld(j)
  PROVE  LeftInv'
<1> DEFINE h == Mine(j).remote
           t == job[j].temp
<1>0. /\ TypeInv /\ Typed /\ job[j].pc \in CommitPC /\ job[j].pc \notin {"upload", "upload_temporary"}
      /\ job[j].pc \in FilePC /\ UNCHANGED file /\ "backup" \in Name
  BY DEF LeftInv, TypeInv, RenameOld, RenameTemporary, RestoreOld, CommitPC, FilePC, area, Name
<1>1. /\ h \in Handle /\ t \in Handle /\ Mine(j).name \in Place /\ Mine(j).name \in Name
      /\ "backup" \in Name
  <2>1. Mine(j) \in Staged
    BY <1>0, MineType
  <2> QED BY <1>0, <2>1, CommitHas DEF Staged, Name
<1>2. "rename_temporary" \in PC /\ "drop_temporary" \in PC /\ "delete_old" \in PC
      /\ "restore_old" \in PC /\ "give_up" \in PC
  BY DEF PC
<1> HIDE DEF h, t
<1>3. CASE RenameOld(j)
  <2>1. /\ job[j].pc = "rename_old"
        /\ Requests(h, "backup", "backup", To(j, "rename_temporary"), To(j, "drop_temporary"))
    BY <1>3 DEF RenameOld, Requests, h
  <2>2. \A g : Holding(j, g) <=> g = t
    BY <2>1 DEF Holding, HoldPC, t
  <2>3. CASE /\ Renames /\ To(j, "rename_temporary") /\ failures' = failures
             /\ \A g \in Handle : g # h => device'[g] = device[g]
    <3>1. Leaves(j) /\ Renamer(j)' /\ \A g : Holding(j, g)' <=> g = t \/ g = h
      BY <1>0, <1>2, <2>3, HoldingTo DEF HoldPC, h, t
    <3>2. \A g \in Handle : Stray(g)' => Stray(g) \/ g = h
      BY <2>3 DEF Stray
    <3>3. failures' <= failures
      BY <1>0, <2>3, BoundAssumption, FrameTypes
    <3> QED BY <2>2, <3>1, <3>2, <3>3, LostBy
  <2>4. CASE /\ To(j, "drop_temporary") /\ device' = device /\ failures' <= failures
    <3>1. Leaves(j) /\ Renamer(j)' /\ \A g : Holding(j, g)' <=> g = t
      BY <1>0, <1>2, <2>4, HoldingTo DEF HoldPC, t
    <3>2. \A g \in Handle : Stray(g)' => Stray(g)
      BY <2>4 DEF Stray
    <3> QED BY <2>2, <2>4, <3>1, <3>2, LostBy
  <2> QED BY <1>0, <1>1, <2>1, <2>3, <2>4, RequestEnds
<1>4. CASE RenameTemporary(j)
  <2>1. /\ job[j].pc = "rename_temporary" /\ Renames
        /\ Requests(t, Mine(j).name, "promote", To(j, "delete_old"), To(j, "restore_old"))
    BY <1>4 DEF RenameTemporary, t, LeftInv, Renamer
  <2>2. \A g : Holding(j, g) <=> g = t \/ g = h
    BY <2>1 DEF Holding, HoldPC, t, h
  <2>3. CASE /\ To(j, "delete_old") /\ failures' = failures /\ device'[t].name = Mine(j).name
             /\ \A g \in Handle : g # t => device'[g] = device[g]
    <3>1. Leaves(j) /\ Renamer(j)' /\ \A g : Holding(j, g)' <=> g = h
      BY <1>0, <1>2, <2>1, <2>3, HoldingTo DEF HoldPC, h
    <3>2. \A g \in Handle : Stray(g)' => Stray(g) /\ g # t
      BY <1>1, <2>3 DEF Stray
    <3>3. failures' <= failures
      BY <1>0, <2>3, BoundAssumption, FrameTypes
    <3> QED BY <2>2, <3>1, <3>2, <3>3, LostBy
  <2>4. CASE /\ To(j, "restore_old") /\ device' = device /\ failures' <= failures
    <3>1. Leaves(j) /\ Renamer(j)' /\ \A g : Holding(j, g)' <=> g = t \/ g = h
      BY <1>0, <1>2, <2>1, <2>4, HoldingTo DEF HoldPC, t, h
    <3>2. \A g \in Handle : Stray(g)' => Stray(g)
      BY <2>4 DEF Stray
    <3> QED BY <2>2, <2>4, <3>1, <3>2, LostBy
  <2> QED BY <1>0, <1>1, <2>1, <2>3, <2>4, RequestEnds
<1>5. CASE RestoreOld(j)
  <2>1. /\ job[j].pc = "restore_old" /\ Renames
        /\ Requests(h, Mine(j).name, "restore", To(j, "give_up"), To(j, "give_up"))
    BY <1>5 DEF RestoreOld, h, LeftInv, Renamer
  <2>2. \A g : Holding(j, g) <=> g = t \/ g = h
    BY <2>1 DEF Holding, HoldPC, t, h
  <2>3. /\ To(j, "give_up") /\ failures' <= failures
        /\ \A g \in Handle : Stray(g)' => Stray(g) /\ (g = h => failures' = failures - 1)
    BY <1>0, <1>1, <2>1, RequestEnds DEF Stray
  <2>4. Leaves(j) /\ Renamer(j)' /\ \A g : Holding(j, g)' <=> g = t
    BY <1>0, <1>2, <2>3, HoldingTo DEF HoldPC, t
  <2> QED BY <2>2, <2>3, <2>4, LostBy
<1> QED BY <1>3, <1>4, <1>5

LEMMA LostDeletion ==
  ASSUME LeftInv, TypeInv', NEW j \in Job_,
         GiveUp(j) \/ DropTemporary(j) \/ DeleteOld(j) \/ DeleteOriginal(j)
  PROVE  LeftInv'
<1> DEFINE h == Mine(j).remote
           t == job[j].temp
<1>0. /\ TypeInv /\ Typed /\ job[j].pc \in CommitPC /\ job[j].pc \notin {"upload", "upload_temporary"}
      /\ "delete_original" \in PC /\ "upload_again" \in PC
  BY DEF LeftInv, TypeInv, GiveUp, DropTemporary, DeleteOld, DeleteOriginal, CommitPC, PC
<1>1. h \in Handle /\ t \in Handle
  BY <1>0, CommitHas
<1> HIDE DEF h, t
<1>2. CASE GiveUp(j)
  <2>1. job[j].pc = "give_up" /\ Deletes(t, Abort(j), Abort(j))
    BY <1>2 DEF GiveUp, t
  <2>2. Abort(j) /\ failures' <= failures
        /\ \A g \in Handle : Stray(g)' => Stray(g) /\ (g = t => failures' = failures - 1)
    BY <1>0, <1>1, <2>1, DeletionEnds
  <2>3. Others(j) /\ job'[j].pc \in {"idle", "flush"} /\ UNCHANGED file
    BY <1>0, <2>2, AfterType DEF Abort, area
  <2>4. Leaves(j) /\ Renamer(j)' /\ \A g : Holding(j, g) <=> g = t
    BY <2>1, <2>3 DEF Leaves, Renamer, Holding, HoldPC, t
  <2> QED BY <2>2, <2>4, LostBy
<1>3. CASE DropTemporary(j)
  <2>1. /\ job[j].pc = "drop_temporary" /\ UNCHANGED file
        /\ Deletes(t, To(j, "delete_original"), To(j, "delete_original"))
    BY <1>3 DEF DropTemporary, t, area
  <2>2. To(j, "delete_original") /\ failures' <= failures
        /\ \A g \in Handle : Stray(g)' => Stray(g) /\ (g = t => failures' = failures - 1)
    BY <1>0, <1>1, <2>1, DeletionEnds
  <2>3. Leaves(j) /\ Renamer(j)'
    BY <1>0, <2>1, <2>2, HoldingTo
  <2>4. \A g : Holding(j, g) <=> g = t
    BY <2>1 DEF Holding, HoldPC, t
  <2> QED BY <2>2, <2>3, <2>4, LostBy
<1>4. CASE DeleteOld(j)
  <2>1. job[j].pc = "delete_old" /\ Deletes(h, Finish(j, t), Finish(j, t))
    BY <1>4 DEF DeleteOld, h, t
  <2>2. Finish(j, t) /\ failures' <= failures
        /\ \A g \in Handle : Stray(g)' => Stray(g) /\ (g = h => failures' = failures - 1)
    BY <1>0, <1>1, <2>1, DeletionEnds
  <2>3. PhoneTyped' /\ failures' \in 0 .. MaxFailures /\ UNCHANGED <<calls, crossed>>
    BY <1>4 DEF DeleteOld, TypeInv, Typed, TypeOK, PhoneTyped
  <2>4. Leaves(j) /\ job'[j].pc \in {"idle", "flush"}
    BY <1>0, <1>1, <2>2, <2>3, FinishLeaves
  <2>5. Renamer(j)' /\ \A g : Holding(j, g) <=> g = h
    BY <2>1, <2>4 DEF Renamer, Holding, HoldPC, h
  <2> QED BY <2>2, <2>4, <2>5, LostBy
<1>5. CASE DeleteOriginal(j)
  <2>1. /\ job[j].pc \notin HoldPC /\ UNCHANGED file
        /\ After(j) \/ To(j, "upload_again")
        /\ device' = device \/ device' = [device EXCEPT ![h] = None]
        /\ failures' = failures \/ Breaks("delete")
    BY <1>5 DEF DeleteOriginal, Deletes, HoldPC, Abort, area, h
  <2>2. failures' <= failures /\ \A g \in Handle : Stray(g)' => Stray(g)
    BY <1>0, <2>1, StrayUnless, FrameTypes, BoundAssumption DEF Breaks
  <2>3. "upload_again" \in PC \ HoldPC
    BY <1>0 DEF HoldPC
  <2> QED BY <2>1, <2>2, <2>3, LostAfter, LostTo
<1> QED BY <1>2, <1>3, <1>4, <1>5

LEMMA LeftStep ==
  ASSUME LeftInv, [Next]_vars PROVE LeftInv'
<1>0. TypeInv'
  BY TypeStep DEF LeftInv
<1>1. CASE \E n \in Place : Create(n)
  BY <1>0, <1>1, LostCreate
<1>2. CASE \E j \in Job : \/ \E call \in Call : Found(j, call) \/ Direct(j, call) \/ Describe(j, call)
                          \/ \E timer \in timers : TimerFires(j, timer)
  BY <1>0, <1>2, LostTalk
<1>3. ASSUME NEW j \in Job, CallStep(j) PROVE LeftInv'
  <2>1. j \in Job_
    BY DEF Job_
  <2> QED BY <1>0, <1>3, <2>1, LostTalk, LostPublish, LostReaches, LostEdit, LostRemove
          DEF CallStep
<1>4. CASE FlushStarts \/ \E id \in File : FlushNext(id)
  BY <1>0, <1>4, LostTalk
<1>5. ASSUME NEW j \in Job_, CommitStep(j) PROVE LeftInv'
  BY <1>0, <1>5, LostEdit, LostTalk, LostUpload, LostUploadTemporary, LostRenaming,
     LostDeletion DEF CommitStep
<1>6. CASE UNCHANGED vars
  <2>1. Lost' = Lost
    BY <1>6 DEF vars, Lost, Stray, Holding, Mine
  <2> QED BY <1>0, <1>6, <2>1 DEF vars, LeftInv, Renamer
<1> QED BY <1>1, <1>2, <1>3, <1>4, <1>5, <1>6 DEF Next

LEMMA LeftInit ==
  ASSUME Init PROVE LeftInv
<1>1. TypeInv
  BY TypeInit
<1>2. PICK n \in [Original -> Place \ Meta] :
        device = [h \in Handle |-> IF h \in Original THEN [name |-> n[h], data |-> 1] ELSE None]
  BY DEF Init
<1>3. ASSUME NEW h \in Handle PROVE ~Stray(h)
  <2>1. CASE h \in Original
    <3>1. device[h].name = n[h] /\ n[h] \in Place
      BY <1>2, <2>1
    <3> QED BY <3>1 DEF Stray
  <2>2. CASE h \notin Original
    BY <1>2, <2>2 DEF Stray
  <2> QED BY <2>1, <2>2
<1>4. Lost = {}
  BY <1>3 DEF Lost
<1>5. IsFiniteSet(Lost) /\ Cardinality(Lost) = 0
  BY <1>4, FS_EmptySet
<1>6. \A j \in Job_ : Renamer(j)
  BY IdleType DEF Init, Renamer
<1>7. failures = MaxFailures /\ MaxFailures \in Nat
  BY BoundAssumption DEF Init
<1> QED BY <1>1, <1>5, <1>6, <1>7 DEF LeftInv

\* Whatever fails and overlaps, on every phone: once no commit is under way, each temporary or
\* backup object that is left stands for a request that has failed (replace_remote).
THEOREM LeftoverPerFailureAlways ==
  Spec => []LeftoverPerFailure
<1>1. LeftInv => LeftoverPerFailure
  <2> SUFFICES ASSUME LeftInv, \A i \in File : lock[i] = None
               PROVE  Cardinality({h \in Handle : device[h] # None /\ device[h].name \notin Place})
                        <= MaxFailures - failures
    BY DEF LeftoverPerFailure
  <2>1. \A j \in Job_ : job[j].pc \notin CommitPC
    BY JobAssumption DEF LeftInv, TypeInv, Fits, FilePC, Commits, Job_
  <2>2. \A j \in Job_ : job[j].pc \notin HoldPC
    BY <2>1 DEF CommitPC, HoldPC
  <2>3. \A h \in Handle : \A j \in Job_ : ~Holding(j, h)
    BY <2>2 DEF Holding, HoldPC
  <2>4. Lost = {h \in Handle : device[h] # None /\ device[h].name \notin Place}
    BY <2>3 DEF Lost, Stray
  <2> QED BY <2>4 DEF LeftInv
<1>2. LeftInv /\ [Next]_vars => LeftInv'
  BY LeftStep
<1> QED BY <1>1, <1>2, LeftInit, PTL DEF Spec
=============================================================================
