------------------------------ MODULE Staging ------------------------------
(***************************************************************************)
(* The staging area (crates/mtpdrive-core/src/staging.rs) and the NFS      *)
(* procedures that drive it (nfs.rs setattr, write, create, remove, rename,*)
(* commit, schedule_commit, flush_dirty).                                  *)
(*                                                                         *)
(* Writes go to a local copy of the file; a commit uploads the copy as a   *)
(* whole and puts it in the place of the old object with a sequence of MTP *)
(* requests, any of which may fail.  A file's state has a lock, which a    *)
(* commit keeps over all its requests.  A job is one NFS call, one delayed *)
(* commit or the discovery loop's flush.  An action is what a job does     *)
(* between two awaits.                                                     *)
(*                                                                         *)
(* One directory of one storage.  A version of a file is the revision at   *)
(* which it was last written.                                              *)
(***************************************************************************)
EXTENDS Naturals, FiniteSets

CONSTANTS
  File,        \* identifiers of staged files (Uuid)
  Handle,      \* MTP object handles
  Place, Meta, \* file names, and those Finder keeps its metadata under
  Original,    \* the handles of the objects the phone holds at first
  Job,         \* concurrent NFS calls and delayed commits
  Discovery,   \* the discovery loop
  Renames,     \* whether the phone can rename objects
  Failing,     \* the requests of a commit or a removal that may fail
  MaxFailures, \* bound: failed requests
  MaxCalls,    \* bound: NFS calls that change something
  None

ASSUME PlaceAssumption == Meta \subseteq Place /\ Place \cap {"upload", "backup"} = {}
ASSUME HandleAssumption == Original \subseteq Handle /\ Handle \cap File = {}
ASSUME JobAssumption == Discovery \notin Job /\ None \notin Job \cup {Discovery}
ASSUME SentinelAssumption == None \notin File \cup Handle \cup Nat
ASSUME BoundAssumption == MaxFailures \in Nat /\ MaxCalls \in Nat /\ Renames \in BOOLEAN

VARIABLES
  device,    \* the phone's objects
  file,      \* the state of each staged file
  files,     \* StagingArea.files: those that can be found
  disk,      \* those whose local copy exists
  origins,   \* StagingArea.origins: which file overlays an object
  lock,      \* who holds each file's state
  timers,    \* delayed commits, with the revision they are for
  job,       \* each job
  failures, calls,  \* what is left of the bounds
  committed, \* history: the newest version a commit has answered for
  crossed,   \* history: objects an NFS call has removed or renamed on the phone
             \* while another call was staging them
  inPlace    \* history: files whose object the phone has refused to rename, until
             \* a commit of them succeeds: they are replaced in place

area  == <<file, files, disk, origins, timers>>
local == <<files, disk, origins, timers>>
ghost == <<committed, crossed, inPlace>>
vars  == <<device, file, files, disk, origins, lock, timers, job, failures, calls,
           committed, crossed, inPlace>>

Name   == Place \cup {"upload", "backup"}
Object == [name : Name, data : Nat]
Staged == [name : Place, remote : Handle \cup {None}, local_only : BOOLEAN,
           dirty : BOOLEAN, revision : Nat, content : Nat]
Node   == File \cup Handle
Call   == [op : {"write"}, node : Node, then : {"schedule", "commit", "nothing"}]
            \cup [op : {"commit", "remove"}, node : Node]
            \cup [op : {"rename"}, node : Node, name : Place]
            \cup [op : {"flush"}]
Job_   == Job \cup {Discovery}
PC     == {"idle", "download", "publish", "direct", "write", "rename",
           "schedule", "flush", "remove", "unmap", "unlink", "commit", "upload",
           "upload_temporary", "rename_old", "rename_temporary", "restore_old",
           "give_up", "delete_old", "drop_temporary", "delete_original", "upload_again"}

ASSUME RecordAssumption == None \notin Object \cup Staged

NoCall  == [op |-> "flush"]
IdleJob == [pc |-> "idle", call |-> NoCall, id |-> None, temp |-> None,
            name |-> None, data |-> 0, todo |-> {}]

Exists(h) == h # None /\ device[h] # None

\* Handles nobody knows: MTP gives every new object one of these.
Unknown == {h \in Handle : /\ device[h] = None /\ origins[h] = None
                           /\ \A i \in File : file[i] # None => file[i].remote # h
                           /\ \A j \in Job_ : /\ job[j].temp # h
                                              /\ job[j].call.op # "flush" => job[j].call.node # h}
NewHandle == CHOOSE h \in Unknown : TRUE
Unused    == {i \in File : file[i] = None}
NewFile   == CHOOSE i \in Unused : TRUE

-----------------------------------------------------------------------------
(* How a job goes on.                                                      *)

To(j, pc) == job' = [job EXCEPT ![j].pc = pc]

\* Back to commit_all's loop, or done.
After(j) ==
  LET rest == job[j].todo IN
  job' = [job EXCEPT ![j] = IF rest = {} THEN IdleJob
                            ELSE [IdleJob EXCEPT !.pc = "flush", !.todo = rest]]

Mine(j) == file[job[j].id]
Update(j, new) == file' = [file EXCEPT ![job[j].id] = new]
Unlock(j) == lock' = [lock EXCEPT ![job[j].id] = None]

\* A request fails although the phone could have carried it out.
Breaks(request) ==
  /\ request \in Failing /\ failures > 0
  /\ failures' = failures - 1

-----------------------------------------------------------------------------
(* The NFS calls.                                                          *)

\* Nodes a client can have looked up.  Lookups and listings wait for the locks
\* of the staged files, so none shows the temporary object of an unfinished
\* commit under the file's name; clients leave the other `.mtpdrive-` objects alone.
Visible(node) ==
  IF node \in File THEN file[node] # None
  ELSE \/ origins[node] # None
       \/ /\ device[node] # None /\ device[node].name \in Place
          /\ \A j \in Job_ : job[j].temp # node

Arrives(j, call) ==
  /\ job[j].pc = "idle" /\ calls > 0
  /\ call.op # "flush" /\ Visible(call.node)
  /\ calls' = calls - 1
  /\ UNCHANGED <<device, area, lock, failures, ghost>>

\* create, for a name that does not exist: nothing is scheduled.
Create(name) ==
  /\ Unused # {} /\ calls > 0 /\ calls' = calls - 1
  /\ LET id == NewFile IN
     /\ file' = [file EXCEPT ![id] =
          [name |-> name, remote |-> None, local_only |-> name \in Meta,
           dirty |-> TRUE, revision |-> 1, content |-> 1]]
     /\ files' = files \cup {id}
     /\ disk' = disk \cup {id}
  /\ UNCHANGED <<device, origins, lock, timers, job, failures, ghost>>

\* staged_id and StagingArea::get: the file a node stands for, if there is one.
Overlay(node) == IF node \in File THEN node ELSE origins[node]

\* (A call for a file that is gone, and a commit of what is not staged, return
\* at once and change nothing.)
Found(j, call) ==
  LET id == Overlay(call.node) IN
  /\ Arrives(j, call) /\ id \in files
  /\ job' = [job EXCEPT ![j].pc = call.op, ![j].call = call, ![j].id = id]

\* remove and rename of an object that is not staged go to the phone.
Direct(j, call) ==
  /\ Arrives(j, call) /\ call.op \in {"remove", "rename"} /\ Overlay(call.node) = None
  /\ job' = [job EXCEPT ![j].pc = "direct", ![j].call = call]

\* stage_existing, before a write: the object's metadata ...
Describe(j, call) ==
  /\ Arrives(j, call) /\ call.op = "write" /\ Overlay(call.node) = None
  /\ job' = [job EXCEPT ![j].pc = "download", ![j].call = call,
                         ![j].name = device[call.node].name]

\* ... its content ...
Download(j) ==
  LET h == job[j].call.node IN
  /\ job[j].pc = "download"
  /\ IF Exists(h)
     THEN job' = [job EXCEPT ![j].pc = "publish", ![j].data = device[h].data]
     ELSE After(j)
  /\ UNCHANGED <<device, area, lock, failures, calls, ghost>>

NeverOverlaid(h) == TRUE  \* mutant: origins is not looked up again
NotOverlaid(h) == origins[h] = None

\* ... and, under the lock of `origins`, the overlay: one for each object.
Publish(j) ==
  LET h == job[j].call.node
      id == NewFile
  IN
  /\ job[j].pc = "publish" /\ NotOverlaid(h) /\ Unused # {}
  /\ file' = [file EXCEPT ![id] =
       [name |-> job[j].name, remote |-> h, local_only |-> FALSE,
        dirty |-> FALSE, revision |-> job[j].data, content |-> job[j].data]]
  /\ files' = files \cup {id}
  /\ disk' = disk \cup {id}
  /\ origins' = [origins EXCEPT ![h] = id]
  /\ job' = [job EXCEPT ![j].pc = "write", ![j].id = id]
  /\ UNCHANGED <<device, lock, timers, failures, calls, ghost>>

PublishedMeanwhile(j) ==
  LET id == origins[job[j].call.node] IN
  /\ job[j].pc = "publish" /\ ~NotOverlaid(job[j].call.node)
  /\ IF id \in files THEN job' = [job EXCEPT ![j].pc = "write", ![j].id = id]
     ELSE After(j)
  /\ UNCHANGED <<device, area, lock, failures, calls, ghost>>

\* The request for an object that is not staged.
Reaches(j) ==
  LET call == job[j].call IN
  /\ job[j].pc = "direct"
  /\ device' = IF ~Exists(call.node) THEN device
               ELSE IF call.op = "remove" THEN [device EXCEPT ![call.node] = None]
               ELSE [device EXCEPT ![call.node].name = call.name]
  /\ crossed' = crossed \cup
       {h \in {call.node} : \/ origins[h] # None
                            \/ \E k \in Job : /\ job[k].pc \in {"download", "publish"}
                                             /\ job[k].call.node = h}
  /\ After(j)
  /\ UNCHANGED <<area, lock, failures, calls, committed, inPlace>>

-----------------------------------------------------------------------------
(* Staged files: each action waits for the file's lock.                    *)

LockIgnored(j) == TRUE  \* mutant: the write does not wait for a commit under way
Locks(j) == lock[job[j].id] = None

Written(f) == [f EXCEPT !.dirty = TRUE, !.revision = @ + 1, !.content = f.revision + 1]

\* Write or set_len, on the local copy; gone with it.  set_len to the length the
\* copy has changes nothing, and the call goes on.
Write(j) ==
  LET f == Mine(j) IN
  /\ job[j].pc = "write" /\ Locks(j)
  /\ IF job[j].id \in disk
     THEN /\ Update(j, Written(f)) \/ (job[j].call.then # "commit" /\ UNCHANGED file)
          /\ IF job[j].call.then = "nothing" THEN After(j) ELSE To(j, job[j].call.then)
     ELSE After(j) /\ UNCHANGED file
  /\ UNCHANGED <<device, local, lock, failures, calls, ghost>>

RenamedClean(f, name) ==  \* mutant: a rename does not make the file dirty
  [f EXCEPT !.name = name, !.local_only = name \in Meta, !.revision = @ + 1]
RenamedAnew(f, name) ==  \* mutant: the renamed file's revisions start again
  [f EXCEPT !.name = name, !.local_only = name \in Meta, !.dirty = TRUE, !.revision = 1]
Renamed(f, name) ==
  [f EXCEPT !.name = name, !.local_only = name \in Meta, !.dirty = TRUE, !.revision = @ + 1]

Rename(j) ==
  /\ job[j].pc = "rename" /\ Locks(j)
  /\ Update(j, Renamed(Mine(j), job[j].call.name))
  /\ To(j, "schedule")
  /\ UNCHANGED <<device, local, lock, failures, calls, ghost>>

\* schedule_commit: a delayed commit for the revision it sees.
Schedule(j) ==
  /\ job[j].pc = "schedule" /\ Locks(j)
  /\ timers' = IF job[j].id \notin files THEN timers
               ELSE timers \cup {[id |-> job[j].id, revision |-> Mine(j).revision]}
  /\ After(j)
  /\ UNCHANGED <<device, file, files, disk, origins, lock, failures, calls, ghost>>

\* Five seconds later: commit_if_revision, if nothing has changed since.
TimerFires(j, timer) ==
  LET f == file[timer.id] IN
  /\ job[j].pc = "idle" /\ timer \in timers /\ lock[timer.id] = None
  /\ timers' = timers \ {timer}
  /\ job' = IF timer.id \in files /\ f.dirty /\ f.revision = timer.revision
            THEN [job EXCEPT ![j].pc = "commit", ![j].id = timer.id]
            ELSE job
  /\ UNCHANGED <<device, file, files, disk, origins, lock, failures, calls, ghost>>

\* flush_dirty: commit_all's list of files ...
FlushStarts ==
  /\ job[Discovery].pc = "idle" /\ files # {}
  /\ job' = [job EXCEPT ![Discovery].pc = "flush", ![Discovery].todo = files]
  /\ UNCHANGED <<device, area, lock, failures, calls, ghost>>

FlushesClean(id) == id \in files /\ ~file[id].dirty  \* mutant: the test is inverted
Flushes(id) == id \in files /\ file[id].dirty

\* ... and its loop; a failed commit does not end it.
FlushNext(id) ==
  LET j == Discovery
      rest == job[j].todo \ {id}
  IN
  /\ job[j].pc = "flush" /\ id \in job[j].todo /\ lock[id] = None
  /\ job' = [job EXCEPT ![j] =
       IF Flushes(id) THEN [@ EXCEPT !.pc = "commit", !.id = id, !.todo = rest]
       ELSE IF rest = {} THEN IdleJob ELSE [@ EXCEPT !.todo = rest]]
  /\ UNCHANGED <<device, area, lock, failures, calls, ghost>>

\* remove: the phone's copy first, then the map, then the local copy.
Remove(j) ==
  LET f == Mine(j)
      onPhone == f.remote # None /\ ~f.local_only
  IN
  /\ job[j].pc = "remove" /\ Locks(j)
  /\ \/ /\ onPhone => Exists(f.remote)
        /\ device' = IF onPhone THEN [device EXCEPT ![f.remote] = None] ELSE device
        /\ To(j, "unmap")
        /\ UNCHANGED failures
     \/ /\ onPhone
        /\ IF Exists(f.remote) THEN Breaks("delete") ELSE UNCHANGED failures
        /\ After(j)
        /\ UNCHANGED device
  /\ UNCHANGED <<area, lock, calls, ghost>>

Unmap(j) ==
  /\ job[j].pc = "unmap"
  /\ files' = files \ {job[j].id}
  /\ To(j, "unlink")
  /\ UNCHANGED <<device, file, disk, origins, lock, timers, failures, calls, ghost>>

Unlink(j) ==
  /\ job[j].pc = "unlink"
  /\ disk' = disk \ {job[j].id}
  /\ After(j)
  /\ UNCHANGED <<device, file, files, origins, lock, timers, failures, calls, ghost>>

-----------------------------------------------------------------------------
(* commit and replace_remote.                                              *)

\* Nothing to upload: the file is clean, or is kept here only.
CommitLocally(j) ==
  LET f == Mine(j) IN
  /\ job[j].pc = "commit" /\ Locks(j)
  /\ ~f.dirty \/ f.local_only
  /\ Update(j, [f EXCEPT !.dirty = FALSE])
  /\ After(j)
  /\ UNCHANGED <<device, local, lock, failures, calls, ghost>>

BeginCommit(j) ==
  LET f == Mine(j) IN
  /\ job[j].pc = "commit" /\ Locks(j)
  /\ f.dirty /\ ~f.local_only
  /\ lock' = [lock EXCEPT ![job[j].id] = j]
  /\ To(j, IF f.remote = None THEN "upload" ELSE "upload_temporary")
  /\ UNCHANGED <<device, area, failures, calls, ghost>>

\* The commit returns with an error: the file stays dirty.
Abort(j) == Unlock(j) /\ After(j) /\ UNCHANGED area

\* The commit succeeds: object h is the file now.
Finish(j, h) ==
  /\ Update(j, [Mine(j) EXCEPT !.remote = h, !.dirty = FALSE])
  /\ origins' = [origins EXCEPT ![h] = job[j].id]
  /\ committed' = [committed EXCEPT ![job[j].id] = Mine(j).content]
  /\ inPlace' = inPlace \ {job[j].id}
  /\ Unlock(j) /\ After(j)
  /\ UNCHANGED <<files, disk, timers>>

Copied(j, name) ==
  [device EXCEPT ![NewHandle] = [name |-> name, data |-> Mine(j).content]]

\* The last upload of a commit: of a new file, or after the old one is deleted.
Upload(j) ==
  /\ job[j].pc \in {"upload", "upload_again"}
  /\ \/ /\ job[j].id \in disk /\ Unknown # {}
        /\ device' = Copied(j, Mine(j).name)
        /\ Finish(j, NewHandle)
        /\ UNCHANGED failures
     \/ /\ IF job[j].id \in disk THEN Breaks("upload") ELSE UNCHANGED failures
        /\ Abort(j)
        /\ UNCHANGED <<device, committed, inPlace>>
  /\ UNCHANGED <<calls, crossed>>

UploadTemporary(j) ==
  /\ job[j].pc = "upload_temporary"
  /\ \/ /\ job[j].id \in disk /\ Unknown # {}
        /\ device' = Copied(j, "upload")
        /\ job' = [job EXCEPT ![j].pc = "rename_old", ![j].temp = NewHandle]
        /\ UNCHANGED <<area, lock, failures>>
     \/ /\ IF job[j].id \in disk THEN Breaks("upload") ELSE UNCHANGED failures
        /\ Abort(j)
        /\ UNCHANGED device
  /\ UNCHANGED <<calls, ghost>>

\* A request to rename object h: it is carried out, or it fails.
Requests(h, name, request, done, failed) ==
  \/ /\ Renames /\ Exists(h)
     /\ device' = [device EXCEPT ![h].name = name]
     /\ done
     /\ UNCHANGED failures
  \/ /\ IF Renames /\ Exists(h) THEN Breaks(request) ELSE UNCHANGED failures
     /\ failed
     /\ UNCHANGED device

OldDeletedFirst(j) ==  \* mutant: the old object is deleted, not kept as a backup
  /\ job[j].pc = "rename_old"
  /\ device' = [device EXCEPT ![Mine(j).remote] = None]
  /\ To(j, "rename_temporary")
  /\ UNCHANGED <<area, lock, failures, calls, ghost>>

\* Whatever it fails for, the phone is taken for one that cannot rename.
RenameOld(j) ==
  /\ job[j].pc = "rename_old"
  /\ Requests(Mine(j).remote, "backup", "backup",
              To(j, "rename_temporary") /\ UNCHANGED inPlace,
              To(j, "drop_temporary") /\ inPlace' = inPlace \cup {job[j].id})
  /\ UNCHANGED <<area, lock, calls, committed, crossed>>

RenameTemporary(j) ==
  /\ job[j].pc = "rename_temporary"
  /\ Requests(job[j].temp, Mine(j).name, "promote",
              To(j, "delete_old"), To(j, "restore_old"))
  /\ UNCHANGED <<area, lock, calls, ghost>>

\* `let _ =`: both outcomes go on.
RestoreOld(j) ==
  /\ job[j].pc = "restore_old"
  /\ Requests(Mine(j).remote, Mine(j).name, "restore",
              To(j, "give_up"), To(j, "give_up"))
  /\ UNCHANGED <<area, lock, calls, ghost>>

Deletes(h, done, failed) ==
  \/ /\ Exists(h)
     /\ device' = [device EXCEPT ![h] = None]
     /\ done
     /\ UNCHANGED failures
  \/ /\ IF Exists(h) THEN Breaks("delete") ELSE UNCHANGED failures
     /\ failed
     /\ UNCHANGED device

GiveUp(j) ==
  /\ job[j].pc = "give_up"
  /\ Deletes(job[j].temp, Abort(j), Abort(j))
  /\ UNCHANGED <<calls, ghost>>

OldKept(j) ==  \* mutant: the backup is not deleted
  /\ job[j].pc = "delete_old"
  /\ Finish(j, job[j].temp)
  /\ UNCHANGED <<device, failures, calls, crossed>>

DeleteOld(j) ==
  /\ job[j].pc = "delete_old"
  /\ Deletes(Mine(j).remote, Finish(j, job[j].temp), Finish(j, job[j].temp))
  /\ UNCHANGED <<calls, crossed>>

\* The phone cannot rename, or could not: replace the original in place.
DropTemporary(j) ==
  /\ job[j].pc = "drop_temporary"
  /\ Deletes(job[j].temp, To(j, "delete_original"), To(j, "delete_original"))
  /\ UNCHANGED <<area, lock, calls, ghost>>

DeleteOriginal(j) ==
  /\ job[j].pc = "delete_original"
  /\ Deletes(Mine(j).remote, To(j, "upload_again") /\ UNCHANGED <<area, lock>>, Abort(j))
  /\ UNCHANGED <<calls, ghost>>

-----------------------------------------------------------------------------
Init ==
  /\ device \in {[h \in Handle |-> IF h \in Original THEN [name |-> n[h], data |-> 1] ELSE None]
                   : n \in {m \in [Original -> Place \ Meta] :
                              \A g, h \in Original : m[g] = m[h] => g = h}}
  /\ file = [i \in File |-> None]
  /\ files = {} /\ disk = {}
  /\ origins = [h \in Handle |-> None]
  /\ lock = [i \in File |-> None]
  /\ timers = {}
  /\ job = [j \in Job_ |-> IdleJob]
  /\ failures = MaxFailures /\ calls = MaxCalls
  /\ committed = [i \in File |-> 0]
  /\ crossed = {} /\ inPlace = {}

CallStep(j) ==
  \/ Download(j) \/ Publish(j) \/ PublishedMeanwhile(j) \/ Reaches(j)
  \/ Write(j) \/ Rename(j) \/ Schedule(j) \/ Remove(j) \/ Unmap(j) \/ Unlink(j)

CommitStep(j) ==
  \/ CommitLocally(j) \/ BeginCommit(j) \/ Upload(j) \/ UploadTemporary(j)
  \/ RenameOld(j) \/ RenameTemporary(j) \/ RestoreOld(j) \/ GiveUp(j)
  \/ DeleteOld(j) \/ DropTemporary(j) \/ DeleteOriginal(j)

Next ==
  \/ \E n \in Place : Create(n)
  \/ \E j \in Job : \/ \E call \in Call : Found(j, call) \/ Direct(j, call) \/ Describe(j, call)
                    \/ \E timer \in timers : TimerFires(j, timer)
                    \/ CallStep(j)
  \/ FlushStarts
  \/ \E id \in File : FlushNext(id)
  \/ \E j \in Job_ : CommitStep(j)

Spec == Init /\ [][Next]_vars

(***************************************************************************)
(* Fairness.  Every awaited request is answered (WF); a file's lock is     *)
(* tokio's fair mutex, so whoever waits for it gets it (SF); the discovery *)
(* loop flushes again and again.                                           *)
(***************************************************************************)
Fairness ==
  /\ \A j \in Job : SF_vars(CallStep(j))
  /\ \A j \in Job_ : SF_vars(CommitStep(j))
  /\ SF_vars(FlushStarts) /\ \A id \in File : SF_vars(FlushNext(id))

FairSpec == Spec /\ Fairness

-----------------------------------------------------------------------------
TypeOK ==
  /\ device \in [Handle -> Object \cup {None}]
  /\ file \in [File -> Staged \cup {None}]
  /\ \A i \in File : file[i] # None => file[i].content \in 1 .. file[i].revision
  /\ files \subseteq {i \in File : file[i] # None} /\ disk \subseteq File
  /\ origins \in [Handle -> File \cup {None}]
  /\ lock \in [File -> Job_ \cup {None}]
  /\ \A timer \in timers : timer.revision \in 1 .. file[timer.id].revision
  /\ job \in [Job_ -> [pc : PC, call : Call, id : File \cup {None}, temp : Handle \cup {None},
                       name : Name \cup {None}, data : Nat, todo : SUBSET File]]
  /\ failures \in 0 .. MaxFailures /\ calls \in 0 .. MaxCalls
  /\ committed \in [File -> Nat] /\ crossed \subseteq Handle
  /\ inPlace \subseteq File

\* A file somebody can find, whose object nobody has changed while it was
\* being staged, and which nobody has just removed.
Sound(i) ==
  /\ i \in files
  /\ \A h \in crossed : origins[h] # i
  /\ \A j \in Job : job[j].pc = "unmap" => job[j].id # i

\* A file that is not dirty is on the phone, under its name and as it was last
\* written: no write, truncation or rename that overlaps a commit is marked
\* clean by it (staging.rs write, set_len, rename, commit).
CleanMeansStored ==
  \A i \in files : Sound(i) /\ ~file[i].dirty /\ ~file[i].local_only =>
    /\ Exists(file[i].remote)
    /\ device[file[i].remote] = [name |-> file[i].name, data |-> file[i].content]

\* Concurrent first writes to an object stage it once: were there two copies,
\* the one committed last would undo the writes to the other (stage_existing).
OneOverlay ==
  \A i, k \in files : i # k /\ file[i].remote # None => file[i].remote # file[k].remote

\* "Atomic replacement": at every moment of a later commit, whichever of its
\* requests fail, the phone holds a complete copy at least as new as the last
\* commit that returned success.  The exception is the one replace_remote names:
\* once the phone has refused, or failed, to rename the old object, the commit
\* deletes it before it uploads again, and until an upload succeeds the phone
\* may hold no copy at all; it never holds an older one.
StableSurvives ==
  \A i \in files : Sound(i) /\ file[i].remote # None =>
    IF Exists(file[i].remote) THEN device[file[i].remote].data >= committed[i]
    ELSE i \in inPlace

\* Temporary and backup objects do not pile up on the phone: while no commit is
\* under way there are at most as many as requests have failed.
LeftoverPerFailure ==
  (\A i \in File : lock[i] = None) =>
    Cardinality({h \in Handle : device[h] # None /\ device[h].name \notin Place})
      <= MaxFailures - failures

\* The phone's copy of a file goes from one version to the then current one in
\* a single step, or, where the phone has refused to rename it, by way of none.
Versions == [i \in File |-> IF Sound(i) THEN file[i].content ELSE None]
Stores   == [i \in File |-> IF Sound(i) /\ Exists(file[i].remote)
                           THEN device[file[i].remote].data ELSE None]
Copies == INSTANCE WriteBack WITH content <- Versions, stored <- Stores, refused <- inPlace
StoreSpec == Copies!Spec

\* "stages Finder's random writes before committing a complete object to MTP"
\* (README): a dirty file is committed, or removed, in the end.
Committed ==
  \A i \in File : i \in files /\ Sound(i) /\ file[i].dirty
                    ~> ~(i \in files /\ Sound(i) /\ file[i].dirty)
=============================================================================
