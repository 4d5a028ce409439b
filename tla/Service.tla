------------------------------- MODULE Service -------------------------------
(***************************************************************************)
(* Daemon processes on one machine (daemon.rs): how one comes to be the    *)
(* one behind the control socket, mounts its NFS server on the volume's    *)
(* path (mount.rs), serves control requests (ipc.rs) and stops.            *)
(*                                                                         *)
(* Processes share the socket file, which outlives the process that bound  *)
(* it, and the mounts on the path, which outlive their server and may be   *)
(* stacked.  A daemon is one process from its start to its end; its number *)
(* stands for its NFS port too.  The mount and unmount procedures run on   *)
(* the daemon's main thread, at its start and at its end, and on the tasks *)
(* of control connections, all at once; every await is a step boundary.    *)
(***************************************************************************)
EXTENDS Naturals, Sequences, FiniteSets, SequencesExt

CONSTANTS
  Client,       \* control connections
  StagedFile,   \* files whose data are staged for the phone
  MaxStarts, MaxCalls, MaxCrashes, MaxFailures, MaxEjects, MaxWrites, \* bounds of each
  MaxEvents                                \* and of all of these but starts together

ASSUME BoundAssumption ==
  /\ MaxStarts \in Nat \ {0}
  /\ {MaxCalls, MaxCrashes, MaxFailures, MaxEjects, MaxWrites, MaxEvents}
       \subseteq Nat
ASSUME ClientAssumption == Client \cap (0 .. MaxStarts) = {}

VARIABLES
  socket,   \* the daemon that bound the socket file, 0: there is no file
  mounts,   \* the daemons whose servers are mounted on the path, the last on top,
            \* 0 for a volume of somebody else
  pc,       \* where each daemon's main thread is
  peer,     \* the daemon whose answer to Ping a starting daemon waits for
  state,    \* MountManager.state
  call,     \* the mount and unmount procedures under way
  stopping, \* daemons told to shut down
  unsaved,  \* files each daemon has staged data of that the phone does not have
  todo,     \* files the flush at a daemon's end has yet to look at
  late,     \* history: of the unsaved, those that flush has passed or cannot save
  raced,    \* history: a daemon was started before another had its socket
  stacked,  \* history: a volume was mounted over another, by overlapping procedures
  disturbed, \* history: procedures on mounts have overlapped, or have failed
  left      \* what is left of the bounds

history == <<raced, stacked, disturbed>>
staged == <<unsaved, late, todo>>
vars == <<socket, mounts, pc, peer, state, call, stopping, staged, history, left>>

Daemon == 1 .. MaxStarts
Thread == Daemon \cup Client
Starting  == {"exists", "ping", "unlink", "bind"}
Serving   == {"nfs", "mounting", "run", "flush", "unmounting", "stop"}
Ended     == {"gone", "failed", "hung", "crashed"}
MainPC    == {"unborn"} \cup Starting \cup Serving \cup Ended
CallPC    == {"idle", "look", "decide", "unlook", "uncommand", "unwrite", "prepare",
              "command", "write"}
NoCall    == [pc |-> "idle", on |-> 0, op |-> "none", seen |-> FALSE]

Alive(d) == pc[d] \in Starting \cup Serving
\* Its NFS server answers.
ServerUp(d) == pc[d] \in {"nfs", "mounting", "run", "flush", "unmounting", "hung"}
Mounted == mounts # <<>>

Spends(bound) ==
  /\ left[bound] > 0 /\ left["events"] > 0
  /\ left' = [left EXCEPT ![bound] = @ - 1, !["events"] = @ - 1]
To(d, next) == pc' = [pc EXCEPT ![d] = next]

\* The tasks of its connections end with the main thread, and what they knew.
TasksEnd(d, end) ==
  /\ To(d, end)
  /\ call' = [c \in Thread |-> IF call[c].on = d THEN NoCall ELSE call[c]]
  /\ peer' = [peer EXCEPT ![d] = 0] /\ state' = [state EXCEPT ![d] = "unmounted"]
  /\ stopping' = stopping \ {d}
\* With the process goes what it knew of the staged files.
Ends(d, end) ==
  /\ TasksEnd(d, end)
  /\ unsaved' = [unsaved EXCEPT ![d] = {}] /\ late' = [late EXCEPT ![d] = {}]
  /\ todo' = [todo EXCEPT ![d] = {}]

-----------------------------------------------------------------------------
(* Starting: ensure_single_instance, bind, wait_for_nfs.                   *)

Start(d) ==
  /\ pc[d] = "unborn" /\ \A e \in 1 .. d - 1 : pc[e] # "unborn"
  /\ To(d, "exists")
  /\ raced' = (raced \/ \E e \in Daemon : pc[e] \in Starting)
  /\ UNCHANGED <<socket, mounts, peer, state, call, stopping, staged, stacked,
                 disturbed, left>>

RemovesUnasked(d) ==  \* mutant: whether somebody answers at the socket is not asked
  /\ pc[d] = "exists" /\ To(d, IF socket = 0 THEN "bind" ELSE "unlink")
  /\ UNCHANGED <<socket, mounts, peer, state, call, stopping, staged, history, left>>
LooksForSocket(d) ==
  /\ pc[d] = "exists"
  /\ To(d, IF socket = 0 THEN "bind" ELSE "ping")
  /\ UNCHANGED <<socket, mounts, peer, state, call, stopping, staged, history, left>>

\* DaemonClient::request connects: to whoever has bound the file that is there now.
Connects(d) ==
  /\ pc[d] = "ping" /\ peer[d] = 0
  /\ IF socket # 0 /\ Alive(socket)
     THEN peer' = [peer EXCEPT ![d] = socket] /\ UNCHANGED pc
     ELSE To(d, "unlink") /\ UNCHANGED peer
  /\ UNCHANGED <<socket, mounts, state, call, stopping, staged, history, left>>

\* The answer comes once the other one accepts connections; its end ends the wait.
HearsPong(d) ==
  /\ pc[d] = "ping" /\ peer[d] # 0 /\ pc[peer[d]] = "run"
  /\ Ends(d, "failed")
  /\ UNCHANGED <<socket, mounts, history, left>>

AnswerOrEnd(e) == pc[e] = "run"  \* mutant: the end of the connection is not an answer
PeerEnded(e) == pc[e] \in Ended
HearsNothing(d) ==
  /\ pc[d] = "ping" /\ peer[d] # 0 /\ PeerEnded(peer[d])
  /\ To(d, "unlink") /\ peer' = [peer EXCEPT ![d] = 0]
  /\ UNCHANGED <<socket, mounts, state, call, stopping, staged, history, left>>

\* The file is removed, whoever has bound it meanwhile; that it is gone is an error.
Unlinks(d) ==
  /\ pc[d] = "unlink"
  /\ To(d, IF socket = 0 THEN "failed" ELSE "bind")
  /\ socket' = 0
  /\ UNCHANGED <<mounts, peer, state, call, stopping, staged, history, left>>

Binds(d) ==
  /\ pc[d] = "bind"
  /\ IF socket = 0 THEN socket' = d /\ To(d, "nfs") ELSE UNCHANGED socket /\ To(d, "failed")

BindsSocket(d) ==
  /\ Binds(d)
  /\ UNCHANGED <<mounts, peer, state, call, stopping, staged, history, left>>

\* wait_for_nfs fails: the file is removed, and the daemon ends; or there is no port
\* for the server, and the daemon ends before.
ServerFails(d) ==
  /\ pc[d] = "nfs" /\ Spends("failures")
  /\ socket' \in {0, socket} /\ To(d, "failed")
  /\ UNCHANGED <<mounts, peer, state, call, stopping, staged, history>>

-----------------------------------------------------------------------------
(* MountManager::mount and ::unmount.                                      *)

Busy(c) == call[c].pc # "idle"
Calls(c, d, op) ==
  /\ call' = [call EXCEPT ![c] =
       [pc |-> IF op = "mount" THEN "look" ELSE "unlook", on |-> d, op |-> op, seen |-> FALSE]]
  /\ disturbed' = (disturbed \/ \E o \in Thread \ {c} : Busy(o))

Goes(c, next) == call' = [call EXCEPT ![c].pc = next]
Sets(c, value) == state' = [state EXCEPT ![call[c].on] = value]

ReturnsNowhere(c) == call' = [call EXCEPT ![c] = NoCall] /\ UNCHANGED pc  \* mutant
\* The procedure returns: the main thread goes on, a connection is answered.
Returns(c) ==
  /\ call' = [call EXCEPT ![c] = NoCall]
  /\ IF c \in Daemon THEN To(c, IF pc[c] = "mounting" THEN "run" ELSE "stop")
     ELSE UNCHANGED pc

MountsAtStart(d) ==
  /\ pc[d] = "nfs" /\ To(d, "mounting") /\ Calls(d, d, "mount")
  /\ UNCHANGED <<socket, mounts, peer, state, stopping, staged, raced, stacked, left>>

\* is_mounted; when the list of mounts cannot be had, nothing is taken for mounted.
Finds(seen) ==
  \/ seen = Mounted /\ UNCHANGED <<disturbed, left>>
  \/ ~seen /\ Mounted /\ Spends("failures") /\ disturbed' = TRUE

Looks(c) ==
  /\ call[c].pc = "look"
  /\ \E seen \in BOOLEAN :
       Finds(seen) /\ call' = [call EXCEPT ![c].pc = "decide", ![c].seen = seen]
  /\ UNCHANGED <<socket, mounts, pc, peer, state, stopping, staged, raced, stacked>>

\* can_reuse_mount; otherwise what is mounted is unmounted first.
ReusesAny(c) == call[c].seen  \* mutant: whatever is mounted is taken for one's own
CanReuse(c) == call[c].seen /\ state[call[c].on] = "mounted"
MountsOver(c) ==  \* mutant: what is mounted is not unmounted first
  /\ call[c].pc = "decide"
  /\ IF CanReuse(c) THEN Returns(c) ELSE Goes(c, "prepare") /\ UNCHANGED pc
  /\ UNCHANGED <<socket, mounts, peer, state, stopping, staged, history, left>>
Decides(c) ==
  /\ call[c].pc = "decide"
  /\ IF CanReuse(c) THEN Returns(c)
     ELSE Goes(c, IF call[c].seen THEN "unlook" ELSE "prepare") /\ UNCHANGED pc
  /\ UNCHANGED <<socket, mounts, peer, state, stopping, staged, history, left>>

\* Unmounting is done; a mount goes on.
Unmounted(c) ==
  /\ Sets(c, "unmounted")
  /\ IF call[c].op = "mount" THEN Goes(c, "prepare") /\ UNCHANGED pc ELSE Returns(c)

UnmountLooks(c) ==
  /\ call[c].pc = "unlook"
  /\ \E seen \in BOOLEAN :
       /\ Finds(seen)
       /\ IF seen THEN Goes(c, "uncommand") /\ UNCHANGED <<pc, state>> ELSE Unmounted(c)
  /\ UNCHANGED <<socket, mounts, peer, stopping, staged, raced, stacked>>

UnmountCommand(c) ==
  /\ call[c].pc = "uncommand" /\ Mounted
  /\ mounts' = Front(mounts)
  /\ Goes(c, "unwrite")
  /\ UNCHANGED <<socket, pc, peer, state, stopping, staged, history, left>>

\* All three commands fail, or cannot be started; so they do when another has
\* unmounted meanwhile.
UnmountFails(c) ==
  /\ call[c].pc = "uncommand"
  /\ IF Mounted THEN Spends("failures") ELSE UNCHANGED left
  /\ Sets(c, "error") \/ UNCHANGED state
  /\ Returns(c) /\ disturbed' = TRUE
  /\ UNCHANGED <<socket, mounts, peer, stopping, staged, raced, stacked>>

UnmountWrites(c) ==
  /\ call[c].pc = "unwrite" /\ Unmounted(c)
  /\ UNCHANGED <<socket, mounts, peer, stopping, staged, history, left>>

Prepares(c) ==
  /\ call[c].pc = "prepare"
  /\ Sets(c, "mounting") /\ Goes(c, "command")
  /\ UNCHANGED <<socket, mounts, pc, peer, stopping, staged, history, left>>

MountCommand(c) ==
  /\ call[c].pc = "command" /\ ServerUp(call[c].on)
  /\ mounts' = Append(mounts, call[c].on)
  /\ Goes(c, "write")
  /\ stacked' = (stacked \/ Mounted)
  /\ UNCHANGED <<socket, pc, peer, state, stopping, staged, raced, disturbed, left>>

\* The command fails; or it, or the directory before it, cannot be made, and the
\* state remains Mounting.
MountFails(c) ==
  /\ call[c].pc = "command"
  /\ IF ServerUp(call[c].on) THEN Spends("failures") ELSE UNCHANGED left
  /\ Sets(c, "error") \/ UNCHANGED state
  /\ Returns(c) /\ disturbed' = TRUE
  /\ UNCHANGED <<socket, mounts, peer, stopping, staged, raced, stacked>>

MountWrites(c) ==
  /\ call[c].pc = "write"
  /\ Sets(c, "mounted") /\ Returns(c)
  /\ UNCHANGED <<socket, mounts, peer, stopping, staged, history, left>>

-----------------------------------------------------------------------------
(* Control requests, and what goes on around the daemon.                   *)

\* A connection reaches the daemon that has bound the file, while it accepts.
Reaches(d) == socket = d /\ pc[d] = "run"

\* A connection has a task of its own; which one does not matter.
Requests(c, d, op) ==
  /\ ~Busy(c) /\ c = (CHOOSE free \in Client : ~Busy(free))
  /\ Reaches(d) /\ Spends("calls")
  /\ Calls(c, d, op)
  /\ UNCHANGED <<socket, mounts, pc, peer, state, stopping, staged, raced, stacked>>

\* Shutdown, from a connection or by Ctrl-C.
Shutdown(d) ==
  /\ pc[d] = "run" /\ d \notin stopping /\ Spends("calls")
  /\ stopping' = stopping \cup {d}
  /\ UNCHANGED <<socket, mounts, pc, peer, state, call, staged, history>>

\* Somebody ejects the volume in Finder.
Eject ==
  /\ Mounted /\ Spends("ejects")
  /\ mounts' = Front(mounts)
  /\ UNCHANGED <<socket, pc, peer, state, call, stopping, staged, history>>

\* Data written through the volume wait in the staging area for their commit.
Written(d, i) ==
  /\ ServerUp(d) /\ Mounted /\ Last(mounts) = d /\ Spends("writes")
  /\ unsaved' = [unsaved EXCEPT ![d] = @ \cup {i}]
  /\ late' = IF pc[d] \in {"flush", "unmounting"} /\ i \notin todo[d]
             THEN [late EXCEPT ![d] = @ \cup {i}] ELSE late
  /\ UNCHANGED <<socket, mounts, pc, peer, state, call, stopping, todo, history>>

Commits(d, i) ==
  /\ unsaved' = [unsaved EXCEPT ![d] = @ \ {i}]
  /\ late' = [late EXCEPT ![d] = @ \ {i}]

\* A delayed commit, or the discovery loop's flush.
Saved(d, i) ==
  /\ i \in unsaved[d] /\ pc[d] \in Serving \cup {"hung"}
  /\ Commits(d, i)
  /\ UNCHANGED <<socket, mounts, pc, peer, state, call, stopping, todo, history, left>>

-----------------------------------------------------------------------------
(* Stopping.                                                               *)

\* The main thread ends by an error of accept or of the signal.  The socket file and
\* the mount stay; so does the process, which waits for its NFS server.
LoopFails(d) ==
  /\ pc[d] = "run" /\ Spends("failures")
  /\ TasksEnd(d, "hung")
  /\ UNCHANGED <<socket, mounts, staged, history>>

\* commit_all takes the files that are staged now.
LeavesLoop(d) ==
  /\ pc[d] = "run" /\ d \in stopping
  /\ To(d, "flush")
  /\ \E files \in SUBSET StagedFile :
       unsaved[d] \subseteq files /\ todo' = [todo EXCEPT ![d] = files]
  /\ UNCHANGED <<socket, mounts, peer, state, call, stopping, unsaved, late, history, left>>

FlushStops(d, i) ==  \* mutant: the first commit that fails ends the flush
  \/ Commits(d, i) /\ todo' = [todo EXCEPT ![d] = @ \ {i}]
  \/ /\ i \in unsaved[d] /\ late' = [late EXCEPT ![d] = @ \cup {i}]
     /\ todo' = [todo EXCEPT ![d] = {}] /\ UNCHANGED unsaved
\* Its pass over one of them; whether the commit fails, it goes on.
FlushFile(d, i) ==
  /\ todo' = [todo EXCEPT ![d] = @ \ {i}]
  /\ \/ Commits(d, i)
     \/ i \in unsaved[d] /\ late' = [late EXCEPT ![d] = @ \cup {i}] /\ UNCHANGED unsaved

FlushesNext(d) ==
  /\ pc[d] = "flush" /\ \E i \in todo[d] : FlushFile(d, i)
  /\ UNCHANGED <<socket, mounts, pc, peer, state, call, stopping, history, left>>

UnmountsAtEnd(d) ==
  /\ pc[d] = "flush" /\ todo[d] = {}
  /\ To(d, "unmounting") /\ Calls(d, d, "unmount")
  /\ UNCHANGED <<socket, mounts, peer, state, stopping, staged, raced, stacked, left>>

\* The server has stopped: the socket file is removed, whoever has bound it.
Exits(d) ==
  /\ pc[d] = "stop" /\ Ends(d, "gone")
  /\ socket' = 0
  /\ UNCHANGED <<mounts, history, left>>

Crashes(d) ==
  /\ Alive(d) \/ pc[d] = "hung"
  /\ Spends("crashes") /\ Ends(d, "crashed")
  /\ UNCHANGED <<socket, mounts, history>>

-----------------------------------------------------------------------------
\* Daemon 1 has been there before: it exited in good order, or it crashed and left
\* its socket file and perhaps its mount.  The path may hold somebody else's volume.
Init ==
  /\ \E end \in {"gone", "crashed"} :
       /\ pc = [d \in Daemon |-> IF d = 1 THEN end ELSE "unborn"]
       /\ socket = IF end = "crashed" THEN 1 ELSE 0
       /\ mounts \in {<<>>, <<0>>} \cup (IF end = "crashed" THEN {<<1>>} ELSE {})
  /\ peer = [d \in Daemon |-> 0]
  /\ state = [d \in Daemon |-> "unmounted"]
  /\ call = [c \in Thread |-> NoCall]
  /\ stopping = {}
  /\ unsaved = [d \in Daemon |-> {}]
  /\ late = [d \in Daemon |-> {}] /\ todo = [d \in Daemon |-> {}]
  /\ raced = FALSE /\ stacked = FALSE /\ disturbed = FALSE
  /\ left = [calls |-> MaxCalls, crashes |-> MaxCrashes, failures |-> MaxFailures,
             ejects |-> MaxEjects, writes |-> MaxWrites, events |-> MaxEvents]

MountStep(c) ==
  \/ Looks(c) \/ Decides(c) \/ UnmountLooks(c) \/ UnmountCommand(c) \/ UnmountFails(c)
  \/ UnmountWrites(c) \/ Prepares(c) \/ MountCommand(c) \/ MountFails(c) \/ MountWrites(c)

\* What a daemon's main thread does by itself.
MainStep(d) ==
  \/ LooksForSocket(d) \/ Connects(d) \/ HearsPong(d) \/ HearsNothing(d) \/ Unlinks(d)
  \/ BindsSocket(d) \/ ServerFails(d) \/ MountsAtStart(d)
  \/ LeavesLoop(d) \/ FlushesNext(d) \/ UnmountsAtEnd(d) \/ Exits(d)

Next ==
  \/ \E d \in Daemon : \/ Start(d) \/ MainStep(d) \/ Crashes(d)
                       \/ Shutdown(d) \/ LoopFails(d)
                       \/ \E i \in StagedFile : Written(d, i) \/ Saved(d, i)
  \/ \E c \in Thread : MountStep(c)
  \/ \E c \in Client, d \in Daemon, op \in {"mount", "unmount"} : Requests(c, d, op)
  \/ Eject

\* Threads and tasks go on, and the commands they start return.
Fairness == /\ \A d \in Daemon : WF_vars(MainStep(d))
            /\ \A c \in Thread : WF_vars(MountStep(c))

Spec == Init /\ [][Next]_vars
FairSpec == Spec /\ Fairness

-----------------------------------------------------------------------------
TypeOK ==
  /\ socket \in {0} \cup Daemon /\ mounts \in Seq({0} \cup Daemon)
  /\ pc \in [Daemon -> MainPC] /\ peer \in [Daemon -> {0} \cup Daemon]
  /\ state \in [Daemon -> {"unmounted", "mounting", "mounted", "error"}]
  /\ call \in [Thread -> [pc : CallPC, on : {0} \cup Daemon, op : {"none", "mount", "unmount"},
                          seen : BOOLEAN]]
  /\ \A d \in Daemon : Busy(d) <=> pc[d] \in {"mounting", "unmounting"}
  /\ stopping \subseteq Daemon
  /\ {unsaved, late, todo} \subseteq [Daemon -> SUBSET StagedFile]
  /\ raced \in BOOLEAN /\ stacked \in BOOLEAN /\ disturbed \in BOOLEAN
  /\ \A bound \in DOMAIN left : left[bound] \in Nat

\* One daemon at a time has the server, the volume and the phones, whatever
\* crashed, stopped or was told to start before (daemon.rs ensure_single_instance,
\* run) - provided that no two are started at the same moment: each may then take
\* the other's socket file for a leftover; and but for the server of a daemon whose
\* loop has failed, which stays behind.
OneDaemon == raced \/ Cardinality({d \in Daemon : pc[d] \in Serving}) <= 1

\* What is mounted on the path while a daemon serves and is not changing it is its
\* own mount, once, and it knows of it: what a crashed daemon has left is replaced
\* (mount.rs mount, can_reuse_mount); and a daemon that has exited in good order has
\* left nothing mounted that no server answers for (daemon.rs run, mount.rs unmount)
\* - while procedures neither overlap nor fail.
VolumeKnown ==
  ~disturbed =>
    \A d \in Daemon :
      /\ pc[d] = "run" /\ (\A c \in Thread : ~Busy(c)) /\ ~raced
         => /\ mounts \in {<<>>, <<d>>}
            /\ Mounted => state[d] = "mounted"
      /\ pc[d] = "gone" => \A k \in DOMAIN mounts : mounts[k] # d

\* A mount that is answered without mounting found the daemon's own volume, even
\* when calls overlap, fail, or the volume is ejected meanwhile (can_reuse_mount) -
\* unless volumes were stacked: a daemon unmounts one, and what a crashed daemon had
\* below it is what comes to light when its own is ejected.
ReusesOwn ==
  [][\A c \in Thread : Decides(c) /\ CanReuse(c) /\ ~raced /\ ~stacked
       => mounts \in {<<>>, <<call[c].on>>}]_vars

\* When a daemon has exited, the phone has the data that were staged until the flush
\* at its end came to their file, whatever is written, committed and failing at the
\* same time (daemon.rs run, staging.rs commit_all).  What the server accepts from
\* then on - for a file the flush has passed or did not know, and while the volume
\* is unmounted - may be lost, and so may a file whose commit fails.
NothingLost == [][\A d \in Daemon : Exits(d) => unsaved[d] \subseteq late[d]]_vars

\* A daemon that starts ends up serving, or gives up: it does not wait for an
\* answer for ever (ipc.rs is_running, which has no timeout).
StartEnds == \A d \in Daemon \ {1} : pc[d] = "exists" ~> pc[d] \in {"run"} \cup Ended
=============================================================================
