-------------------------------- MODULE MenuBar --------------------------------
(***************************************************************************)
(* The menu-bar application and the daemon it talks to: processes of the   *)
(* application, of which one has the window (instance.rs), the window's    *)
(* messages (application.rs), and what it gets from the daemon (ipc.rs,    *)
(* service.rs): the log, and the settings it has it save.                  *)
(*                                                                         *)
(* A request takes its answer from the daemon that runs when it arrives;   *)
(* there may be none, and another one than for the request before.  What   *)
(* a message starts runs beside the window, and its end is a message too.  *)
(***************************************************************************)
EXTENDS LogStore, Preferences, Updater, FiniteSets

CONSTANTS
  MaxLaunches, \* bound: processes of the application
  ReadLimit,   \* records in an answer
  MaxShown     \* records the window shows

ASSUME WindowAssumption == {MaxLaunches, ReadLimit, MaxShown} \subseteq Nat \ {0}

VARIABLES
  ui,      \* where each process is
  ui_sock, \* the process that bound the socket file, 0: there is no file
  show,    \* show requests wait in the socket
  visible, \* the window's
  booting, \* the task that ensures a daemon runs
  poll,    \* SnapshotPoll, and what the task that polls has got
  last_log_id,
  shown,   \* App.logs
  taken    \* history: the records the window has taken over

uiVars  == <<ui, ui_sock, show>>
winVars == <<visible, booting, poll, last_log_id, shown, taken>>
vars    == <<left, logVars, prefVars, updateVars, uiVars, winVars>>

Process  == 1 .. MaxLaunches
HasLock  == {"bind", "runs", "leaving", "released"}
UiPC     == {"none", "signals", "gone"} \cup HasLock
NoPoll   == [step |-> "idle", after |-> 0, snapshot |-> FALSE, logs |-> FALSE, records |-> <<>>]
Running  == \E p \in Process : ui[p] = "runs"

To(p, next) == ui' = [ui EXCEPT ![p] = next]

-----------------------------------------------------------------------------
(* Polling.                                                                *)

\* poll_snapshot: SnapshotPoll::begin, and the request for what is new.
Polls == poll' = IF poll.step = "idle" THEN [NoPoll EXCEPT !.step = "asked", !.after = last_log_id]
                 ELSE poll

\* The answers of service::fetch, one request after the other.
Snapshot ==
  /\ poll.step = "asked"
  /\ poll' = [poll EXCEPT !.step = "half", !.snapshot = up]
  /\ UNCHANGED <<left, logVars, prefVars, updateVars, uiVars, visible, booting, last_log_id,
                 shown, taken>>
Logs ==
  /\ poll.step = "half"
  /\ poll' = [poll EXCEPT !.step = "answered", !.logs = up,
                          !.records = IF up THEN After(poll.after, ReadLimit) ELSE <<>>]
  /\ UNCHANGED <<left, logVars, prefVars, updateVars, uiVars, visible, booting, last_log_id,
                 shown, taken>>

\* Records are taken over in the order of the answer, if their id is the highest yet.
TakesNew(got, record, last) ==
  IF record.id > last /\ \A k \in DOMAIN got : got[k].id < record.id
  THEN Append(got, record) ELSE got
New(records, last) == FoldLeft(LAMBDA got, record : TakesNew(got, record, last), <<>>, records)
LastOf(records, s) == SubSeq(s, IF Len(s) > records THEN Len(s) - records + 1 ELSE 1, Len(s))

FinishForgotten == poll' = IF poll.snapshot THEN NoPoll ELSE poll  \* mutant
Finish == poll' = NoPoll

ServiceUpdated ==
  /\ Running /\ poll.step = "answered"
  /\ Finish
  /\ LET new == New(poll.records, last_log_id)
     IN  /\ last_log_id' = IF new = <<>> THEN last_log_id ELSE Last(new).id
         /\ shown' = LastOf(MaxShown, shown \o new)
         /\ taken' = taken \cup Range(new)
  /\ UNCHANGED <<left, logVars, prefVars, updateVars, uiVars, visible, booting>>

ClearLogView ==
  /\ Running /\ shown # <<>> /\ Spends("clears")
  /\ shown' = <<>>
  /\ UNCHANGED <<logVars, prefVars, updateVars, uiVars, visible, booting, poll, last_log_id,
                 taken>>

DrainsUnshown == show' = FALSE /\ UNCHANGED visible  \* mutant
\* drain_show_requests, ShowWindow and WindowLocated.
Drains == show' = FALSE /\ visible' = (visible \/ show)

Tick ==
  /\ Running /\ Drains /\ Polls
  /\ UNCHANGED <<left, logVars, prefVars, updateVars, ui, ui_sock, booting, last_log_id, shown,
                 taken>>

CloseRequested ==
  /\ Running /\ visible' = FALSE
  /\ UNCHANGED <<left, logVars, prefVars, updateVars, uiVars, booting, poll, last_log_id, shown,
                 taken>>

-----------------------------------------------------------------------------
(* Processes of the application.                                           *)

\* The lock is taken and an old socket file removed; or the process that has the
\* lock is to be told.
Launch(p) ==
  /\ ui[p] = "none" /\ \A q \in 1 .. p - 1 : ui[q] # "none"
  /\ Spends("launches")
  /\ IF \E q \in Process : ui[q] \in HasLock
     THEN To(p, "signals") /\ UNCHANGED ui_sock
     ELSE To(p, "bind") /\ ui_sock' = 0
  /\ UNCHANGED <<logVars, prefVars, updateVars, show, winVars>>

\* The socket is bound; boot: the settings are read, a daemon is looked for.
Boots(p) ==
  /\ ui[p] = "bind" /\ To(p, "runs") /\ ui_sock' = p
  /\ PrefWindowBegins
  /\ show' = FALSE /\ visible' = FALSE /\ booting' = TRUE /\ poll' = NoPoll
  /\ last_log_id' = 0 /\ shown' = <<>> /\ taken' = {}
  /\ UNCHANGED <<left, logVars, updateVars>>

\* ensure_daemon has found one, or has waited for one in vain; a poll.
DaemonReady ==
  /\ Running /\ booting /\ booting' = FALSE
  /\ Polls
  /\ UNCHANGED <<left, logVars, prefVars, updateVars, uiVars, visible, last_log_id, shown, taken>>

Listens(p) == p # 0 /\ ui[p] \in {"runs", "leaving", "released"}
Signals(p) ==
  /\ ui[p] = "signals" /\ Listens(ui_sock)
  /\ show' = TRUE /\ To(p, "gone")
  /\ UNCHANGED <<left, logVars, prefVars, updateVars, ui_sock, winVars>>
\* All attempts fail: nobody is bound to the file now.
GivesUp(p) ==
  /\ ui[p] = "signals" /\ ~Listens(ui_sock)
  /\ To(p, "gone")
  /\ UNCHANGED <<left, logVars, prefVars, updateVars, ui_sock, show, winVars>>

\* What the window had in memory goes: its tasks, too.
WindowEnds ==
  /\ UpdateWindowEnds /\ PrefWindowEnds
  /\ visible' = FALSE /\ booting' = FALSE /\ poll' = NoPoll /\ shown' = <<>>
  /\ last_log_id' = 0 /\ taken' = {}

\* Quit has had the daemon shut down; the event loop ends.
Exit(p) ==
  /\ ui[p] = "runs" /\ To(p, "leaving") /\ Spends("stops")
  /\ WindowEnds
  /\ UNCHANGED <<logVars, ui_sock, show>>

\* instance::release, and then the end of the process, which lets the lock go.
UnlocksFirst(p) ==  \* mutant: the other way round
  \/ ui[p] = "leaving" /\ To(p, "gone") /\ UNCHANGED ui_sock
  \/ ui[p] = "gone" /\ ui_sock # 0 /\ ui_sock' = 0 /\ UNCHANGED ui
Leaves(p) ==
  \/ ui[p] = "leaving" /\ To(p, "released") /\ ui_sock' = 0
  \/ ui[p] = "released" /\ To(p, "gone") /\ UNCHANGED ui_sock
Release(p) ==
  /\ Leaves(p)
  /\ UNCHANGED <<left, logVars, prefVars, updateVars, show, winVars>>

Dies(p) ==
  /\ ui[p] \in HasLock /\ Spends("stops")
  /\ To(p, "gone") /\ WindowEnds
  /\ UNCHANGED <<logVars, ui_sock, show>>

-----------------------------------------------------------------------------
(* The daemon.                                                             *)

DaemonBegins ==
  /\ ~up /\ LogBegins /\ PrefDaemonBegins
  /\ UNCHANGED <<left, updateVars, uiVars, winVars>>

\* Told to, or not; the requests that it was serving end without an answer, which
\* the window hears of (ControlFinished), and polls.
DaemonEnds ==
  /\ up /\ Spends("stops") /\ LogEnds
  /\ saving' = {} /\ refused' = (refused \/ saving # {})
  /\ IF \E r \in saving : r.heard THEN Polls ELSE UNCHANGED poll
  /\ UNCHANGED <<chosen, memory, inode, settings, temporary, overlapped, updateVars, uiVars,
                 visible, booting, last_log_id, shown, taken>>

Log ==
  /\ LogNext
  /\ UNCHANGED <<prefVars, updateVars, uiVars, winVars>>

SettingsChanged ==
  /\ Running /\ \E c \in Change : Chooses(c)
  /\ UNCHANGED <<logVars, updateVars, uiVars, winVars>>

\* On the daemon's side; and ControlFinished, with a poll.
Saves(r) ==
  /\ up /\ (Opens(r) \/ Writes(r) \/ Renames(r))
  /\ UNCHANGED <<left, logVars, updateVars, uiVars, winVars>>
ControlFinished(r) ==
  /\ \/ up /\ Remembers(r) /\ UNCHANGED left
     \/ up /\ Fails(r)
     \/ ~up /\ Unanswered(r) /\ UNCHANGED left
  /\ IF r.heard THEN Polls ELSE UNCHANGED poll
  /\ UNCHANGED <<logVars, updateVars, uiVars, visible, booting, last_log_id, shown, taken>>

Update ==
  /\ Running /\ (Press \/ (UpdateStep /\ UNCHANGED left))
  /\ UNCHANGED <<logVars, prefVars, uiVars, winVars>>

-----------------------------------------------------------------------------
Init ==
  /\ left = Unspent
  /\ LogInit /\ PrefInit /\ UpdateInit
  /\ ui = [p \in Process |-> "none"] /\ ui_sock = 0 /\ show = FALSE
  /\ visible = FALSE /\ booting = FALSE /\ poll = NoPoll
  /\ last_log_id = 0 /\ shown = <<>> /\ taken = {}

Poll == Snapshot \/ Logs \/ ServiceUpdated

Next ==
  \/ Poll \/ Tick \/ ClearLogView \/ CloseRequested \/ DaemonReady
  \/ \E p \in Process : \/ Launch(p) \/ Boots(p) \/ Signals(p) \/ GivesUp(p)
                        \/ Exit(p) \/ Release(p) \/ Dies(p)
  \/ DaemonBegins \/ DaemonEnds
  \/ Log \/ SettingsChanged \/ Update
  \/ \E r \in saving : Saves(r) \/ ControlFinished(r)

\* The window's timer goes on, and requests are answered or fail.
Fairness == WF_vars(Tick) /\ WF_vars(Poll)

Spec == Init /\ [][Next]_vars
FairSpec == Spec /\ Fairness

-----------------------------------------------------------------------------
TypeOK ==
  /\ up \in BOOLEAN /\ life \in Nat /\ nextId \in Nat \ {0}
  /\ ring \in Seq(Record) /\ Len(ring) <= MaxInMemory
  /\ \A e \in emitting : e.record \in Record /\ e.step \in {"push", "write"}
  /\ DOMAIN files = Index /\ sink \in 0 .. Gone /\ (up /\ sink # Gone => files[sink] # Absent)
  /\ chosen \in Change /\ memory \in Change
  /\ inode \in [Change -> Change \cup {Torn, Empty}]
  /\ {settings, temporary} \subseteq Change \cup {None}
  /\ update \in UpdateState /\ part \in Contents /\ dmg \in Contents
  /\ ui \in [Process -> UiPC] /\ ui_sock \in {0} \cup Process
  /\ poll.step \in {"idle", "asked", "half", "answered"}
  /\ Len(shown) <= MaxShown

\* A record that the window will not ask for any more it has taken over - except
\* that one pushed after a record with a higher id, or pushed out of a full ring,
\* may be passed over, and that records of a restarted daemon are until their ids are
\* above those of the earlier ones (logs.rs emit, application.rs poll_snapshot).
NothingSkipped ==
  \A id \in (1 .. nextId - 1) \ Pending :
    LET record == [life |-> life, id |-> id]
    IN  Running /\ up /\ id <= last_log_id
        => \/ record \in taken \cup missable
           \/ \E r \in taken : r.life < life /\ r.id >= id

\* While window and daemon stay, the window gets whatever is in the ring.
FetchedAtLast ==
  <>[](Running /\ up) => []<>(\A k \in DOMAIN ring : ring[k].id <= last_log_id)

\* Read from the oldest to the newest, the files have the last records written, all
\* of them in order, whatever renaming failed (logs.rs rotate_files); and when any are
\* gone, as many full files are left as there are numbers, but for one for each failure.
FilesContinue ==
  LET all == FoldLeft(\o, <<>>, [k \in 1 .. MaxFiles + 1 |->
                        IF files[MaxFiles + 1 - k] = Absent THEN <<>> ELSE files[MaxFiles + 1 - k]])
      failed == Bound["failures"] - left.bound["failures"]
  IN  /\ \A k \in 1 .. Len(all) : all[k] = written - Len(all) + k
      /\ Len(all) < written => Len(all) + failed * MaxFileRecords >= MaxFiles * MaxFileRecords

\* The settings file can always be read, and is one change's (settings.rs save:
\* "Atomically saves preferences"); when no change is under way, the daemon, the
\* file and the window agree, unless a change has failed (daemon.rs SetSettings,
\* application.rs) - unless two changes were being saved at once.
SettingsAgree ==
  ~overlapped =>
    /\ Loadable
    /\ up /\ saving = {} => memory = Loaded /\ (Running /\ ~refused => chosen = memory)

\* The window shows that it checks, downloads or verifies exactly while one task of
\* its does, or has ended unheard (application.rs, views/settings.rs).
BusyWhileWorking ==
  /\ update \in {"Checking", "Downloading", "Verifying"} <=> worker # {} \/ events # <<>>
  /\ Cardinality(worker) <= 1

\* An image that has its name was verified, whatever was pressed, stopped or
\* started again before (updater.rs download_dmg).
OnlyVerified == dmg \in {"none", "whole"}

\* There is one window, and its socket is the one that further launches find
\* (instance.rs acquire, release).
OneWindow ==
  \A p \in Process : ui[p] = "runs" => /\ ui_sock = p
                                       /\ \A q \in Process \ {p} : ui[q] \notin HasLock

\* A launch that has told the process with the window brings the window up, unless
\* that process ends (instance.rs signal_existing, drain_show_requests).
Shows == show /\ Running ~> visible \/ ~Running
=============================================================================
