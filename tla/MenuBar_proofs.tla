---------------------------- MODULE MenuBar_proofs ----------------------------
(***************************************************************************)
(* Theorems about the menu-bar application, for any number of processes    *)
(* and of events of each kind: its single window, its update worker, and   *)
(* how preferences are saved.                                              *)
(***************************************************************************)
EXTENDS MenuBar, FoldFacts, SequenceTheorems

-----------------------------------------------------------------------------
(* The window.                                                             *)

\* The lock has one holder, whose socket file is there while it runs.
LockInv ==
  /\ ui \in [Process -> UiPC]
  /\ \A p, q \in Process : ui[p] \in HasLock /\ ui[q] \in HasLock => p = q
  /\ \A p \in Process : ui[p] = "runs" => ui_sock = p

LEMMA InitLockInv == Init => LockInv
  BY DEF Init, LockInv, UiPC, HasLock

LEMMA NextKeepsLockInv == LockInv /\ [Next]_vars => LockInv'
<1> SUFFICES ASSUME LockInv, [Next]_vars PROVE LockInv'
  OBVIOUS
<1>q. ASSUME UNCHANGED <<ui, ui_sock>> PROVE LockInv'
  BY <1>q DEF LockInv
<1>1. ASSUME NEW p \in Process, Launch(p) PROVE LockInv'
  BY <1>1 DEF LockInv, Launch, To, UiPC, HasLock
<1>2. ASSUME NEW p \in Process, Boots(p) PROVE LockInv'
  BY <1>2 DEF LockInv, Boots, To, UiPC, HasLock
<1>3. ASSUME NEW p \in Process, Signals(p) \/ GivesUp(p) PROVE LockInv'
  BY <1>3 DEF LockInv, Signals, GivesUp, To, UiPC, HasLock
<1>4. ASSUME NEW p \in Process, Exit(p) \/ Dies(p) PROVE LockInv'
  BY <1>4 DEF LockInv, Exit, Dies, To, UiPC, HasLock
<1>5. ASSUME NEW p \in Process, Release(p) PROVE LockInv'
  BY <1>5 DEF LockInv, Release, Leaves, To, UiPC, HasLock
<1>6. CASE Poll \/ Tick \/ ClearLogView \/ CloseRequested \/ DaemonReady
  BY <1>q, <1>6 DEF Poll, Snapshot, Logs, ServiceUpdated, Tick, ClearLogView,
     CloseRequested, DaemonReady, uiVars
<1>7. CASE DaemonBegins \/ DaemonEnds \/ Log \/ SettingsChanged \/ Update
  BY <1>q, <1>7 DEF DaemonBegins, DaemonEnds, Log, SettingsChanged, Update, uiVars
<1>8. ASSUME NEW r \in saving, Saves(r) \/ ControlFinished(r) PROVE LockInv'
  BY <1>q, <1>8 DEF Saves, ControlFinished, uiVars
<1>9. CASE UNCHANGED vars
  BY <1>q, <1>9 DEF vars, uiVars
<1> QED
  BY <1>1, <1>2, <1>3, <1>4, <1>5, <1>6, <1>7, <1>8, <1>9 DEF Next

\* However many processes are launched, stopped and killed, one has a window at a
\* time, and the socket file is its own.
THEOREM OneWindowAlways == Spec => []OneWindow
<1>1. LockInv => OneWindow
  BY DEF LockInv, OneWindow, HasLock
<1> QED BY <1>1, InitLockInv, NextKeepsLockInv, PTL DEF Spec

-----------------------------------------------------------------------------
(* The update worker.                                                      *)

CheckAnswers == {"release", "nothing newer", "no asset", "check failed"}
Outcomes == {"finished", "failed"}

\* What the window shows, what its task does and what it has not heard go together:
\* no task and nothing to hear; a check, or its reply; a download before it is
\* verified, or its failure; a download being verified, or its end, with the news
\* of it heard or not.
Quiet == worker = {} /\ events = <<>> /\ update \in UpdateState \ {"Checking", "Downloading", "Verifying"}
Checking ==
  /\ update = "Checking"
  /\ \/ worker = {Task("checking")} /\ events = <<>>
     \/ worker = {} /\ \E reply \in CheckAnswers : events = <<reply>>
Downloading ==
  /\ update = "Downloading"
  /\ \/ (\E step \in {"starting", "fetching"} : worker = {Task(step)}) /\ events = <<>>
     \/ worker = {} /\ events = <<"failed">>
     \/ (\E step \in {"verifying", "naming"} : worker = {Task(step)}) /\ events = <<"verifying">>
     \/ worker = {} /\ \E outcome \in Outcomes : events = <<"verifying", outcome>>
Verifying ==
  /\ update = "Verifying"
  /\ \/ (\E step \in {"verifying", "naming"} : worker = {Task(step)}) /\ events = <<>>
     \/ worker = {} /\ \E outcome \in Outcomes : events = <<outcome>>
UpdateInv ==
  /\ Quiet \/ Checking \/ Downloading \/ Verifying
  /\ Task("naming") \in worker => part = "whole"
  /\ OnlyVerified

LEMMA InitUpdateInv == Init => UpdateInv
  BY DEF Init, UpdateInit, UpdateInv, Quiet, UpdateState, OnlyVerified

\* A task that works is the only one, and what it does says the rest.
LEMMA TheTask ==
  ASSUME UpdateInv, NEW w \in worker
  PROVE  /\ worker = {w} /\ w = Task(w.step)
         /\ \/ w.step = "checking" /\ update = "Checking" /\ events = <<>>
            \/ w.step \in {"starting", "fetching"} /\ update = "Downloading" /\ events = <<>>
            \/ /\ w.step \in {"verifying", "naming"}
               /\ \/ update = "Downloading" /\ events = <<"verifying">>
                  \/ update = "Verifying" /\ events = <<>>
  BY DEF UpdateInv, Quiet, Checking, Downloading, Verifying, Task

\* A task goes on to its next step, or ends with a word to the window.
LEMMA TaskDoes ==
  ASSUME NEW w, worker = {w}, NEW step, Does(w, step)
  PROVE  worker' = {Task(step)}
  BY DEF Does, Task
LEMMA AppendFirst ==
  ASSUME NEW b
  PROVE  Append(<<>>, b) = <<b>>
<1> DEFINE S == {b}
<1>1. b \in S /\ <<>> \in Seq(S)
  OBVIOUS
<1> HIDE DEF S
<1> QED BY <1>1
LEMMA AppendSecond ==
  ASSUME NEW a, NEW b
  PROVE  Append(<<a>>, b) = <<a, b>>
<1> DEFINE S == {a, b}
<1>1. a \in S /\ b \in S
  OBVIOUS
<1> HIDE DEF S
<1>2. <<a>> \in Seq(S) /\ Len(<<a>>) = 1 /\ <<a>>[1] = a
  BY <1>1
<1>3. <<a, b>> \in Seq(S) /\ Len(<<a, b>>) = 2 /\ <<a, b>>[1] = a /\ <<a, b>>[2] = b
  BY <1>1
<1>4. /\ Append(<<a>>, b) \in Seq(S) /\ Len(Append(<<a>>, b)) = 2
      /\ Append(<<a>>, b)[1] = a /\ Append(<<a>>, b)[2] = b
  BY <1>1, <1>2, AppendProperties
<1>5. \A i \in 1 .. 2 : Append(<<a>>, b)[i] = <<a, b>>[i]
  BY <1>3, <1>4
<1> QED BY <1>3, <1>4, <1>5, SeqEqual
LEMMA TaskStops ==
  ASSUME NEW w, worker = {w}, NEW event, Stops(w, event)
  PROVE  /\ worker' = {}
         /\ events = <<>> => events' = <<event>>
         /\ events = <<"verifying">> => events' = <<"verifying", event>>
<1>1. worker' = {}
  BY DEF Stops
<1>2. events' = Append(events, event)
  BY DEF Stops, Says
<1>3. events = <<>> => events' = <<event>>
  BY <1>2, AppendFirst
<1>4. events = <<"verifying">> => events' = <<"verifying", event>>
  BY <1>2, AppendSecond
<1> QED BY <1>1, <1>3, <1>4

LEMMA NamesOnlyOne ==
  ASSUME NEW step, Task("naming") \in {Task(step)}
  PROVE  step = "naming"
  BY DEF Task

\* A step of the task.
LEMMA TaskKeepsUpdateInv ==
  ASSUME UpdateInv, NEW w \in worker,
         Checks(w) \/ Fetches(w) \/ Fetched(w) \/ Verifies(w) \/ Discards(w) \/ Names(w)
  PROVE  UpdateInv'
<1>0. /\ worker = {w} /\ w = Task(w.step)
      /\ \/ w.step = "checking" /\ update = "Checking" /\ events = <<>>
         \/ w.step \in {"starting", "fetching"} /\ update = "Downloading" /\ events = <<>>
         \/ /\ w.step \in {"verifying", "naming"}
            /\ \/ update = "Downloading" /\ events = <<"verifying">>
               \/ update = "Verifying" /\ events = <<>>
  BY TheTask
<1>1. OnlyVerified /\ (w.step = "naming" => part = "whole")
  BY <1>0 DEF UpdateInv
<1>2. CASE Checks(w)
  <2>1. PICK reply \in CheckAnswers : Stops(w, reply)
    BY <1>2 DEF Checks, CheckAnswers
  <2>2. worker' = {} /\ events' = <<reply>> /\ update' = "Checking" /\ UNCHANGED dmg
    BY <1>0, <1>2, <2>1, TaskStops DEF Checks
  <2> QED BY <1>1, <2>2 DEF UpdateInv, Checking, OnlyVerified
<1>3. CASE Fetches(w)
  <2>1. worker' = {Task("fetching")} /\ events' = <<>> /\ update' = "Downloading"
        /\ UNCHANGED dmg
    BY <1>0, <1>3, TaskDoes DEF Fetches
  <2> QED BY <1>1, <2>1, NamesOnlyOne DEF UpdateInv, Downloading, OnlyVerified
<1>4. CASE Fetched(w)
  <2>1. /\ worker' = {Task("verifying")} /\ update' = "Downloading" /\ UNCHANGED dmg
        /\ events = <<>> /\ events' = Append(events, "verifying")
    BY <1>0, <1>4, TaskDoes DEF Fetched, Says
  <2>2. events' = <<"verifying">>
    BY <2>1
  <2> QED BY <1>1, <2>1, <2>2, NamesOnlyOne DEF UpdateInv, Downloading, OnlyVerified
<1>5. CASE Verifies(w)
  <2>1. worker' = {Task("naming")} /\ part' = "whole" /\ UNCHANGED <<update, events, dmg>>
        /\ w.step = "verifying"
    BY <1>0, <1>5, TaskDoes DEF Verifies, Verified
  <2>2. Downloading' \/ Verifying'
    BY <1>0, <2>1 DEF Downloading, Verifying
  <2> QED BY <1>1, <2>1, <2>2 DEF UpdateInv, OnlyVerified
<1>6. ASSUME NEW outcome \in Outcomes, Stops(w, outcome), UNCHANGED update,
             \/ w.step \in {"verifying", "naming"}
             \/ w.step = "fetching" /\ outcome = "failed"
      PROVE  worker' = {} /\ (Downloading' \/ Verifying')
  <2>1. /\ worker' = {}
        /\ events = <<>> => events' = <<outcome>>
        /\ events = <<"verifying">> => events' = <<"verifying", outcome>>
    BY <1>0, <1>6, TaskStops
  <2> QED BY <1>0, <1>6, <2>1 DEF Downloading, Verifying
<1>7. CASE Discards(w)
  BY <1>1, <1>6, <1>7 DEF Discards, Outcomes, UpdateInv, OnlyVerified
<1>8. CASE Names(w)
  <2>1. \E outcome \in Outcomes : Stops(w, outcome)
    BY <1>8 DEF Names, Outcomes
  <2>2. worker' = {} /\ (Downloading' \/ Verifying')
    BY <1>6, <1>8, <2>1 DEF Names
  <2>3. OnlyVerified'
    BY <1>1, <1>8 DEF Names, OnlyVerified
  <2> QED BY <2>2, <2>3 DEF UpdateInv
<1> QED BY <1>2, <1>3, <1>4, <1>5, <1>7, <1>8

\* The window hears what its task has said.
LEMMA HearsKeepsUpdateInv ==
  ASSUME UpdateInv, Hears
  PROVE  UpdateInv'
<1>0. UNCHANGED <<part, dmg>> /\ events # <<>> /\ events' = Tail(events)
  BY DEF Hears
<1>1. CASE Checking
  <2>1. PICK reply \in CheckAnswers : worker = {} /\ events = <<reply>>
    BY <1>0, <1>1 DEF Checking
  <2>2. Head(events) = reply /\ events' = <<>>
    BY <1>0, <2>1
  <2>3. CASE reply = "release"
    <3>1. update' = "Downloading" /\ worker' = {Task("starting")}
      BY <2>1, <2>2, <2>3 DEF Hears, Answered, Begins
    <3> QED BY <1>0, <2>2, <3>1, NamesOnlyOne DEF UpdateInv, Downloading, OnlyVerified
  <2>4. CASE reply # "release"
    <3>1. update' \in {"UpToDate", "CheckFailed"} /\ worker' = {}
      BY <2>1, <2>2, <2>4 DEF Hears, Answered, CheckAnswers
    <3> QED BY <1>0, <2>2, <3>1 DEF UpdateInv, Quiet, UpdateState, OnlyVerified
  <2> QED BY <2>3, <2>4
<1>2. CASE Downloading /\ \/ worker = {} /\ events = <<"failed">>
  <2>1. Head(events) = "failed" /\ events' = <<>> /\ update = "Downloading"
    BY <1>0, <1>2 DEF Downloading
  <2>2. update' = "DownloadFailed" /\ worker' = {}
    BY <1>2, <2>1 DEF Hears, Finished
  <2> QED BY <1>0, <2>1, <2>2 DEF UpdateInv, Quiet, UpdateState, OnlyVerified
<1>3. CASE /\ update = "Downloading" /\ events = <<"verifying">>
           /\ \E step \in {"verifying", "naming"} : worker = {Task(step)}
  <2>1. Head(events) = "verifying" /\ events' = <<>>
    BY <1>0, <1>3
  <2>2. update' = "Verifying" /\ worker' = worker
    BY <1>3, <2>1 DEF Hears
  <2> QED BY <1>0, <1>3, <2>1, <2>2 DEF UpdateInv, Verifying, OnlyVerified
<1>4. CASE /\ update = "Downloading" /\ worker = {}
           /\ \E outcome \in Outcomes : events = <<"verifying", outcome>>
  <2>1. PICK outcome \in Outcomes : events = <<"verifying", outcome>>
    BY <1>4
  <2>2. Head(events) = "verifying" /\ events' = <<outcome>>
    BY <1>0, <2>1
  <2>3. update' = "Verifying" /\ worker' = {}
    BY <1>4, <2>2 DEF Hears
  <2> QED BY <1>0, <2>2, <2>3 DEF UpdateInv, Verifying, OnlyVerified
<1>5. CASE Verifying
  <2>1. PICK outcome \in Outcomes : worker = {} /\ events = <<outcome>>
    BY <1>0, <1>5 DEF Verifying
  <2>2. Head(events) = outcome /\ events' = <<>>
    BY <1>0, <2>1
  <2>3. update' \in {"Downloaded", "DownloadFailed"} /\ worker' = {}
    BY <1>5, <2>1, <2>2 DEF Hears, Finished, Outcomes, Verifying
  <2> QED BY <1>0, <2>2, <2>3 DEF UpdateInv, Quiet, UpdateState, OnlyVerified
<1> QED
  BY <1>0, <1>1, <1>2, <1>3, <1>4, <1>5 DEF UpdateInv, Quiet, Downloading

LEMMA NextKeepsUpdateInv == UpdateInv /\ [Next]_vars => UpdateInv'
<1> SUFFICES ASSUME UpdateInv, [Next]_vars PROVE UpdateInv'
  OBVIOUS
<1>q. ASSUME UNCHANGED updateVars PROVE UpdateInv'
  BY <1>q DEF updateVars, UpdateInv, Quiet, Checking, Downloading, Verifying, OnlyVerified
<1>1. CASE Update
  <2>1. CASE Press
    <3>1. UNCHANGED <<events, part, dmg>> /\ Quiet
      BY <2>1 DEF Press, CanCheck, CanRetry, UpdateInv, Quiet, Checking, Downloading, Verifying
    <3>2. \/ update' = "Checking" /\ worker' = {Task("checking")}
          \/ update' = "Downloading" /\ worker' = {Task("starting")}
      BY <2>1, <3>1 DEF Press, Begins, Quiet
    <3> QED BY <3>1, <3>2, NamesOnlyOne
        DEF UpdateInv, Quiet, Checking, Downloading, OnlyVerified
  <2> QED BY <1>1, <2>1, TaskKeepsUpdateInv, HearsKeepsUpdateInv DEF Update, UpdateStep
<1>2. ASSUME NEW p \in Process, Exit(p) \/ Dies(p) PROVE UpdateInv'
  BY <1>2 DEF Exit, Dies, WindowEnds, UpdateWindowEnds, UpdateInv, Quiet, UpdateState,
     OnlyVerified
<1>3. ASSUME NEW p \in Process,
             Launch(p) \/ Boots(p) \/ Signals(p) \/ GivesUp(p) \/ Release(p)
      PROVE  UpdateInv'
  BY <1>q, <1>3 DEF Launch, Boots, Signals, GivesUp, Release
<1>4. CASE Poll \/ Tick \/ ClearLogView \/ CloseRequested \/ DaemonReady
  BY <1>q, <1>4 DEF Poll, Snapshot, Logs, ServiceUpdated, Tick, ClearLogView,
     CloseRequested, DaemonReady
<1>5. CASE DaemonBegins \/ DaemonEnds \/ Log \/ SettingsChanged
  BY <1>q, <1>5 DEF DaemonBegins, DaemonEnds, Log, SettingsChanged
<1>6. ASSUME NEW r \in saving, Saves(r) \/ ControlFinished(r) PROVE UpdateInv'
  BY <1>q, <1>6 DEF Saves, ControlFinished
<1>7. CASE UNCHANGED vars
  BY <1>q, <1>7 DEF vars
<1> QED
  BY <1>1, <1>2, <1>3, <1>4, <1>5, <1>6, <1>7 DEF Next

\* An image that has its name was verified, whatever was pressed, stopped or begun
\* again meanwhile.
THEOREM OnlyVerifiedAlways == Spec => []OnlyVerified
<1>1. UpdateInv => OnlyVerified
  BY DEF UpdateInv
<1> QED BY <1>1, InitUpdateInv, NextKeepsUpdateInv, PTL DEF Spec

\* The window says that it works exactly while a task of its does or has ended
\* unheard, and there is one task at most.
THEOREM BusyWhileWorkingAlways == Spec => []BusyWhileWorking
<1>1. UpdateInv => BusyWhileWorking
  <2> SUFFICES ASSUME UpdateInv PROVE BusyWhileWorking
    OBVIOUS
  <2>1. worker = {} \/ \E w : worker = {w}
    BY DEF UpdateInv, Quiet, Checking, Downloading, Verifying
  <2>2. Cardinality(worker) <= 1
    <3>1. CASE worker = {}
      BY <3>1, FS_EmptySet
    <3>2. ASSUME NEW w, worker = {w} PROVE Cardinality(worker) <= 1
      BY <3>2, FS_Singleton
    <3> QED BY <2>1, <3>1, <3>2
  <2>3. update \in {"Checking", "Downloading", "Verifying"} <=> worker # {} \/ events # <<>>
    BY DEF UpdateInv, Quiet, Checking, Downloading, Verifying
  <2> QED BY <2>2, <2>3 DEF BusyWhileWorking
<1> QED BY <1>1, InitUpdateInv, NextKeepsUpdateInv, PTL DEF Spec

-----------------------------------------------------------------------------
(* Saving preferences.                                                     *)

Request == [change : Nat, step : {"sent", "open", "written", "renamed"}, file : Nat,
            heard : BOOLEAN]

\* The changes there have been; the files are named by the changes that made them.
Used == MaxChanges - left.bound["changes"]

LeftInv ==
  /\ left \in [bound : [Kind -> Nat], events : Nat]
  /\ left.bound["changes"] <= MaxChanges

\* How far the one request under way is, and what it has left behind so far: until
\* it renames its file nobody has seen anything of it.
Stage(r) ==
  \/ /\ r.step = "sent" /\ settings # r.change /\ temporary # r.change
     /\ up => memory = Loaded
  \/ /\ r.step = "open" /\ up /\ memory = Loaded
     /\ temporary = r.file /\ r.file \in Change /\ inode[r.file] = Empty
  \/ /\ r.step = "written" /\ up /\ memory = Loaded
     /\ temporary = r.file /\ r.file \in Change /\ inode[r.file] = r.change
  \/ r.step = "renamed" /\ up /\ Loaded = r.change

\* The settings file is not the temporary one and can be read ...
FilesApart ==
  /\ inode \in [Change -> Nat]
  /\ settings \in Change \cup {None} /\ temporary \in Change \cup {None}
  /\ settings # None => settings <= Used /\ temporary # settings
  /\ temporary # None => temporary <= Used
  /\ Loadable

\* ... and what is in it, what the daemon has in memory and what the window shows are
\* one, but for the request under way.
OneByOne ==
  /\ FilesApart
  /\ saving = {} => /\ Running /\ ~refused => chosen = Loaded
                    /\ up => memory = Loaded
  /\ \A r \in saving : /\ saving = {r} /\ r \in Request /\ r.change \in 1 .. Used
                       /\ Running /\ ~refused => chosen = r.change
                       /\ Stage(r)

SavingInv == LeftInv /\ (~overlapped => OneByOne)

LEMMA NamesOfFiles ==
  /\ MaxChanges \in Nat /\ None \in Nat \ Change /\ Empty \in Nat \ Change /\ Torn \in Nat
  /\ Change \subseteq Nat /\ \A c \in Change : c <= MaxChanges
  BY ChangesAssumption DEF None, Empty, Torn, Change

LEMMA InitSavingInv == Init => SavingInv
<1> SUFFICES ASSUME Init PROVE SavingInv
  OBVIOUS
<1>1. LeftInv
  BY BoundAssumption, ChangesAssumption DEF Init, Unspent, LeftInv, Kind
<1>2. inode \in [Change -> Nat] /\ settings = None /\ temporary = None /\ saving = {}
  BY NamesOfFiles DEF Init, PrefInit
<1>3. Loaded = 0 /\ memory = 0 /\ chosen = 0 /\ 0 \in Change
  BY <1>2, NamesOfFiles DEF Init, PrefInit, Loaded, Change
<1> QED BY <1>1, <1>2, <1>3 DEF SavingInv, OneByOne, FilesApart, Loadable

LEMMA SpendsKeepsLeft ==
  ASSUME LeftInv, NEW kind \in Kind, Spends(kind)
  PROVE  /\ LeftInv' /\ Used <= Used' /\ Used \in 0 .. MaxChanges /\ Used' \in 0 .. MaxChanges
         /\ kind = "changes" => Used' = Used + 1
<1>1. left.bound \in [Kind -> Nat] /\ left.events \in Nat /\ "changes" \in Kind
      /\ left.bound[kind] > 0 /\ left.events > 0
  BY DEF LeftInv, Spends, Kind
<1>2. left' = [bound |-> [left.bound EXCEPT ![kind] = @ - 1], events |-> left.events - 1]
  BY DEF Spends
<1>3. left'.bound = [left.bound EXCEPT ![kind] = @ - 1] /\ left'.events = left.events - 1
  BY <1>2
<1>4. left'.bound \in [Kind -> Nat] /\ left'.events \in Nat
  BY <1>1, <1>3
<1>5. left' \in [bound : [Kind -> Nat], events : Nat]
  BY <1>2, <1>3, <1>4
<1>6. left'.bound["changes"] = IF kind = "changes" THEN left.bound["changes"] - 1
                               ELSE left.bound["changes"]
  BY <1>1, <1>3
<1> QED BY <1>1, <1>4, <1>5, <1>6, NamesOfFiles DEF LeftInv, Used

LEMMA UsedType == LeftInv => Used \in 0 .. MaxChanges
  BY NamesOfFiles DEF LeftInv, Used, Kind

Frame == UNCHANGED left \/ \E kind \in Kind : Spends(kind)

LEMMA FrameKeepsLeft ==
  ASSUME LeftInv, Frame
  PROVE  LeftInv' /\ Used <= Used' /\ Used \in 0 .. MaxChanges /\ Used' \in 0 .. MaxChanges
<1>1. CASE UNCHANGED left
  BY <1>1, UsedType DEF LeftInv, Used
<1> QED BY <1>1, SpendsKeepsLeft DEF Frame

\* What does not concern preferences: a window may end, the bounds be spent.
LEMMA OthersKeepSavingInv ==
  ASSUME SavingInv, Frame, UNCHANGED <<prefVars, up>>, Running' => Running
  PROVE  SavingInv'
<1>1. /\ LeftInv' /\ Used <= Used' /\ Used \in Nat /\ Used' \in Nat
      /\ \A n \in Nat : n <= Used => n <= Used'
  BY FrameKeepsLeft, NamesOfFiles DEF SavingInv
<1>2. UNCHANGED <<chosen, memory, inode, settings, temporary, saving, overlapped, refused>>
  BY DEF prefVars
<1>3. Loaded' = Loaded
  BY <1>2 DEF Loaded
<1>4. ASSUME ~overlapped PROVE OneByOne'
  <2>1. OneByOne
    BY <1>4 DEF SavingInv
  <2>2. FilesApart'
    BY <1>1, <1>2, <1>3, <2>1, NamesOfFiles DEF OneByOne, FilesApart, Loadable
  <2>3. \A r \in saving : r.change \in 1 .. Used'
    BY <1>1, <2>1 DEF OneByOne
  <2>4. \A r \in saving : Stage(r)'
    BY <1>2, <1>3, <2>1 DEF OneByOne, Stage
  <2> QED BY <1>2, <1>3, <2>1, <2>2, <2>3, <2>4 DEF OneByOne
<1> QED BY <1>1, <1>2, <1>4 DEF SavingInv

\* A change in the window: it is the only one, or the history says so.
LEMMA ChangeKeepsSavingInv ==
  ASSUME SavingInv, SettingsChanged PROVE SavingInv'
<1>1. PICK c \in Change : Chooses(c)
  BY DEF SettingsChanged
<1>2. LeftInv' /\ Used' = Used + 1 /\ Used \in 0 .. MaxChanges /\ Used' \in 0 .. MaxChanges
  BY <1>1, SpendsKeepsLeft DEF Chooses, SavingInv, Kind
<1> DEFINE new == [change |-> c, step |-> "sent", file |-> None, heard |-> TRUE]
<1>3. c = Used'
  BY <1>1, <1>2 DEF Chooses, Used
<1>4. UNCHANGED <<memory, inode, settings, temporary, refused, up>> /\ chosen' = c
      /\ saving' = saving \cup {new}
  BY <1>1 DEF Chooses, SettingsChanged, logVars
<1>5. ASSUME ~overlapped' PROVE OneByOne'
  <2>1. saving = {} /\ ~overlapped /\ OneByOne
    BY <1>1, <1>5 DEF Chooses, SavingInv
  <2>2. Loaded' = Loaded
    BY <1>4 DEF Loaded
  <2>3. FilesApart'
    BY <1>2, <1>4, <2>1, <2>2, NamesOfFiles DEF OneByOne, FilesApart, Loadable
  <2>4. settings # c /\ temporary # c
    BY <1>2, <1>3, <2>1, NamesOfFiles DEF OneByOne, FilesApart
  <2>5. saving' = {new} /\ new \in Request /\ new.change \in 1 .. Used'
    <3>1. new \in Request /\ new.change = c
      BY <1>2, <1>3, NamesOfFiles DEF Request
    <3> HIDE DEF new
    <3>2. c \in 1 .. Used'
      BY <1>2, <1>3
    <3> QED BY <1>4, <2>1, <3>1, <3>2
  <2>6. Stage(new)'
    BY <1>4, <2>1, <2>2, <2>4 DEF Stage, OneByOne
  <2>7. chosen' = new.change
    BY <1>4
  <2> HIDE DEF new
  <2> QED BY <2>3, <2>5, <2>6, <2>7 DEF OneByOne
<1> QED BY <1>2, <1>5 DEF SavingInv

\* A step of the request towards its end.
LEMMA RequestKeepsSavingInv ==
  ASSUME SavingInv, NEW r \in saving, Saves(r) PROVE SavingInv'
<1>0. /\ LeftInv /\ LeftInv' /\ Used' = Used /\ Used \in 0 .. MaxChanges
      /\ UNCHANGED <<chosen, memory, overlapped, refused, up, ui>> /\ up
  BY UsedType DEF SavingInv, Saves, Opens, Writes, Renames, Moves, LeftInv, Used, logVars, uiVars
<1>1. ASSUME ~overlapped PROVE OneByOne'
  <2>0. /\ OneByOne /\ saving = {r} /\ r \in Request /\ r.change \in 1 .. Used /\ Stage(r)
        /\ r.change \in Change /\ r.change \in Nat /\ r.change # None
        /\ Running /\ ~refused => chosen = r.change
    BY <1>0, <1>1, NamesOfFiles DEF SavingInv, OneByOne, Change
  <2>r. Running' <=> Running
    BY <1>0 DEF Running
  <2>m. ASSUME NEW q, saving' = {q}, q \in Request, q.change = r.change, FilesApart', Stage(q)'
        PROVE  OneByOne'
    BY <1>0, <2>0, <2>r, <2>m DEF OneByOne
  <2>1. CASE Opens(r)
    <3> DEFINE file == IF temporary = None THEN r.change ELSE temporary
               opened == [r EXCEPT !.step = "open", !.file = file]
    <3>1. /\ temporary' = file /\ inode' = [inode EXCEPT ![file] = Empty] /\ settings' = settings
          /\ saving' = (saving \ {r}) \cup {opened} /\ r.step = "sent"
      BY <2>1 DEF Opens, At
    <3>2. file \in Change /\ file # settings /\ file <= Used /\ file # None /\ file \in Nat
      BY <1>0, <2>0, <3>1, NamesOfFiles DEF Stage, OneByOne, FilesApart
    <3> HIDE DEF file
    <3>a. /\ opened \in Request /\ opened.change = r.change /\ opened.step = "open"
          /\ opened.file = file
      BY <2>0, <3>2 DEF Request
    <3> HIDE DEF opened
    <3>3. PICK q : /\ saving' = {q} /\ q \in Request /\ q.change = r.change /\ q.step = "open"
                   /\ q.file = temporary'
      BY <2>0, <3>1, <3>a
    <3>4. inode \in [Change -> Nat] /\ settings \in Change \cup {None} /\ Loadable
          /\ (settings # None => settings <= Used)
      BY <2>0 DEF OneByOne, FilesApart
    <3>5. inode' \in [Change -> Nat] /\ inode'[temporary'] = Empty /\ Loaded' = Loaded
      BY <3>1, <3>2, <3>4, NamesOfFiles DEF Loaded
    <3>6. FilesApart'
      BY <1>0, <3>1, <3>2, <3>4, <3>5 DEF FilesApart, Loadable
    <3>7. Stage(q)'
      <4>1. memory = Loaded /\ up /\ up' /\ memory' = memory
        BY <1>0, <2>0, <3>1 DEF Stage
      <4> QED BY <3>1, <3>2, <3>3, <3>5, <4>1 DEF Stage
    <3> QED BY <2>m, <3>3, <3>6, <3>7
  <2>2. CASE Writes(r)
    <3> DEFINE q == [r EXCEPT !.step = "written"]
    <3>1. /\ r.step = "open" /\ saving' = (saving \ {r}) \cup {q}
          /\ UNCHANGED <<settings, temporary>>
      BY <2>2 DEF Writes, At, Moves
    <3>2. temporary = r.file /\ r.file \in Change /\ inode[r.file] = Empty /\ memory = Loaded
      BY <2>0, <3>1 DEF Stage
    <3>3. inode' = [inode EXCEPT ![r.file] = r.change]
      BY <2>2, <3>2 DEF Writes
    <3>a. q \in Request /\ q.change = r.change /\ q.step = "written" /\ q.file = r.file
      BY <2>0 DEF Request
    <3> HIDE DEF q
    <3>4. saving' = {q} /\ q \in Request /\ q.change = r.change /\ q.step = "written" /\ q.file = r.file
      BY <2>0, <3>1, <3>a
    <3>5. /\ inode \in [Change -> Nat] /\ settings \in Change \cup {None} /\ Loadable
          /\ settings # None => settings <= Used /\ temporary # settings
          /\ temporary <= Used
      BY <2>0, <3>2, NamesOfFiles DEF OneByOne, FilesApart
    <3>6. inode' \in [Change -> Nat] /\ inode'[r.file] = r.change /\ Loaded' = Loaded
      BY <2>0, <3>1, <3>2, <3>3, <3>5, NamesOfFiles DEF Loaded
    <3>7. FilesApart'
      BY <1>0, <3>1, <3>2, <3>5, <3>6 DEF FilesApart, Loadable
    <3>8. Stage(q)'
      BY <1>0, <3>1, <3>2, <3>4, <3>6 DEF Stage
    <3> QED BY <2>m, <3>4, <3>7, <3>8
  <2>3. CASE Renames(r)
    <3> DEFINE q == [r EXCEPT !.step = "renamed"]
    <3>1. /\ r.step = "written" /\ saving' = (saving \ {r}) \cup {q}
          /\ settings' = temporary /\ temporary' = None /\ inode' = inode
      BY <2>3 DEF Renames, At, Moves
    <3>2. temporary = r.file /\ r.file \in Change /\ inode[r.file] = r.change
      BY <2>0, <3>1 DEF Stage
    <3>a. q \in Request /\ q.change = r.change /\ q.step = "renamed"
      BY <2>0 DEF Request
    <3> HIDE DEF q
    <3>3. saving' = {q} /\ q \in Request /\ q.change = r.change /\ q.step = "renamed"
      BY <2>0, <3>1, <3>a
    <3>4. Loaded' = r.change
      BY <3>1, <3>2, NamesOfFiles DEF Loaded
    <3>5. FilesApart'
      BY <1>0, <2>0, <3>1, <3>2, <3>4, NamesOfFiles DEF OneByOne, FilesApart, Loadable
    <3>6. Stage(q)'
      BY <1>0, <3>3, <3>4 DEF Stage
    <3> QED BY <2>m, <3>3, <3>5, <3>6
  <2> QED BY <2>1, <2>2, <2>3 DEF Saves
<1> QED BY <1>0, <1>1 DEF SavingInv

\* Its end: done, or refused.
LEMMA EndKeepsSavingInv ==
  ASSUME SavingInv, NEW r \in saving, ControlFinished(r) PROVE SavingInv'
<1>0. /\ UNCHANGED <<chosen, inode, settings, overlapped, up, ui>> /\ saving' = saving \ {r}
      /\ Frame /\ (Remembers(r) \/ refused')
  BY DEF ControlFinished, Remembers, Fails, Unanswered, Ends, Frame, Kind, logVars, uiVars
<1>1. LeftInv' /\ Used <= Used' /\ Used \in 0 .. MaxChanges /\ Used' \in 0 .. MaxChanges
  BY <1>0, FrameKeepsLeft DEF SavingInv
<1>2. ASSUME ~overlapped PROVE OneByOne'
  <2>0. /\ OneByOne /\ saving = {r} /\ Stage(r) /\ (Running /\ ~refused => chosen = r.change)
    BY <1>2 DEF SavingInv, OneByOne
  <2>1. saving' = {} /\ Loaded' = Loaded /\ (Running' <=> Running)
    BY <1>0, <2>0 DEF Loaded, Running
  <2>2. temporary' \in {temporary, None}
    BY DEF ControlFinished, Remembers, Fails, Unanswered
  <2>3. FilesApart'
    BY <1>0, <1>1, <2>0, <2>1, <2>2, NamesOfFiles DEF OneByOne, FilesApart, Loadable
  <2>4. CASE Remembers(r)
    <3>1. r.step = "renamed" /\ memory' = r.change /\ refused' = refused
      BY <2>4 DEF Remembers, Keeps, At
    <3>2. Loaded = r.change
      BY <2>0, <3>1 DEF Stage
    <3> QED BY <1>0, <2>0, <2>1, <2>3, <3>1, <3>2 DEF OneByOne
  <2>5. CASE up /\ Fails(r)
    <3>1. r.step # "renamed" /\ memory' = memory /\ refused'
      BY <2>5 DEF Fails, At
    <3>2. memory = Loaded
      BY <2>0, <2>5, <3>1 DEF Stage
    <3> QED BY <1>0, <2>1, <2>3, <3>1, <3>2 DEF OneByOne
  <2>6. CASE ~up /\ Unanswered(r)
    BY <1>0, <2>1, <2>3, <2>6 DEF Unanswered, OneByOne
  <2> QED BY <2>4, <2>5, <2>6 DEF ControlFinished
<1> QED BY <1>0, <1>1, <1>2 DEF SavingInv

\* A window begins with what is in the file; one that ends leaves its request to go
\* on unheard.
LEMMA WindowKeepsSavingInv ==
  ASSUME SavingInv, NEW p \in Process, Boots(p) \/ Exit(p) \/ Dies(p),
         ui \in [Process -> UiPC]
  PROVE  SavingInv'
<1>1. CASE Boots(p)
  <2>1. /\ UNCHANGED <<left, memory, inode, settings, temporary, saving, refused, up>>
        /\ chosen' = IF Loadable THEN Loaded ELSE 0
        /\ overlapped' = (overlapped \/ saving # {})
    BY <1>1 DEF Boots, PrefWindowBegins, logVars
  <2>2. LeftInv' /\ Used' = Used
    BY <2>1 DEF SavingInv, LeftInv, Used
  <2>3. ASSUME ~overlapped' PROVE OneByOne'
    <3>1. ~overlapped /\ saving = {} /\ OneByOne
      BY <2>1, <2>3 DEF SavingInv
    <3>2. Loaded' = Loaded /\ Loadable /\ chosen' = Loaded
      BY <2>1, <3>1 DEF Loaded, OneByOne, FilesApart
    <3>3. FilesApart'
      BY <2>1, <2>2, <3>1, <3>2 DEF OneByOne, FilesApart, Loadable
    <3> QED BY <2>1, <3>1, <3>2, <3>3 DEF OneByOne
  <2> QED BY <2>2, <2>3 DEF SavingInv
<1>2. CASE Exit(p) \/ Dies(p)
  <2>1. /\ UNCHANGED <<chosen, memory, inode, settings, temporary, overlapped, refused, up>>
        /\ saving' = {[r EXCEPT !.heard = FALSE] : r \in saving}
        /\ Frame
    BY <1>2 DEF Exit, Dies, WindowEnds, PrefWindowEnds, logVars, Frame, Kind
  <2>2. Running' => Running
    BY <1>2 DEF Exit, Dies, To, Running
  <2>3. LeftInv' /\ Used <= Used' /\ Used \in 0 .. MaxChanges /\ Used' \in 0 .. MaxChanges
    BY <2>1, FrameKeepsLeft DEF SavingInv
  <2>4. ASSUME ~overlapped PROVE OneByOne'
    <3>1. OneByOne /\ Loaded' = Loaded
      BY <2>1, <2>4 DEF SavingInv, Loaded
    <3>2. FilesApart'
      BY <2>1, <2>3, <3>1, NamesOfFiles DEF OneByOne, FilesApart, Loadable
    <3>3. CASE saving = {}
      BY <2>1, <2>2, <3>1, <3>2, <3>3 DEF OneByOne
    <3>4. ASSUME NEW r \in saving PROVE OneByOne'
      <4> DEFINE q == [r EXCEPT !.heard = FALSE]
      <4>1. saving = {r} /\ r \in Request /\ r.change \in 1 .. Used /\ Stage(r)
            /\ (Running /\ ~refused => chosen = r.change)
        BY <3>1 DEF OneByOne
      <4>2. saving' = {q}
        BY <2>1, <4>1
      <4>3. q \in Request /\ q.change = r.change /\ q.step = r.step /\ q.file = r.file
        BY <4>1 DEF Request
      <4> HIDE DEF q
      <4>4. q.change \in 1 .. Used'
        BY <2>3, <4>1, <4>3
      <4>5. Stage(q)'
        BY <2>1, <3>1, <4>1, <4>3 DEF Stage
      <4> QED BY <2>1, <2>2, <3>2, <4>1, <4>2, <4>3, <4>4, <4>5 DEF OneByOne
    <3> QED BY <3>3, <3>4
  <2> QED BY <2>1, <2>3, <2>4 DEF SavingInv
<1> QED BY <1>1, <1>2

\* A daemon that ends takes its requests with it; one that begins reads the file.
LEMMA DaemonKeepsSavingInv ==
  ASSUME SavingInv, DaemonBegins \/ DaemonEnds PROVE SavingInv'
<1>0. Frame /\ UNCHANGED <<chosen, inode, settings, overlapped, ui>>
  BY DEF DaemonBegins, DaemonEnds, PrefDaemonBegins, Frame, Kind, uiVars
<1>1. LeftInv' /\ Used <= Used' /\ Used \in 0 .. MaxChanges /\ Used' \in 0 .. MaxChanges
  BY <1>0, FrameKeepsLeft DEF SavingInv
<1>2. ASSUME ~overlapped PROVE OneByOne'
  <2>0. OneByOne /\ Loaded' = Loaded /\ (Running' <=> Running)
    BY <1>0, <1>2 DEF SavingInv, Loaded, Running
  <2>1. temporary' \in {temporary, None}
    BY DEF DaemonBegins, DaemonEnds, PrefDaemonBegins
  <2>2. FilesApart'
    BY <1>0, <1>1, <2>0, <2>1, NamesOfFiles DEF OneByOne, FilesApart, Loadable
  <2>3. CASE DaemonEnds
    <3>1. saving' = {} /\ refused' = (refused \/ saving # {}) /\ ~up'
      BY <2>3 DEF DaemonEnds, LogEnds
    <3>2. ~refused' => ~refused /\ saving = {}
      BY <3>1
    <3> QED BY <1>0, <2>0, <2>2, <3>1, <3>2 DEF OneByOne
  <2>4. CASE DaemonBegins
    <3>1. ~up /\ memory' = Loaded /\ temporary' = None /\ UNCHANGED <<saving, refused>>
      BY <2>4 DEF DaemonBegins, PrefDaemonBegins
    <3>2. \A r \in saving : r.step = "sent" /\ settings # r.change /\ r.change \in Change
      <4>1. \A r \in saving : Stage(r) /\ r.change \in 1 .. Used
        BY <2>0 DEF OneByOne
      <4>2. 1 .. Used \subseteq Change
        BY <1>1, NamesOfFiles DEF Change
      <4> QED BY <3>1, <4>1, <4>2 DEF Stage
    <3>3. \A r \in saving : Stage(r)'
      BY <1>0, <2>0, <3>1, <3>2, NamesOfFiles DEF Stage
    <3>4. \A r \in saving : r.change \in 1 .. Used'
      BY <1>1, <2>0 DEF OneByOne
    <3> QED BY <1>0, <2>0, <2>2, <3>1, <3>3, <3>4 DEF OneByOne
  <2> QED BY <2>3, <2>4
<1> QED BY <1>0, <1>1, <1>2 DEF SavingInv

LEMMA NextKeepsSavingInv == LockInv /\ SavingInv /\ [Next]_vars => SavingInv'
<1> SUFFICES ASSUME LockInv, SavingInv, [Next]_vars PROVE SavingInv'
  OBVIOUS
<1>0. ui \in [Process -> UiPC]
  BY DEF LockInv
<1>1. CASE Poll \/ Tick \/ ClearLogView \/ CloseRequested \/ DaemonReady
  <2>1. Frame /\ UNCHANGED <<prefVars, up, ui>>
    BY <1>1 DEF Poll, Snapshot, Logs, ServiceUpdated, Tick, ClearLogView, CloseRequested,
       DaemonReady, Frame, Kind, logVars, uiVars
  <2> QED BY <2>1, OthersKeepSavingInv DEF Running
<1>2. ASSUME NEW p \in Process, Launch(p) \/ Signals(p) \/ GivesUp(p) \/ Release(p)
      PROVE  SavingInv'
  <2>1. Frame /\ UNCHANGED <<prefVars, up>>
    BY <1>2 DEF Launch, Signals, GivesUp, Release, Frame, Kind, logVars
  <2>2. Running' => Running
    BY <1>0, <1>2 DEF Launch, Signals, GivesUp, Release, Leaves, To, Running
  <2> QED BY <2>1, <2>2, OthersKeepSavingInv
<1>3. CASE Log \/ Update \/ UNCHANGED vars
  <2>1. UNCHANGED <<prefVars, up, ui>>
    BY <1>3 DEF Log, LogNext, Draw, Push, Write, Update, vars, logVars, uiVars
  <2>2. ASSUME Log PROVE Frame
    BY <2>2 DEF Log, LogNext, Draw, Push, Write, Frame, Kind
  <2>3. ASSUME Update \/ UNCHANGED vars PROVE Frame
    BY <2>3 DEF Update, Press, vars, Frame, Kind
  <2> QED BY <1>3, <2>1, <2>2, <2>3, OthersKeepSavingInv DEF Running
<1>4. ASSUME NEW p \in Process, Boots(p) \/ Exit(p) \/ Dies(p) PROVE SavingInv'
  BY <1>0, <1>4, WindowKeepsSavingInv
<1>5. CASE DaemonBegins \/ DaemonEnds
  BY <1>5, DaemonKeepsSavingInv
<1>6. CASE SettingsChanged
  BY <1>6, ChangeKeepsSavingInv
<1>7. ASSUME NEW r \in saving, Saves(r) \/ ControlFinished(r) PROVE SavingInv'
  BY <1>7, RequestKeepsSavingInv, EndKeepsSavingInv
<1> QED BY <1>1, <1>2, <1>3, <1>4, <1>5, <1>6, <1>7 DEF Next

\* While no two changes are saved at once, the settings file can always be read, and
\* the daemon, the file and the window agree when nothing is under way - however often
\* the daemon or the window ends in the middle of a save, or the save fails.
THEOREM SettingsAgreeAlways == Spec => []SettingsAgree
<1>1. SavingInv => SettingsAgree
  BY DEF SavingInv, OneByOne, FilesApart, SettingsAgree
<1> QED
  BY <1>1, InitLockInv, NextKeepsLockInv, InitSavingInv, NextKeepsSavingInv, PTL DEF Spec

-----------------------------------------------------------------------------
(* Types.                                                                  *)

Emit == [record : Record, step : {"push", "write"}]
Save == [change : Change, step : {"sent", "open", "written", "renamed"},
         file : Change \cup {None}, heard : BOOLEAN]
PollState == [step : {"idle", "asked", "half", "answered"}, after : Nat, snapshot : BOOLEAN,
              logs : BOOLEAN, records : Seq(Record)]

LogTypes ==
  /\ up \in BOOLEAN /\ life \in Nat /\ nextId \in Nat \ {0}
  /\ ring \in Seq(Record) /\ Len(ring) <= MaxInMemory
  /\ emitting \subseteq Emit /\ missable \subseteq Record
FileTypes ==
  /\ files \in [Index -> Seq(Nat)] /\ sink \in 0 .. Gone /\ written \in Nat
  /\ sink # Gone => files[sink] # Absent
PrefTypes ==
  /\ chosen \in Change /\ memory \in Change
  /\ inode \in [Change -> Change \cup {Torn, Empty}]
  /\ settings \in Change \cup {None} /\ temporary \in Change \cup {None}
  /\ saving \subseteq Save /\ \A r \in saving : r.step = "open" => r.file \in Change
WindowTypes ==
  /\ ui_sock \in {0} \cup Process
  /\ poll \in PollState /\ last_log_id \in Nat /\ taken \subseteq Record
  /\ shown \in Seq(Record) /\ Len(shown) <= MaxShown


LEMMA InitPrefTypes == Init => PrefTypes
<1>1. 0 \in Change
  BY NamesOfFiles, ChangesAssumption DEF Change
<1> QED BY <1>1 DEF Init, PrefInit, PrefTypes

\* A request that goes on.
LEMMA GoesOnType ==
  ASSUME PrefTypes, NEW r \in saving, NEW q \in Save, q.step = "open" => q.file \in Change,
         saving' = (saving \ {r}) \cup {q}
  PROVE  saving' \subseteq Save /\ \A x \in saving' : x.step = "open" => x.file \in Change
  BY DEF PrefTypes

LEMMA SavesTypes ==
  ASSUME PrefTypes, NEW r \in saving, Saves(r)
  PROVE  PrefTypes'
<1>0. /\ r \in Save /\ UNCHANGED <<chosen, memory>> /\ r.change \in Change
      /\ inode \in [Change -> Change \cup {Torn, Empty}]
  BY DEF PrefTypes, Saves, Opens, Writes, Renames, Save
<1>1. CASE Opens(r)
  <2>1. PICK file : file = IF temporary = None THEN r.change ELSE temporary
    OBVIOUS
  <2>2. file \in Change
    BY <1>0, <2>1 DEF PrefTypes
  <2>3. PICK q : q = [r EXCEPT !.step = "open", !.file = file]
    OBVIOUS
  <2>4. /\ temporary' = file /\ inode' = [inode EXCEPT ![file] = Empty] /\ settings' = settings
        /\ saving' = (saving \ {r}) \cup {q}
    BY <1>1, <2>1, <2>3 DEF Opens
  <2>5. q \in Save /\ q.file = file
    BY <1>0, <2>2, <2>3 DEF Save
  <2>6. inode' \in [Change -> Change \cup {Torn, Empty}]
    BY <1>0, <2>2, <2>4
  <2> QED BY <1>0, <2>2, <2>4, <2>5, <2>6, GoesOnType DEF PrefTypes
<1>2. CASE Writes(r)
  <2>1. PICK q : q = [r EXCEPT !.step = "written"]
    OBVIOUS
  <2>2. /\ UNCHANGED <<settings, temporary>> /\ saving' = (saving \ {r}) \cup {q}
        /\ \E content \in Change \cup {Torn} : inode' = [inode EXCEPT ![r.file] = content]
    BY <1>0, <1>2, <2>1 DEF Writes, Moves
  <2>3. q \in Save /\ q.step = "written"
    BY <1>0, <2>1 DEF Save
  <2>4. inode' \in [Change -> Change \cup {Torn, Empty}]
    BY <1>0, <2>2
  <2> QED BY <1>0, <2>2, <2>3, <2>4, GoesOnType DEF PrefTypes
<1>3. CASE Renames(r)
  <2>1. PICK q : q = [r EXCEPT !.step = "renamed"]
    OBVIOUS
  <2>2. /\ settings' = temporary /\ temporary' = None /\ UNCHANGED inode
        /\ saving' = (saving \ {r}) \cup {q}
    BY <1>3, <2>1 DEF Renames, Moves
  <2>3. q \in Save /\ q.step = "renamed"
    BY <1>0, <2>1 DEF Save
  <2> QED BY <1>0, <2>2, <2>3, GoesOnType DEF PrefTypes
<1> QED BY <1>1, <1>2, <1>3 DEF Saves

LEMMA NextKeepsPrefTypes ==
  ASSUME PrefTypes, [Next]_vars
  PROVE  PrefTypes'
<1>1. ASSUME UNCHANGED prefVars PROVE PrefTypes'
  BY <1>1 DEF prefVars, PrefTypes
<1>2. CASE Poll \/ Tick \/ ClearLogView \/ CloseRequested \/ DaemonReady
  BY <1>1, <1>2 DEF Poll, Snapshot, Logs, ServiceUpdated, Tick, ClearLogView, CloseRequested,
     DaemonReady
<1>3. ASSUME NEW p \in Process, Launch(p) \/ Signals(p) \/ GivesUp(p) \/ Release(p)
      PROVE  PrefTypes'
  BY <1>1, <1>3 DEF Launch, Signals, GivesUp, Release
<1>4. CASE Log \/ Update \/ UNCHANGED vars
  BY <1>1, <1>4 DEF Log, Update, vars
<1>5. ASSUME NEW p \in Process, Boots(p) PROVE PrefTypes'
  <2>1. 0 \in Change
    BY NamesOfFiles, ChangesAssumption DEF Change
  <2> QED BY <1>5, <2>1 DEF Boots, PrefWindowBegins, PrefTypes, Loadable
<1>6. ASSUME NEW p \in Process, Exit(p) \/ Dies(p) PROVE PrefTypes'
  <2>1. /\ UNCHANGED <<chosen, memory, inode, settings, temporary>>
        /\ saving' = {[r EXCEPT !.heard = FALSE] : r \in saving}
    BY <1>6 DEF Exit, Dies, WindowEnds, PrefWindowEnds
  <2>2. ASSUME NEW q \in saving' PROVE q \in Save /\ (q.step = "open" => q.file \in Change)
    <3>1. PICK r \in saving : q = [r EXCEPT !.heard = FALSE]
      BY <2>1
    <3>2. r \in Save /\ (r.step = "open" => r.file \in Change)
      BY DEF PrefTypes
    <3> QED BY <3>1, <3>2 DEF Save
  <2> QED BY <2>1, <2>2 DEF PrefTypes
<1>7. CASE DaemonBegins
  BY <1>7 DEF DaemonBegins, PrefDaemonBegins, PrefTypes, Loadable
<1>8. CASE DaemonEnds
  BY <1>8 DEF DaemonEnds, PrefTypes
<1>9. CASE SettingsChanged
  <2>1. PICK c \in Change : Chooses(c)
    BY <1>9 DEF SettingsChanged
  <2>2. PICK q : q = [change |-> c, step |-> "sent", file |-> None, heard |-> TRUE]
    OBVIOUS
  <2>3. q \in Save /\ q.step = "sent"
    BY <2>2 DEF Save
  <2>4. /\ UNCHANGED <<memory, inode, settings, temporary>> /\ chosen' = c
        /\ saving' = saving \cup {q}
    BY <2>1, <2>2 DEF Chooses
  <2> QED BY <2>3, <2>4 DEF PrefTypes
<1>10. ASSUME NEW r \in saving, ControlFinished(r) PROVE PrefTypes'
  <2>1. /\ UNCHANGED <<chosen, inode, settings>> /\ saving' = saving \ {r}
        /\ memory' \in {memory, r.change} /\ temporary' \in {temporary, None}
    BY <1>10 DEF ControlFinished, Remembers, Keeps, Fails, Unanswered, Ends
  <2>2. r.change \in Change
    BY DEF PrefTypes, Save
  <2> QED BY <2>1, <2>2 DEF PrefTypes
<1> QED
  BY <1>2, <1>3, <1>4, <1>5, <1>6, <1>7, <1>8, <1>9, <1>10, SavesTypes DEF Next

\* The type of a call of emit that has pushed its record.
LEMMA PushedEmit ==
  ASSUME NEW e \in Emit
  PROVE  /\ [e EXCEPT !.step = "write"] \in Emit
         /\ [e EXCEPT !.step = "write"].record = e.record
         /\ [e EXCEPT !.step = "write"].step = "write"
  BY DEF Emit

\* The ring after a push: the first record has gone if there was no room.
PushedFrom(s, record, d) ==
  /\ s \in Seq(Record) /\ Len(s) = Len(ring) + 1 - d /\ Len(s) <= MaxInMemory
  /\ d \in {0, 1} /\ d <= Len(ring) /\ Len(s) > 0
  /\ \A k \in 1 .. Len(s) - 1 : s[k] = ring[k + d]
  /\ s[Len(s)] = record
  /\ d = 1 => ring[1] \in Evicted

LEMMA PushedIs ==
  ASSUME LogTypes, NEW record \in Record
  PROVE  \E d \in {0, 1} : PushedFrom(Pushed(record), record, d)
<1>0. ring \in Seq(Record) /\ Len(ring) <= MaxInMemory /\ MaxInMemory \in Nat \ {0}
      /\ Len(ring) \in Nat
  BY LogAssumption DEF LogTypes
<1>1. CASE Len(ring) = MaxInMemory
  <2>1. ring # <<>> /\ Pushed(record) = Append(Tail(ring), record) /\ ring[1] \in Evicted
    BY <1>0, <1>1 DEF Pushed, Evicted
  <2>2. /\ Tail(ring) \in Seq(Record) /\ Len(Tail(ring)) = Len(ring) - 1
        /\ \A k \in 1 .. Len(ring) - 1 : Tail(ring)[k] = ring[k + 1]
    BY <1>0, <2>1, HeadTailProperties
  <2>3. PICK t : t = Tail(ring)
    OBVIOUS
  <2>4. /\ Append(t, record) \in Seq(Record) /\ Len(Append(t, record)) = Len(t) + 1
        /\ \A k \in 1 .. Len(t) : Append(t, record)[k] = t[k]
        /\ Append(t, record)[Len(t) + 1] = record
    BY <2>2, <2>3, AppendProperties
  <2>5. PushedFrom(Pushed(record), record, 1)
    BY <1>0, <1>1, <2>1, <2>2, <2>3, <2>4 DEF PushedFrom
  <2> QED BY <2>5
<1>2. CASE Len(ring) # MaxInMemory
  <2>1. Pushed(record) = Append(ring, record)
    BY <1>2 DEF Pushed
  <2>2. /\ Append(ring, record) \in Seq(Record) /\ Len(Append(ring, record)) = Len(ring) + 1
        /\ \A k \in 1 .. Len(ring) : Append(ring, record)[k] = ring[k]
        /\ Append(ring, record)[Len(ring) + 1] = record
    BY <1>0, AppendProperties
  <2>3. PushedFrom(Pushed(record), record, 0)
    BY <1>0, <1>2, <2>1, <2>2 DEF PushedFrom
  <2> QED BY <2>3
<1> QED BY <1>1, <1>2

LEMMA InitLogTypes == Init => LogTypes
<1> SUFFICES ASSUME Init PROVE LogTypes
  OBVIOUS
<1>1. [life |-> 1, id |-> 1] \in Record
  BY DEF Record
<1>2. PICK first \in Record : ring = <<first>>
  BY <1>1 DEF Init, LogInit
<1> QED BY <1>2, LogAssumption DEF Init, LogInit, LogTypes

LEMMA NextKeepsLogTypes ==
  ASSUME LogTypes, [Next]_vars
  PROVE  LogTypes'
<1>0. life \in Nat /\ nextId \in Nat \ {0} /\ life + 1 \in Nat /\ nextId + 1 \in Nat \ {0}
  BY DEF LogTypes
<1>1. ASSUME UNCHANGED logVars PROVE LogTypes'
  BY <1>1 DEF logVars, LogTypes
<1>2. ASSUME Draw PROVE LogTypes'
  <2>1. PICK r : r = [life |-> life, id |-> nextId]
    OBVIOUS
  <2>2. r \in Record
    BY <1>0, <2>1 DEF Record
  <2>3. [record |-> r, step |-> "push"] \in Emit
    BY <2>2 DEF Emit
  <2> QED BY <1>0, <1>2, <2>1, <2>3 DEF Draw, LogTypes
<1>3. ASSUME NEW e \in emitting, Push(e) PROVE LogTypes'
  <2>1. e \in Emit /\ e.record \in Record
    BY DEF LogTypes, Emit
  <2>2. ring' \in Seq(Record) /\ Len(ring') <= MaxInMemory
    BY <1>3, <2>1, PushedIs DEF Push, PushedFrom
  <2>3. Evicted \subseteq Record
    <3>1. Len(ring) = MaxInMemory => ring # <<>> /\ Head(ring) \in Record
      BY LogAssumption DEF LogTypes
    <3> QED BY <3>1 DEF Evicted
  <2> QED BY <1>3, <2>1, <2>2, <2>3, PushedEmit DEF Push, LogTypes
<1>4. ASSUME NEW e \in emitting, Write(e) PROVE LogTypes'
  BY <1>4 DEF Write, LogTypes
<1>5. CASE Log
  <2>1. Draw \/ \E e \in emitting : Push(e) \/ Write(e)
    BY <1>5 DEF Log, LogNext
  <2> QED BY <1>2, <1>3, <1>4, <2>1
<1>6. CASE DaemonEnds
  <2>1. /\ up' = FALSE /\ ring' = <<>> /\ emitting' = {}
        /\ UNCHANGED <<life, nextId, missable>>
    BY <1>6 DEF DaemonEnds, LogEnds
  <2>2. MaxInMemory \in Nat
    BY LogAssumption
  <2>3. ring' \in Seq(Record) /\ Len(ring') = 0
    BY <2>1
  <2>4. emitting' \subseteq Emit /\ missable' \subseteq Record
    BY <2>1 DEF LogTypes
  <2>5. up' \in BOOLEAN
    BY <2>1
  <2>6. life' \in Nat /\ nextId' \in Nat \ {0} /\ Len(ring') <= MaxInMemory
    BY <1>0, <2>1, <2>2, <2>3
  <2> QED BY <2>3, <2>4, <2>5, <2>6 DEF LogTypes
<1>7. CASE DaemonBegins
  <2>1. PICK r : r = [life |-> life + 1, id |-> 1]
    OBVIOUS
  <2>2. r \in Record
    BY <1>0, <2>1 DEF Record
  <2>3. [record |-> r, step |-> "push"] \in Emit
    BY <2>2 DEF Emit
  <2> QED BY <1>0, <1>7, <2>1, <2>3 DEF DaemonBegins, LogBegins, LogTypes
<1>8. CASE UNCHANGED vars \/ Poll \/ Tick \/ ClearLogView \/ CloseRequested \/ DaemonReady
           \/ SettingsChanged \/ Update
  BY <1>1, <1>8 DEF vars, Poll, Snapshot, Logs, ServiceUpdated, Tick, ClearLogView,
     CloseRequested, DaemonReady, SettingsChanged, Update
<1>9. ASSUME NEW p \in Process, \/ Launch(p) \/ Boots(p) \/ Signals(p) \/ GivesUp(p)
                                \/ Exit(p) \/ Release(p) \/ Dies(p)
      PROVE  LogTypes'
  BY <1>1, <1>9 DEF Launch, Boots, Signals, GivesUp, Exit, Release, Dies
<1>10. ASSUME NEW r \in saving, Saves(r) \/ ControlFinished(r) PROVE LogTypes'
  BY <1>1, <1>10 DEF Saves, ControlFinished
<1> QED BY <1>5, <1>6, <1>7, <1>8, <1>9, <1>10 DEF Next

-----------------------------------------------------------------------------
(* What a reader of the log gets.                                          *)

\* A record of the daemon that runs, and the numbers of those that were pushed.
Rec(id) == [life |-> life, id |-> id]
Emitted == (1 .. nextId - 1) \ Pending

\* Whatever is not in ascending order is missable.
InOrder(s) == \A i, k \in 1 .. Len(s) : i < k /\ s[k] \notin missable => s[i].id < s[k].id

\* What was pushed is in the ring, but for what may be missed.
RingInv ==
  /\ \A e \in emitting : e.record.life = life /\ e.record.id \in 1 .. nextId - 1
  /\ \A k \in 1 .. Len(ring) : ring[k].life = life /\ ring[k].id \in Emitted
  /\ up => \A id \in Emitted : Rec(id) \in missable \/ \E k \in 1 .. Len(ring) : ring[k] = Rec(id)
  /\ ~up => ring = <<>> /\ emitting = {}
  /\ InOrder(ring)

\* Records that somebody has, of this daemon or of an earlier one.
Known(record) == record.life <= life /\ (record.life = life => record.id \in Emitted)

\* The records of an answer are one daemon's; if that still runs, none is left out
\* before one of them.
PollInv ==
  /\ poll.step # "idle" => poll.after = last_log_id
  /\ \A k \in 1 .. Len(poll.records) : Known(poll.records[k]) /\ poll.records[k].id > 0
  /\ \A i, k \in 1 .. Len(poll.records) : poll.records[i].life = poll.records[k].life
  /\ InOrder(poll.records)
  /\ \A k \in 1 .. Len(poll.records), id \in Emitted :
       /\ poll.records[k].life = life /\ up
       /\ poll.after < id /\ id <= poll.records[k].id /\ Rec(id) \notin missable
       => \E i \in 1 .. Len(poll.records) : poll.records[i] = Rec(id)

\* What the window has: the highest number is a record's, and below it nothing is left out.
TakenInv ==
  /\ \A r \in taken : Known(r)
  /\ last_log_id # 0 => \E r \in taken : r.id = last_log_id
  /\ up => \A id \in Emitted : id <= last_log_id =>
             \/ Rec(id) \in taken \cup missable
             \/ \E r \in taken : r.life < life /\ r.id >= id

\* What a step may do to the log while its daemon runs: a record that is pushed has the
\* highest number so far, or is missable.
LogGoes ==
  /\ life' = life /\ (up' => up) /\ Emitted \subseteq Emitted' /\ missable \subseteq missable'
  /\ up' => \A id \in Emitted' \ Emitted : Rec(id) \in missable' \/ \A i \in Emitted : i < id
\* Another daemon begins.
LogAgain == life' = life + 1 /\ Emitted' = {} /\ missable' = missable

LEMMA InitRingInv == Init => RingInv
<1> SUFFICES ASSUME Init PROVE RingInv
  OBVIOUS
<1>1. ring = <<[life |-> 1, id |-> 1]>> /\ emitting = {} /\ up /\ life = 1 /\ nextId = 2
  BY DEF Init, LogInit
<1>2. Pending = {} /\ Emitted = {1} /\ Rec(1) = ring[1] /\ Len(ring) = 1
  BY <1>1 DEF Pending, Emitted, Rec
<1>3. ring[1].life = life /\ ring[1].id = 1
  BY <1>1
<1> QED BY <1>1, <1>2, <1>3 DEF RingInv, InOrder

LEMMA EmittedType == LogTypes => Emitted \subseteq Nat /\ nextId \notin Emitted
  BY DEF LogTypes, Emitted

LEMMA DrawStep ==
  ASSUME LogTypes, RingInv, Draw
  PROVE  RingInv' /\ LogGoes
<1>1. PICK r : r = [life |-> life, id |-> nextId]
  OBVIOUS
<1>2. PICK e : e = [record |-> r, step |-> "push"]
  OBVIOUS
<1>3. /\ up /\ emitting' = emitting \cup {e} /\ nextId' = nextId + 1
      /\ UNCHANGED <<up, life, ring, missable>>
  BY <1>1, <1>2 DEF Draw
<1>4. r.life = life /\ r.id = nextId /\ e.record = r /\ e.step = "push"
  BY <1>1, <1>2
<1>5. Pending' = Pending \cup {nextId}
  BY <1>3, <1>4 DEF Pending
<1>6. nextId \in Nat \ {0} /\ Emitted' = Emitted
  BY <1>3, <1>5 DEF LogTypes, Emitted
<1>7. \A x \in emitting' : x.record.life = life' /\ x.record.id \in 1 .. nextId' - 1
  BY <1>3, <1>4, <1>6 DEF RingInv
<1>8. InOrder(ring)'
  BY <1>3 DEF RingInv, InOrder
<1> QED BY <1>3, <1>6, <1>7, <1>8 DEF RingInv, LogGoes, Rec

\* A push: the record is in order, or missable.
LEMMA PushStep ==
  ASSUME LogTypes, RingInv, NEW e \in emitting, Push(e)
  PROVE  RingInv' /\ LogGoes
<1>0. e \in Emit /\ e.record \in Record /\ e.record.life = life /\ e.record.id \in 1 .. nextId - 1
      /\ e.step = "push" /\ nextId \in Nat
  BY DEF LogTypes, Emit, RingInv, Push
<1>1. PICK r : r = e.record
  OBVIOUS
<1>2. PICK id : id = r.id
  OBVIOUS
<1>3. PICK w : w = [e EXCEPT !.step = "write"]
  OBVIOUS
<1>4. w.record = r /\ w.step = "write"
  BY <1>0, <1>1, <1>3, PushedEmit
<1>5. r \in Record /\ r = Rec(id) /\ id \in 1 .. nextId - 1
  BY <1>0, <1>1, <1>2 DEF Rec, Record
<1>6. /\ emitting' = (emitting \ {e}) \cup {w} /\ ring' = Pushed(r)
      /\ missable' = missable \cup Evicted \cup (IF Overtaken(r) THEN {r} ELSE {})
      /\ UNCHANGED <<up, life, nextId>>
  BY <1>1, <1>3 DEF Push
<1>7. Pending' = Pending \ {id}
  <2>1. ASSUME NEW c \in emitting, c.step = "push", c.record.id = id PROVE c = e
    <3>1. c \in Emit /\ c.record \in Record /\ c.record.life = life
      BY DEF LogTypes, RingInv, Emit
    <3>2. c.record = e.record
      BY <1>0, <1>1, <1>2, <2>1, <3>1 DEF Record
    <3> QED BY <1>0, <2>1, <3>1, <3>2 DEF Emit
  <2> QED BY <1>0, <1>1, <1>2, <1>4, <1>6, <2>1 DEF Pending
<1>8. id \in Pending
  BY <1>0, <1>1, <1>2 DEF Pending
<1>9. Emitted' = Emitted \cup {id} /\ id \notin Emitted /\ Emitted \subseteq Nat /\ id \in Nat
  BY <1>5, <1>6, <1>7, <1>8 DEF Emitted
<1>10. r \in missable' \/ \A i \in Emitted : i < id
  <2>1. CASE Overtaken(r)
    BY <1>6, <2>1
  <2>2. CASE ~Overtaken(r)
    <3>1. \A i \in id + 1 .. nextId - 1 : i \in Pending
      BY <1>2, <2>2 DEF Overtaken
    <3>2. \A i \in Emitted : i \in 1 .. nextId - 1 /\ i # id /\ i \notin Pending
      BY <1>9 DEF Emitted
    <3> QED BY <1>0, <1>5, <1>9, <3>1, <3>2
  <2> QED BY <2>1, <2>2
<1>11. LogGoes
  <2>1. Rec(id) = r
    BY <1>5
  <2> QED BY <1>6, <1>9, <1>10, <2>1 DEF LogGoes
<1>12. PICK d \in {0, 1} : PushedFrom(ring', r, d)
  BY <1>5, <1>6, PushedIs
<1>13. PICK s : s = ring'
  OBVIOUS
<1>14. /\ Len(s) = Len(ring) + 1 - d /\ Len(s) > 0 /\ d <= Len(ring)
       /\ \A k \in 1 .. Len(s) - 1 : s[k] = ring[k + d]
       /\ s[Len(s)] = r /\ Len(ring) \in Nat /\ Len(s) \in Nat
       /\ d = 1 => ring[1] \in missable'
  BY <1>6, <1>12, <1>13 DEF PushedFrom, LogTypes
<1>15. \A k \in 1 .. Len(s) - 1 : k + d \in 1 .. Len(ring)
  <2>1. PICK m, n \in Nat : m = Len(s) /\ n = Len(ring) /\ m = n + 1 - d
    BY <1>14
  <2>2. \A k \in 1 .. m - 1 : k + d \in 1 .. n
    BY <2>1
  <2> QED BY <2>1, <2>2
<1>16. \A x \in emitting' : x.record.life = life' /\ x.record.id \in 1 .. nextId' - 1
  BY <1>0, <1>1, <1>4, <1>6 DEF RingInv
<1>17. \A k \in 1 .. Len(s) : s[k].life = life' /\ s[k].id \in Emitted'
  <2>1. ASSUME NEW k \in 1 .. Len(s) - 1 PROVE s[k].life = life' /\ s[k].id \in Emitted'
    BY <1>6, <1>9, <1>14, <1>15 DEF RingInv
  <2>2. s[Len(s)].life = life' /\ s[Len(s)].id \in Emitted'
    BY <1>0, <1>1, <1>2, <1>6, <1>9, <1>14
  <2>3. \A k \in 1 .. Len(s) : k \in 1 .. Len(s) - 1 \/ k = Len(s)
    BY <1>14
  <2> QED BY <2>1, <2>2, <2>3
<1>18. ASSUME up', NEW i \in Emitted'
       PROVE  Rec(i)' \in missable' \/ \E k \in 1 .. Len(s) : s[k] = Rec(i)'
  <2>1. Rec(i)' = Rec(i)
    BY <1>6 DEF Rec
  <2>2. CASE i = id
    BY <1>5, <1>14, <2>1, <2>2
  <2>3. CASE i \in Emitted
    <3>1. Rec(i) \in missable \/ \E k \in 1 .. Len(ring) : ring[k] = Rec(i)
      BY <1>6, <1>18, <2>3 DEF RingInv
    <3>2. CASE Rec(i) \in missable
      BY <1>6, <2>1, <3>2
    <3>3. ASSUME NEW k \in 1 .. Len(ring), ring[k] = Rec(i)
          PROVE  Rec(i) \in missable' \/ \E x \in 1 .. Len(s) : s[x] = Rec(i)
      <4>1. CASE k - d \in 1 .. Len(s) - 1
        <5>1. k \in Nat /\ k - d + d = k
          OBVIOUS
        <5>2. s[k - d] = ring[k] /\ k - d \in 1 .. Len(s)
          BY <1>14, <4>1, <5>1
        <5> QED BY <3>3, <5>2
      <4>2. CASE k - d \notin 1 .. Len(s) - 1
        <5>1. k = 1 /\ d = 1
          BY <1>14, <4>2
        <5> QED BY <1>14, <3>3, <5>1
      <4> QED BY <4>1, <4>2
    <3> QED BY <2>1, <3>1, <3>2, <3>3
  <2> QED BY <1>9, <2>2, <2>3
<1>19. ASSUME NEW i \in 1 .. Len(s), NEW k \in 1 .. Len(s), i < k, s[k] \notin missable'
       PROVE  s[i].id < s[k].id
  <2>0. i \in 1 .. Len(s) - 1 /\ s[i] = ring[i + d] /\ i + d \in 1 .. Len(ring)
    BY <1>14, <1>15, <1>19
  <2>1. CASE k = Len(s)
    <3>1. ring[i + d].id \in Emitted
      BY <2>0 DEF RingInv
    <3> QED BY <1>2, <1>10, <1>14, <1>19, <2>0, <2>1, <3>1
  <2>2. CASE k # Len(s)
    <3>1. k \in 1 .. Len(s) - 1 /\ s[k] = ring[k + d] /\ k + d \in 1 .. Len(ring)
      BY <1>14, <1>15, <2>2
    <3>2. ring[k + d] \notin missable /\ i + d < k + d
      BY <1>6, <1>19, <2>0, <3>1
    <3> QED BY <2>0, <3>1, <3>2 DEF RingInv, InOrder
  <2> QED BY <2>1, <2>2
<1>20. InOrder(ring)'
  BY <1>13, <1>19 DEF InOrder
<1>21. up
  BY <1>0 DEF RingInv
<1> QED BY <1>6, <1>11, <1>13, <1>16, <1>17, <1>18, <1>20, <1>21 DEF RingInv

LEMMA LogStays ==
  ASSUME RingInv, UNCHANGED <<up, life, nextId, ring, missable>>, Pending' = Pending,
         emitting' \subseteq emitting
  PROVE  RingInv' /\ LogGoes
<1>1. Emitted' = Emitted /\ \A id \in Emitted : Rec(id)' = Rec(id)
  BY DEF Emitted, Rec
<1>2. InOrder(ring)'
  BY DEF RingInv, InOrder
<1>3. LogGoes
  BY <1>1 DEF LogGoes
<1>4. \A id \in Emitted : Rec(id) \in missable \/ (\E k \in 1 .. Len(ring) : ring[k] = Rec(id)) \/ ~up
  BY DEF RingInv
<1>5. ~up' => ring' = <<>> /\ emitting' = {}
  BY DEF RingInv
<1>6. \A k \in 1 .. Len(ring) : ring[k].life = life /\ ring[k].id \in Emitted
  BY DEF RingInv
<1>7. \A e \in emitting' : e.record.life = life' /\ e.record.id \in 1 .. nextId' - 1
  BY DEF RingInv
<1> QED BY <1>1, <1>2, <1>3, <1>4, <1>5, <1>6, <1>7 DEF RingInv

LEMMA LogEndsStep ==
  ASSUME LogTypes, RingInv, LogEnds
  PROVE  RingInv' /\ LogGoes
<1>1. /\ ~up' /\ ring' = <<>> /\ emitting' = {} /\ UNCHANGED <<life, nextId, missable>>
  BY DEF LogEnds
<1>2. Pending' = {} /\ Emitted' = 1 .. nextId - 1 /\ Len(ring') = 0
  BY <1>1 DEF Pending, Emitted
<1>3. Emitted \subseteq Emitted'
  BY <1>2 DEF Emitted
<1> QED BY <1>1, <1>2, <1>3 DEF RingInv, LogGoes, InOrder

LEMMA LogBeginsStep ==
  ASSUME LogTypes, RingInv, ~up, LogBegins
  PROVE  RingInv' /\ LogAgain
<1>1. PICK r : r = [life |-> life + 1, id |-> 1]
  OBVIOUS
<1>2. PICK e : e = [record |-> r, step |-> "push"]
  OBVIOUS
<1>3. /\ up' /\ life' = life + 1 /\ nextId' = 2 /\ emitting' = {e} /\ UNCHANGED <<ring, missable>>
  BY <1>1, <1>2 DEF LogBegins
<1>4. r.life = life' /\ r.id = 1 /\ e.record = r /\ e.step = "push"
  BY <1>1, <1>2, <1>3
<1>5. Pending' = {1} /\ Emitted' = {}
  <2>1. Pending' = {1}
    BY <1>3, <1>4 DEF Pending
  <2> QED BY <1>3, <2>1 DEF Emitted
<1>6. ring' = <<>> /\ Len(ring') = 0
  BY <1>3 DEF RingInv
<1>7. \A x \in emitting' : x.record.life = life' /\ x.record.id \in 1 .. nextId' - 1
  BY <1>3, <1>4
<1> QED BY <1>3, <1>5, <1>6, <1>7 DEF RingInv, LogAgain, InOrder

LEMMA LogSteps ==
  ASSUME LogTypes, RingInv, [Next]_vars
  PROVE  RingInv' /\ (LogGoes \/ LogAgain)
<1>1. ASSUME UNCHANGED logVars PROVE RingInv' /\ LogGoes
  BY <1>1, LogStays DEF logVars, Pending
<1>2. ASSUME NEW e \in emitting, Write(e) PROVE RingInv' /\ LogGoes
  <2>1. e.step = "write" /\ emitting' = emitting \ {e} /\ UNCHANGED <<up, life, nextId, ring, missable>>
    BY <1>2 DEF Write
  <2>2. Pending' = Pending
    BY <2>1 DEF Pending
  <2> QED BY <2>1, <2>2, LogStays
<1>3. CASE Log
  <2>1. Draw \/ \E e \in emitting : Push(e) \/ Write(e)
    BY <1>3 DEF Log, LogNext
  <2> QED BY <1>2, <2>1, DrawStep, PushStep
<1>4. CASE DaemonEnds
  BY <1>4, LogEndsStep DEF DaemonEnds
<1>5. CASE DaemonBegins
  BY <1>5, LogBeginsStep DEF DaemonBegins
<1>6. CASE UNCHANGED vars \/ Poll \/ Tick \/ ClearLogView \/ CloseRequested \/ DaemonReady
           \/ SettingsChanged \/ Update
  BY <1>1, <1>6 DEF vars, Poll, Snapshot, Logs, ServiceUpdated, Tick, ClearLogView,
     CloseRequested, DaemonReady, SettingsChanged, Update
<1>7. ASSUME NEW p \in Process, \/ Launch(p) \/ Boots(p) \/ Signals(p) \/ GivesUp(p)
                                \/ Exit(p) \/ Release(p) \/ Dies(p)
      PROVE  RingInv' /\ LogGoes
  BY <1>1, <1>7 DEF Launch, Boots, Signals, GivesUp, Exit, Release, Dies
<1>8. ASSUME NEW r \in saving, Saves(r) \/ ControlFinished(r) PROVE RingInv' /\ LogGoes
  BY <1>1, <1>8 DEF Saves, ControlFinished
<1> QED BY <1>3, <1>4, <1>5, <1>6, <1>7, <1>8 DEF Next

-----------------------------------------------------------------------------
(* The folds.                                                              *)

\* LogStore::after goes through the ring.
Takes(got, record, after, limit) ==
  IF (record.id > after) /\ (Len(got) < limit) THEN Append(got, record) ELSE got

AfterIn(s, after, limit) ==
  FoldLeft(LAMBDA got, record : IF (record.id > after) /\ (Len(got) < limit)
                                THEN Append(got, record) ELSE got, <<>>, s)

LEMMA AfterUnfolds ==
  ASSUME NEW s \in Seq(Record), NEW after \in Nat, NEW limit \in Nat
  PROVE  \E f : /\ f[0] = <<>> /\ AfterIn(s, after, limit) = f[Len(s)]
                /\ \A k \in 1 .. Len(s) : f[k] = Takes(f[k - 1], s[k], after, limit)
<1>0. PICK n \in Nat : n = Len(s) /\ DOMAIN s = 1 .. n /\ \A k \in 1 .. n : s[k] \in Record
  OBVIOUS
<1> DEFINE V == Seq(Record)
           step == [p \in (1 .. n) \X V |-> Takes(p[2], s[p[1]], after, limit)]
           Unfolds(f) == f = [S \in SUBSET (1 .. n) |->
             IF S = {} THEN <<>>
             ELSE IF (s[Highest(S)].id > after) /\ (Len(f[S \ {Highest(S)}]) < limit)
                  THEN Append(f[S \ {Highest(S)}], s[Highest(S)]) ELSE f[S \ {Highest(S)}]]
<1>1. step \in [(1 .. n) \X V -> V] /\ <<>> \in V
  <2>1. \A k \in 1 .. n, got \in V : Takes(got, s[k], after, limit) \in V
    BY <1>0 DEF Takes
  <2>2. \A p \in (1 .. n) \X V : p[1] \in 1 .. n /\ p[2] \in V
    OBVIOUS
  <2>3. <<>> \in V
    OBVIOUS
  <2> HIDE DEF V
  <2> QED BY <2>1, <2>2, <2>3
<1>2. \E f : Unfolds(f)
  <2>1. PICK f \in [SUBSET (1 .. n) -> V] : \A S \in SUBSET (1 .. n) :
                   f[S] = IF S = {} THEN <<>> ELSE step[<<Highest(S), f[S \ {Highest(S)}]>>]
    <3>1. n \in Nat /\ <<>> \in V /\ step \in [(1 .. n) \X V -> V]
      BY <1>0, <1>1
    <3> HIDE DEF step, V
    <3>2. \E f \in [SUBSET (1 .. n) -> V] : IsLeftFold(f, n, <<>>, step)
      BY <3>1, LeftFoldExists, Zenon
    <3> QED BY <3>2 DEF IsLeftFold
  <2>2. \A S \in SUBSET (1 .. n) : S # {} =>
          f[S] = Takes(f[S \ {Highest(S)}], s[Highest(S)], after, limit)
    <3> SUFFICES ASSUME NEW S \in SUBSET (1 .. n), S # {}
                 PROVE  f[S] = Takes(f[S \ {Highest(S)}], s[Highest(S)], after, limit)
      OBVIOUS
    <3>1. Highest(S) \in 1 .. n /\ f[S \ {Highest(S)}] \in V
      BY <2>1, HighestType
    <3>2. f[S] = step[<<Highest(S), f[S \ {Highest(S)}]>>]
      BY <2>1
    <3> HIDE DEF V
    <3> QED BY <3>1, <3>2
  <2>3. Unfolds(f)
    <3>1. \A S \in SUBSET (1 .. n) : f[S] = IF S = {} THEN <<>>
             ELSE IF (s[Highest(S)].id > after) /\ (Len(f[S \ {Highest(S)}]) < limit)
                  THEN Append(f[S \ {Highest(S)}], s[Highest(S)]) ELSE f[S \ {Highest(S)}]
      BY <2>1, <2>2 DEF Takes
    <3> HIDE DEF V
    <3> QED BY <2>1, <3>1
  <2> HIDE DEF Unfolds
  <2> QED BY <2>3
<1>3. PICK g : g = CHOOSE f : Unfolds(f)
  OBVIOUS
<1>4. Unfolds(g)
  <2> HIDE DEF Unfolds
  <2> QED BY <1>2, <1>3
<1>5. AfterIn(s, after, limit) = g[1 .. n]
  BY <1>0, <1>3 DEF AfterIn, FoldLeft, MapThenFoldSet, Max, Highest
<1> DEFINE h == [k \in 0 .. n |-> g[1 .. k]]
<1>6. h[0] = <<>> /\ AfterIn(s, after, limit) = h[n]
  <2>1. 1 .. 0 = {} /\ {} \in SUBSET (1 .. n) /\ 0 \in 0 .. n /\ n \in 0 .. n
    OBVIOUS
  <2>2. g[{}] = <<>>
    BY <1>4, <2>1
  <2>3. h[0] = g[1 .. 0] /\ h[n] = g[1 .. n]
    BY <2>1
  <2> QED BY <1>5, <2>1, <2>2, <2>3
<1>7. ASSUME NEW k \in 1 .. n PROVE h[k] = Takes(h[k - 1], s[k], after, limit)
  <2>1. g[1 .. k] = Takes(g[1 .. k - 1], s[k], after, limit)
    <3>1. /\ 1 .. k \in SUBSET (1 .. n) /\ 1 .. k # {}
          /\ Highest(1 .. k) = k /\ (1 .. k) \ {k} = 1 .. k - 1
      BY <1>0, FirstNumbers
    <3>2. PICK S \in SUBSET (1 .. n) : S = 1 .. k /\ S # {} /\ Highest(S) = k /\ S \ {k} = 1 .. k - 1
      BY <3>1
    <3>3. g[S] = IF (s[k].id > after) /\ (Len(g[1 .. k - 1]) < limit)
                 THEN Append(g[1 .. k - 1], s[k]) ELSE g[1 .. k - 1]
      BY <1>4, <3>2
    <3> QED BY <3>2, <3>3 DEF Takes
  <2>2. h[k] = g[1 .. k] /\ h[k - 1] = g[1 .. k - 1]
    OBVIOUS
  <2> QED BY <2>1, <2>2
<1> HIDE DEF h
<1> QED BY <1>0, <1>6, <1>7

\* What is picked from the first k records: in their order, and nothing is left out
\* before what was picked.
Places(e, got, n, s, k, after, limit) ==
  /\ \A i \in 1 .. n : got[i] = s[e[i]] /\ got[i].id > after
  /\ \A i, j \in 1 .. n : i < j => e[i] < e[j]
  /\ \A p \in 1 .. k : s[p].id > after =>
       \/ \E i \in 1 .. n : e[i] = p
       \/ n = limit /\ \A i \in 1 .. n : e[i] < p
Picked(got, s, k, after, limit) ==
  /\ got \in Seq(Record) /\ Len(got) <= limit
  /\ \E e \in [1 .. Len(got) -> 1 .. k] : Places(e, got, Len(got), s, k, after, limit)

LEMMA PicksOneMore ==
  ASSUME NEW s \in Seq(Record), NEW after \in Nat, NEW limit \in Nat, NEW k \in Nat,
         k + 1 \in 1 .. Len(s), NEW got, Picked(got, s, k, after, limit)
  PROVE  Picked(Takes(got, s[k + 1], after, limit), s, k + 1, after, limit)
<1>1. /\ got \in Seq(Record) /\ Len(got) \in Nat /\ Len(got) <= limit
      /\ s[k + 1] \in Record /\ s[k + 1].id \in Nat
  <2>1. got \in Seq(Record) /\ Len(got) <= limit
    BY DEF Picked
  <2>2. Len(got) \in Nat
    BY <2>1
  <2>3. PICK i \in 1 .. Len(s) : i = k + 1
    OBVIOUS
  <2>4. s[i] \in Record
    BY <2>3
  <2>5. \A r \in Record : r.id \in Nat
    BY DEF Record
  <2> QED BY <2>1, <2>2, <2>3, <2>4, <2>5
<1>2. PICK e \in [1 .. Len(got) -> 1 .. k] :
       /\ \A i \in 1 .. Len(got) : got[i] = s[e[i]] /\ got[i].id > after
       /\ \A i, j \in 1 .. Len(got) : i < j => e[i] < e[j]
       /\ \A p \in 1 .. k : s[p].id > after =>
            \/ \E i \in 1 .. Len(got) : e[i] = p
            \/ Len(got) = limit /\ \A i \in 1 .. Len(got) : e[i] < p
  BY DEF Picked, Places
<1>3. \A i \in 1 .. Len(got) : e[i] \in 1 .. k /\ e[i] \in 1 .. k + 1 /\ e[i] < k + 1
  <2>1. \A x \in 1 .. k : x \in 1 .. k + 1 /\ x < k + 1
    OBVIOUS
  <2> QED BY <1>2, <2>1
<1>4. \A p \in 1 .. k + 1 : p \in 1 .. k \/ p = k + 1
  OBVIOUS
<1>5. CASE s[k + 1].id > after /\ Len(got) < limit
  <2>1. PICK n \in Nat : n = Len(got)
    BY <1>1
  <2>2. PICK new : new = Append(got, s[k + 1])
    OBVIOUS
  <2>3. /\ new \in Seq(Record) /\ Len(new) = n + 1 /\ new[n + 1] = s[k + 1]
        /\ \A i \in 1 .. n : new[i] = got[i]
    BY <1>1, <2>1, <2>2, AppendProperties
  <2> DEFINE e2 == [i \in 1 .. n + 1 |-> IF i <= n THEN e[i] ELSE k + 1]
  <2>4. \A i \in 1 .. n + 1 : (i \in 1 .. n /\ e2[i] = e[i]) \/ (i = n + 1 /\ e2[i] = k + 1)
    BY <2>1
  <2>5. e2 \in [1 .. n + 1 -> 1 .. k + 1]
    <3>1. \A i \in 1 .. n + 1 : e2[i] \in 1 .. k + 1
      BY <1>3, <2>1, <2>4
    <3> QED BY <3>1
  <2>6. e2[n + 1] = k + 1 /\ n + 1 \in 1 .. n + 1 /\ \A i \in 1 .. n : e2[i] = e[i] /\ i \in 1 .. n + 1
    BY <2>1
  <2> HIDE DEF e2
  <2>7. \A i \in 1 .. n + 1 : new[i] = s[e2[i]] /\ new[i].id > after
    BY <1>2, <1>5, <2>1, <2>3, <2>4
  <2>8. \A i, j \in 1 .. n + 1 : i < j => e2[i] < e2[j]
    <3> SUFFICES ASSUME NEW i \in 1 .. n + 1, NEW j \in 1 .. n + 1, i < j PROVE e2[i] < e2[j]
      OBVIOUS
    <3>1. i \in 1 .. n /\ e2[i] = e[i]
      BY <2>1, <2>6
    <3>2. CASE j = n + 1
      BY <1>3, <2>1, <2>6, <3>1, <3>2
    <3>3. CASE j # n + 1
      BY <1>2, <2>1, <2>4, <3>1, <3>3
    <3> QED BY <3>2, <3>3
  <2>9. ASSUME NEW p \in 1 .. k + 1, s[p].id > after PROVE \E i \in 1 .. n + 1 : e2[i] = p
    <3>1. CASE p = k + 1
      BY <2>6, <3>1
    <3>2. CASE p \in 1 .. k
      <4>1. \E i \in 1 .. n : e[i] = p
        BY <1>1, <1>2, <1>5, <2>1, <2>9, <3>2
      <4> QED BY <2>6, <4>1
    <3> QED BY <1>4, <3>1, <3>2
  <2>10. n + 1 <= limit /\ Takes(got, s[k + 1], after, limit) = new
    BY <1>5, <2>1, <2>2 DEF Takes
  <2>11. Places(e2, new, n + 1, s, k + 1, after, limit)
    BY <2>7, <2>8, <2>9 DEF Places
  <2>12. \E x \in [1 .. Len(new) -> 1 .. k + 1] : Places(x, new, Len(new), s, k + 1, after, limit)
    BY <2>3, <2>5, <2>11
  <2>13. Len(new) <= limit
    BY <2>3, <2>10
  <2> QED BY <2>3, <2>10, <2>12, <2>13 DEF Picked
<1>6. CASE ~(s[k + 1].id > after /\ Len(got) < limit)
  <2>1. Takes(got, s[k + 1], after, limit) = got
    BY <1>6 DEF Takes
  <2>2. e \in [1 .. Len(got) -> 1 .. k + 1]
    BY <1>2, <1>3
  <2>3. ASSUME NEW p \in 1 .. k + 1, s[p].id > after
        PROVE  \/ \E i \in 1 .. Len(got) : e[i] = p
               \/ Len(got) = limit /\ \A i \in 1 .. Len(got) : e[i] < p
    <3>1. CASE p \in 1 .. k
      BY <1>2, <2>3, <3>1
    <3>2. CASE p = k + 1
      BY <1>1, <1>3, <1>6, <2>3, <3>2
    <3> QED BY <1>4, <3>1, <3>2
  <2>4. Places(e, got, Len(got), s, k + 1, after, limit)
    BY <1>2, <2>3 DEF Places
  <2>5. \E x \in [1 .. Len(got) -> 1 .. k + 1] : Places(x, got, Len(got), s, k + 1, after, limit)
    BY <2>2, <2>4
  <2> QED BY <1>1, <2>1, <2>5 DEF Picked
<1> QED BY <1>5, <1>6

\* What a request gets.
LEMMA AfterPicks ==
  ASSUME LogTypes, NEW after \in Nat, NEW limit \in Nat
  PROVE  Picked(After(after, limit), ring, Len(ring), after, limit)
<1>1. PICK s \in Seq(Record) : s = ring
  BY DEF LogTypes
<1>2. PICK f : /\ f[0] = <<>> /\ AfterIn(s, after, limit) = f[Len(s)]
               /\ \A k \in 1 .. Len(s) : f[k] = Takes(f[k - 1], s[k], after, limit)
  BY AfterUnfolds
<1> DEFINE T == {k \in Nat : k <= Len(s) => Picked(f[k], s, k, after, limit)}
<1>3. 0 \in T
  <2>1. Picked(<<>>, s, 0, after, limit)
    <3>1. <<>> \in Seq(Record) /\ Len(<<>>) = 0 /\ 1 .. 0 = {}
      OBVIOUS
    <3>2. PICK x : x = [i \in {} |-> 0]
      OBVIOUS
    <3>3. x \in [1 .. Len(<<>>) -> 1 .. 0]
      BY <3>1, <3>2
    <3>4. \A i \in 1 .. Len(<<>>) : FALSE
      BY <3>1
    <3>5. \A i \in 1 .. 0 : FALSE
      OBVIOUS
    <3>6. Places(x, <<>>, Len(<<>>), s, 0, after, limit)
      BY <3>4, <3>5 DEF Places
    <3>7. \E y \in [1 .. Len(<<>>) -> 1 .. 0] : Places(y, <<>>, Len(<<>>), s, 0, after, limit)
      BY <3>3, <3>6
    <3>8. Len(<<>>) <= limit
      BY <3>1
    <3> QED BY <3>1, <3>7, <3>8 DEF Picked
  <2> QED BY <1>2, <2>1
<1>4. ASSUME NEW k \in Nat, k \in T PROVE k + 1 \in T
  <2> SUFFICES ASSUME k + 1 <= Len(s) PROVE Picked(f[k + 1], s, k + 1, after, limit)
    <3>1. k + 1 \in Nat
      OBVIOUS
    <3> QED BY <3>1
  <2>1. k + 1 \in 1 .. Len(s) /\ k + 1 - 1 = k /\ k <= Len(s)
    OBVIOUS
  <2>2. f[k + 1] = Takes(f[k], s[k + 1], after, limit)
    BY <1>2, <2>1
  <2>3. Picked(f[k], s, k, after, limit)
    BY <1>4, <2>1
  <2> QED BY <2>1, <2>2, <2>3, PicksOneMore
<1>5. Len(s) \in Nat /\ Len(s) \in T
  <2>1. \A k \in Nat : k \in T
    <3> HIDE DEF T
    <3> QED BY <1>3, <1>4, Reaches
  <2> QED BY <2>1
<1>6. After(after, limit) = AfterIn(s, after, limit)
  BY <1>1 DEF After, AfterIn
<1> QED BY <1>1, <1>2, <1>5, <1>6

\* What the window takes over of an answer, record by record.
LEMMA NewUnfolds ==
  ASSUME NEW s \in Seq(Record), NEW last \in Nat
  PROVE  \E f : /\ f[0] = <<>> /\ New(s, last) = f[Len(s)]
                /\ \A k \in 1 .. Len(s) : f[k] = TakesNew(f[k - 1], s[k], last)
<1>0. PICK n \in Nat : n = Len(s) /\ DOMAIN s = 1 .. n /\ \A k \in 1 .. n : s[k] \in Record
  OBVIOUS
<1> DEFINE V == Seq(Record)
           step == [p \in (1 .. n) \X V |-> TakesNew(p[2], s[p[1]], last)]
           Unfolds(f) == f = [S \in SUBSET DOMAIN s |->
             IF S = {} THEN <<>>
             ELSE TakesNew(f[S \ {Highest(S)}], s[Highest(S)], last)]
<1>1. step \in [(1 .. n) \X V -> V] /\ <<>> \in V
  <2>1. \A k \in 1 .. n, got \in V : TakesNew(got, s[k], last) \in V
    BY <1>0 DEF TakesNew
  <2>2. \A p \in (1 .. n) \X V : p[1] \in 1 .. n /\ p[2] \in V
    OBVIOUS
  <2>3. <<>> \in V
    OBVIOUS
  <2> HIDE DEF V
  <2> QED BY <2>1, <2>2, <2>3
<1>2. \E f : Unfolds(f)
  <2>1. PICK f \in [SUBSET (1 .. n) -> V] : \A S \in SUBSET (1 .. n) :
                   f[S] = IF S = {} THEN <<>> ELSE step[<<Highest(S), f[S \ {Highest(S)}]>>]
    <3>1. n \in Nat /\ <<>> \in V /\ step \in [(1 .. n) \X V -> V]
      BY <1>0, <1>1
    <3> HIDE DEF step, V
    <3>2. \E f \in [SUBSET (1 .. n) -> V] : IsLeftFold(f, n, <<>>, step)
      BY <3>1, LeftFoldExists, Zenon
    <3> QED BY <3>2 DEF IsLeftFold
  <2>2. \A S \in SUBSET (1 .. n) : S # {} =>
          f[S] = TakesNew(f[S \ {Highest(S)}], s[Highest(S)], last)
    <3> SUFFICES ASSUME NEW S \in SUBSET (1 .. n), S # {}
                 PROVE  f[S] = TakesNew(f[S \ {Highest(S)}], s[Highest(S)], last)
      OBVIOUS
    <3>1. Highest(S) \in 1 .. n /\ f[S \ {Highest(S)}] \in V
      BY <2>1, HighestType
    <3>2. f[S] = step[<<Highest(S), f[S \ {Highest(S)}]>>]
      BY <2>1
    <3> HIDE DEF V
    <3> QED BY <3>1, <3>2
  <2>3. Unfolds(f)
    <3>1. \A S \in SUBSET (1 .. n) : f[S] = IF S = {} THEN <<>>
             ELSE TakesNew(f[S \ {Highest(S)}], s[Highest(S)], last)
      BY <2>1, <2>2
    <3> HIDE DEF V
    <3> QED BY <1>0, <2>1, <3>1
  <2> HIDE DEF Unfolds
  <2> QED BY <2>3
<1>3. PICK g : g = CHOOSE f : Unfolds(f)
  OBVIOUS
<1>4. Unfolds(g)
  <2> HIDE DEF Unfolds
  <2> QED BY <1>2, <1>3
<1>5. New(s, last) = g[1 .. n]
  BY <1>0, <1>3 DEF New, FoldLeft, MapThenFoldSet, Max, Highest
<1> DEFINE h == [k \in 0 .. n |-> g[1 .. k]]
<1>6. h[0] = <<>> /\ New(s, last) = h[n]
  <2>1. 1 .. 0 = {} /\ {} \in SUBSET (1 .. n) /\ 0 \in 0 .. n /\ n \in 0 .. n
    OBVIOUS
  <2>2. g[{}] = <<>>
    BY <1>0, <1>4, <2>1
  <2>3. h[0] = g[1 .. 0] /\ h[n] = g[1 .. n]
    BY <2>1
  <2> QED BY <1>5, <2>1, <2>2, <2>3
<1>7. ASSUME NEW k \in 1 .. n PROVE h[k] = TakesNew(h[k - 1], s[k], last)
  <2>1. g[1 .. k] = TakesNew(g[1 .. k - 1], s[k], last)
    <3>1. /\ 1 .. k \in SUBSET (1 .. n) /\ 1 .. k # {}
          /\ Highest(1 .. k) = k /\ (1 .. k) \ {k} = 1 .. k - 1
      BY <1>0, FirstNumbers
    <3>2. PICK S \in SUBSET (1 .. n) : S = 1 .. k /\ S # {} /\ Highest(S) = k /\ S \ {k} = 1 .. k - 1
      BY <3>1
    <3>3. g[S] = TakesNew(g[1 .. k - 1], s[k], last)
      BY <1>0, <1>4, <3>2
    <3> QED BY <3>2, <3>3
  <2>2. h[k] = g[1 .. k] /\ h[k - 1] = g[1 .. k - 1]
    OBVIOUS
  <2> QED BY <2>1, <2>2
<1> HIDE DEF h
<1> QED BY <1>0, <1>6, <1>7

\* What is new among the first k records: ascending, above what was taken, and
\* nothing is passed over but what comes after a record with an id not below its own.
IsNew(got, n, s, k, last) ==
  /\ \A i \in 1 .. n : got[i].id > last /\ \E p \in 1 .. k : got[i] = s[p]
  /\ \A i, j \in 1 .. n : i < j => got[i].id < got[j].id
  /\ \A p \in 1 .. k : \/ s[p].id <= last
                       \/ \E i \in 1 .. n : got[i] = s[p]
                       \/ \E q \in 1 .. p - 1 : s[q].id >= s[p].id

LEMMA NewOneMore ==
  ASSUME NEW s \in Seq(Record), NEW last \in Nat, NEW k \in Nat, k + 1 \in 1 .. Len(s),
         NEW got \in Seq(Record), IsNew(got, Len(got), s, k, last),
         NEW new, new = TakesNew(got, s[k + 1], last)
  PROVE  new \in Seq(Record) /\ IsNew(new, Len(new), s, k + 1, last)
<1>1. PICK n \in Nat : n = Len(got) /\ DOMAIN got = 1 .. n
  OBVIOUS
<1>2. PICK r \in Record : r = s[k + 1]
  <2>1. PICK i \in 1 .. Len(s) : i = k + 1
    OBVIOUS
  <2> QED BY <2>1
<1>3. r.id \in Nat /\ \A i \in 1 .. n : got[i].id \in Nat
  <2>1. \A x \in Record : x.id \in Nat
    BY DEF Record
  <2>2. \A i \in 1 .. n : got[i] \in Record
    BY <1>1
  <2> QED BY <2>1, <2>2
<1>4. \A p \in 1 .. k + 1 : p \in 1 .. k \/ p = k + 1
  OBVIOUS
<1>5. /\ \A i \in 1 .. n : got[i].id > last /\ \E p \in 1 .. k : got[i] = s[p]
      /\ \A i, j \in 1 .. n : i < j => got[i].id < got[j].id
      /\ \A p \in 1 .. k : \/ s[p].id <= last
                           \/ \E i \in 1 .. n : got[i] = s[p]
                           \/ \E q \in 1 .. p - 1 : s[q].id >= s[p].id
  BY <1>1 DEF IsNew
<1>6. \A p \in 1 .. k : p \in 1 .. k + 1 /\ p \in 1 .. (k + 1) - 1
  OBVIOUS
<1>7. CASE r.id > last /\ \A i \in 1 .. n : got[i].id < r.id
  <2>1. new = Append(got, r)
    BY <1>1, <1>2, <1>7 DEF TakesNew
  <2>2. /\ new \in Seq(Record) /\ Len(new) = n + 1 /\ new[n + 1] = r
        /\ \A i \in 1 .. n : new[i] = got[i]
    BY <1>1, <2>1, AppendProperties
  <2>3. \A i \in 1 .. n + 1 : i \in 1 .. n \/ i = n + 1
    OBVIOUS
  <2>4. n + 1 \in 1 .. n + 1 /\ k + 1 \in 1 .. k + 1 /\ \A i \in 1 .. n : i \in 1 .. n + 1
    OBVIOUS
  <2>5. \A i \in 1 .. n + 1 : new[i].id > last /\ \E p \in 1 .. k + 1 : new[i] = s[p]
    BY <1>2, <1>5, <1>6, <1>7, <2>2, <2>3, <2>4
  <2>6. \A i, j \in 1 .. n + 1 : i < j => new[i].id < new[j].id
    <3> SUFFICES ASSUME NEW i \in 1 .. n + 1, NEW j \in 1 .. n + 1, i < j
                 PROVE  new[i].id < new[j].id
      OBVIOUS
    <3>1. i \in 1 .. n
      OBVIOUS
    <3> QED BY <1>5, <1>7, <2>2, <2>3, <3>1
  <2>7. ASSUME NEW p \in 1 .. k + 1
        PROVE  \/ s[p].id <= last
               \/ \E i \in 1 .. n + 1 : new[i] = s[p]
               \/ \E q \in 1 .. p - 1 : s[q].id >= s[p].id
    <3>1. CASE p = k + 1
      BY <1>2, <2>2, <2>4, <3>1
    <3>2. CASE p \in 1 .. k
      BY <1>5, <2>2, <2>4, <3>2
    <3> QED BY <1>4, <3>1, <3>2
  <2>8. IsNew(new, n + 1, s, k + 1, last)
    BY <2>5, <2>6, <2>7 DEF IsNew
  <2> QED BY <2>2, <2>8
<1>8. CASE ~(r.id > last /\ \A i \in 1 .. n : got[i].id < r.id)
  <2>1. new = got
    BY <1>1, <1>2, <1>8 DEF TakesNew
  <2>2. ASSUME NEW p \in 1 .. k + 1
        PROVE  \/ s[p].id <= last
               \/ \E i \in 1 .. n : got[i] = s[p]
               \/ \E q \in 1 .. p - 1 : s[q].id >= s[p].id
    <3>1. CASE p = k + 1 /\ r.id > last
      <4>1. PICK i \in 1 .. n : got[i].id >= r.id
        BY <1>3, <1>8, <3>1
      <4>2. PICK q \in 1 .. k : got[i] = s[q]
        BY <1>5
      <4>3. q \in 1 .. p - 1
        BY <1>6, <3>1
      <4> QED BY <1>2, <3>1, <4>1, <4>2, <4>3
    <3>2. CASE p = k + 1 /\ ~(r.id > last)
      BY <1>2, <1>3, <3>2
    <3>3. CASE p \in 1 .. k
      BY <1>5, <3>3
    <3> QED BY <1>4, <3>1, <3>2, <3>3
  <2>3. IsNew(got, n, s, k + 1, last)
    BY <1>5, <1>6, <2>2 DEF IsNew
  <2> QED BY <1>1, <2>1, <2>3
<1> QED BY <1>7, <1>8

LEMMA NewOnes ==
  ASSUME NEW s \in Seq(Record), NEW last \in Nat
  PROVE  New(s, last) \in Seq(Record) /\ IsNew(New(s, last), Len(New(s, last)), s, Len(s), last)
<1>1. PICK f : /\ f[0] = <<>> /\ New(s, last) = f[Len(s)]
               /\ \A k \in 1 .. Len(s) : f[k] = TakesNew(f[k - 1], s[k], last)
  BY NewUnfolds
<1> DEFINE T == {k \in Nat : k <= Len(s) => f[k] \in Seq(Record) /\ IsNew(f[k], Len(f[k]), s, k, last)}
<1>2. 0 \in T
  <2>1. <<>> \in Seq(Record) /\ Len(<<>>) = 0 /\ 1 .. 0 = {}
    OBVIOUS
  <2>2. IsNew(<<>>, 0, s, 0, last)
    BY <2>1 DEF IsNew
  <2> QED BY <1>1, <2>1, <2>2
<1>3. ASSUME NEW k \in Nat, k \in T PROVE k + 1 \in T
  <2> SUFFICES ASSUME k + 1 <= Len(s)
               PROVE  f[k + 1] \in Seq(Record) /\ IsNew(f[k + 1], Len(f[k + 1]), s, k + 1, last)
    <3>1. k + 1 \in Nat
      OBVIOUS
    <3> QED BY <3>1
  <2>1. k + 1 \in 1 .. Len(s) /\ k + 1 - 1 = k /\ k <= Len(s)
    OBVIOUS
  <2>2. f[k + 1] = TakesNew(f[k], s[k + 1], last)
    BY <1>1, <2>1
  <2>3. f[k] \in Seq(Record) /\ IsNew(f[k], Len(f[k]), s, k, last)
    BY <1>3, <2>1
  <2> QED BY <2>1, <2>2, <2>3, NewOneMore
<1>4. Len(s) \in Nat /\ Len(s) \in T
  <2>1. \A k \in Nat : k \in T
    <3> HIDE DEF T
    <3> QED BY <1>2, <1>3, Reaches
  <2> QED BY <2>1
<1> QED BY <1>1, <1>4

-----------------------------------------------------------------------------
(* What the window has of the log.                                         *)

\* A step in which no answer comes.
PollWaits ==
  /\ UNCHANGED <<last_log_id, taken>>
  /\ (poll'.after = poll.after /\ poll'.records = poll.records) \/ poll'.records = <<>>
  /\ poll'.step # "idle" => poll'.after = last_log_id

LEMMA WaitsKeepsPollInv ==
  ASSUME LogTypes, WindowTypes, PollInv, LogGoes \/ LogAgain, PollWaits
  PROVE  PollInv'
<1>1. PICK s \in Seq(Record) : s = poll'.records
  <2>1. poll.records \in Seq(Record)
    BY DEF WindowTypes, PollState
  <2>2. <<>> \in Seq(Record)
    OBVIOUS
  <2> QED BY <2>1, <2>2 DEF PollWaits
<1>2. PICK n \in Nat : n = Len(s) /\ \A k \in 1 .. n : s[k] \in Record /\ s[k].life \in Nat
  <2>1. PICK n \in Nat : n = Len(s) /\ \A k \in 1 .. n : s[k] \in Record
    OBVIOUS
  <2>2. \A r \in Record : r.life \in Nat
    BY DEF Record
  <2> QED BY <2>1, <2>2
<1>3. CASE s = <<>>
  <2>1. Len(s) = 0 /\ 1 .. 0 = {}
    BY <1>3
  <2> QED BY <1>1, <2>1 DEF PollInv, PollWaits, InOrder
<1>4. CASE s = poll.records /\ poll'.after = poll.after
  <2>1. \A k \in 1 .. n : Known(s[k]) /\ s[k].id > 0
    BY <1>2, <1>4 DEF PollInv
  <2>2. \A k \in 1 .. n : Known(s[k])'
    <3>1. CASE LogGoes
      BY <2>1, <3>1 DEF LogGoes, Known
    <3>2. CASE LogAgain
      BY <1>2, <2>1, <3>2 DEF LogAgain, Known, LogTypes
    <3> QED BY <3>1, <3>2
  <2>3. \A i, k \in 1 .. n : s[i].life = s[k].life
    BY <1>2, <1>4 DEF PollInv
  <2>4. InOrder(s)'
    <3>1. missable \subseteq missable'
      BY DEF LogGoes, LogAgain
    <3>2. InOrder(s)
      BY <1>4 DEF PollInv
    <3> QED BY <3>1, <3>2 DEF InOrder
  <2>5. ASSUME NEW k \in 1 .. n, NEW id \in Emitted', s[k].life = life', up',
               poll.after < id, id <= s[k].id, Rec(id)' \notin missable'
        PROVE  \E i \in 1 .. n : s[i] = Rec(id)'
    <3>1. LogGoes
      BY <2>5 DEF LogAgain
    <3>2. up /\ life' = life /\ missable \subseteq missable' /\ Rec(id)' = Rec(id)
      BY <2>5, <3>1 DEF LogGoes, Rec
    <3>3. id \in Emitted
      <4>1. s[k].id \in Emitted
        BY <2>1, <2>5, <3>2 DEF Known
      <4>2. s[k].id \in Nat
        BY <4>1, EmittedType
      <4>3. id \in Nat
        BY <2>5 DEF Emitted
      <4>4. ~(s[k].id < id)
        BY <2>5, <4>2, <4>3
      <4> QED BY <2>5, <3>1, <3>2, <4>1, <4>4 DEF LogGoes
    <3> QED BY <1>2, <1>4, <2>5, <3>2, <3>3 DEF PollInv
  <2> QED BY <1>1, <1>2, <1>4, <2>1, <2>2, <2>3, <2>4, <2>5 DEF PollInv, PollWaits
<1> QED BY <1>1, <1>3, <1>4 DEF PollWaits

LEMMA WaitsKeepsTakenInv ==
  ASSUME LogTypes, WindowTypes, TakenInv, LogGoes \/ LogAgain, UNCHANGED <<last_log_id, taken>>
  PROVE  TakenInv'
<1>0. \A r \in taken : r \in Record /\ r.life \in Nat /\ r.id \in Nat
  BY DEF WindowTypes, Record
<1>1. CASE LogAgain
  BY <1>0, <1>1 DEF LogAgain, TakenInv, Known, LogTypes
<1>2. CASE LogGoes
  <2>1. \A r \in taken : Known(r)'
    BY <1>2 DEF TakenInv, LogGoes, Known
  <2>2. ASSUME up', NEW id \in Emitted', id <= last_log_id
        PROVE  \/ Rec(id)' \in taken \cup missable'
               \/ \E r \in taken : r.life < life /\ r.id >= id
    <3>1. up /\ missable \subseteq missable' /\ Rec(id)' = Rec(id)
      BY <1>2, <2>2 DEF LogGoes, Rec
    <3>2. CASE id \in Emitted
      BY <2>2, <3>1, <3>2 DEF TakenInv
    <3>3. CASE id \notin Emitted /\ Rec(id)' \notin missable'
      <4>1. \A i \in Emitted : i < id
        BY <1>2, <2>2, <3>1, <3>3 DEF LogGoes
      <4>2. id \in Nat /\ id > 0
        BY <2>2 DEF Emitted
      <4>3. last_log_id \in Nat
        BY DEF WindowTypes
      <4>4. PICK r \in taken : r.id = last_log_id
        BY <2>2, <4>2, <4>3 DEF TakenInv
      <4>5. r.id >= id /\ r.id \in Nat /\ r.life \in Nat
        BY <1>0, <2>2, <4>2, <4>3, <4>4
      <4>6. r.id \notin Emitted
        BY <4>1, <4>2, <4>5
      <4>7. r.life < life
        BY <4>5, <4>6 DEF TakenInv, Known, LogTypes
      <4> QED BY <4>5, <4>7
    <3> QED BY <3>2, <3>3
  <2> QED BY <1>2, <2>1, <2>2 DEF TakenInv, LogGoes
<1> QED BY <1>1, <1>2

LEMMA LogsKeepsPollInv ==
  ASSUME LogTypes, RingInv, WindowTypes, PollInv, Logs
  PROVE  PollInv'
<1>0. /\ UNCHANGED <<logVars, last_log_id>> /\ poll.step = "half"
      /\ poll' = [poll EXCEPT !.step = "answered", !.logs = up,
                          !.records = IF up THEN After(poll.after, ReadLimit) ELSE <<>>]
  BY DEF Logs
<1>1. /\ poll'.after = poll.after /\ poll.after = last_log_id
      /\ poll'.records = IF up THEN After(poll.after, ReadLimit) ELSE <<>>
  BY <1>0 DEF PollInv, WindowTypes, PollState
<1>2. /\ life' = life /\ up' = up /\ missable' = missable /\ Emitted' = Emitted
      /\ last_log_id' = last_log_id
  BY <1>0 DEF logVars, Emitted, Pending
<1>3. PICK s : s = poll'.records
  OBVIOUS
<1>4. CASE ~up
  <2>1. Len(s) = 0 /\ 1 .. 0 = {}
    BY <1>1, <1>3, <1>4
  <2> QED BY <1>1, <1>2, <1>3, <2>1 DEF PollInv, InOrder
<1>5. CASE up
  <2>1. PICK after \in Nat : after = poll.after
    BY DEF WindowTypes, PollState
  <2>2. PICK limit \in Nat : limit = ReadLimit
    BY WindowAssumption
  <2>3. Picked(s, ring, Len(ring), after, limit)
    BY <1>1, <1>3, <1>5, <2>1, <2>2, AfterPicks
  <2>4. PICK n \in Nat : n = Len(s) /\ s \in Seq(Record)
    BY <2>3 DEF Picked
  <2>5. PICK m \in Nat : m = Len(ring)
    BY DEF LogTypes
  <2>6. PICK e \in [1 .. n -> 1 .. m] :
          /\ \A i \in 1 .. n : s[i] = ring[e[i]] /\ s[i].id > after
          /\ \A i, j \in 1 .. n : i < j => e[i] < e[j]
          /\ \A p \in 1 .. m : ring[p].id > after =>
               \/ \E i \in 1 .. n : e[i] = p
               \/ n = limit /\ \A i \in 1 .. n : e[i] < p
    BY <2>3, <2>4, <2>5 DEF Picked, Places
  <2>7. \A i \in 1 .. n : e[i] \in 1 .. m /\ s[i].life = life /\ s[i].id \in Emitted
    BY <2>5, <2>6 DEF RingInv
  <2>8. \A i \in 1 .. n : Known(s[i]) /\ s[i].id > 0 /\ s[i].id \in Nat
    <3>1. life \in Nat /\ \A i \in Emitted : i \in Nat /\ i > 0
      BY DEF LogTypes, Emitted
    <3> QED BY <2>7, <3>1 DEF Known
  <2>9. \A i, k \in 1 .. m : i < k /\ ring[k] \notin missable => ring[i].id < ring[k].id
    BY <2>5 DEF RingInv, InOrder
  <2>10. InOrder(s)
    <3>1. \A i, k \in 1 .. n : i < k /\ s[k] \notin missable => s[i].id < s[k].id
      BY <2>6, <2>7, <2>9
    <3> QED BY <2>4, <3>1 DEF InOrder
  <2>11. ASSUME NEW k \in 1 .. n, NEW id \in Emitted, after < id, id <= s[k].id, Rec(id) \notin missable
         PROVE  \E i \in 1 .. n : s[i] = Rec(id)
    <3>1. PICK p \in 1 .. m : ring[p] = Rec(id)
      BY <1>5, <2>5, <2>11 DEF RingInv
    <3>2. ring[p].id = id /\ id \in Nat
      BY <3>1 DEF Rec, Emitted
    <3>3. CASE \E i \in 1 .. n : e[i] = p
      BY <2>6, <3>1, <3>3
    <3>4. CASE \A i \in 1 .. n : e[i] < p
      <4>1. ring[e[k]].id < ring[p].id
        BY <2>7, <2>9, <2>11, <3>1, <3>4
      <4> QED BY <2>6, <2>8, <2>11, <3>2, <4>1
    <3> QED BY <2>6, <2>11, <3>2, <3>3, <3>4
  <2>12. \A id \in Emitted : Rec(id)' = Rec(id)
    BY <1>2 DEF Rec
  <2>13. \A k \in 1 .. n : Known(s[k])'
    BY <1>2, <2>8 DEF Known
  <2>14. InOrder(s)'
    BY <1>2, <2>10 DEF InOrder
  <2>15. \A i, k \in 1 .. n : s[i].life = s[k].life
    BY <2>7
  <2> QED BY <1>1, <1>2, <1>3, <2>1, <2>4, <2>8, <2>11, <2>12, <2>13, <2>14, <2>15 DEF PollInv
<1> QED BY <1>4, <1>5 DEF LogTypes

LEMMA UpdatedKeepsInv ==
  ASSUME LogTypes, WindowTypes, PollInv, TakenInv, ServiceUpdated
  PROVE  PollInv' /\ TakenInv'
<1>1. /\ UNCHANGED logVars /\ poll' = NoPoll /\ poll.step = "answered" /\ poll.after = last_log_id
      /\ last_log_id' = IF New(poll.records, last_log_id) = <<>> THEN last_log_id ELSE Last(New(poll.records, last_log_id)).id
      /\ taken' = taken \cup Range(New(poll.records, last_log_id))
  BY DEF ServiceUpdated, Finish, PollInv
<1>2. /\ life' = life /\ up' = up /\ missable' = missable /\ Emitted' = Emitted
      /\ \A id \in Emitted : Rec(id)' = Rec(id)
  BY <1>1 DEF logVars, Emitted, Pending, Rec
<1>3. PollInv'
  <2>1. poll'.step = "idle" /\ poll'.records = <<>> /\ Len(poll'.records) = 0 /\ 1 .. 0 = {}
    BY <1>1 DEF NoPoll
  <2> QED BY <2>1 DEF PollInv, InOrder
<1>4. PICK s \in Seq(Record) : s = poll.records
  BY DEF WindowTypes, PollState
<1>5. PICK last \in Nat : last = last_log_id
  BY DEF WindowTypes
<1>6. PICK new : new = New(poll.records, last_log_id)
  OBVIOUS
<1>7. new \in Seq(Record) /\ IsNew(new, Len(new), s, Len(s), last)
  <2>1. new = New(s, last)
    BY <1>4, <1>5, <1>6
  <2> QED BY <2>1, NewOnes
<1>8. PICK m \in Nat : m = Len(s) /\ \A k \in 1 .. m : s[k] \in Record
  OBVIOUS
<1>9. PICK n \in Nat : n = Len(new) /\ DOMAIN new = 1 .. n
  BY <1>7
<1>10. /\ \A i \in 1 .. n : new[i].id > last /\ \E p \in 1 .. m : new[i] = s[p]
       /\ \A p \in 1 .. m : \/ s[p].id <= last
                            \/ \E i \in 1 .. n : new[i] = s[p]
                            \/ \E q \in 1 .. p - 1 : s[q].id >= s[p].id
  BY <1>7, <1>8, <1>9 DEF IsNew
<1>11. taken' = taken \cup {new[i] : i \in 1 .. n}
  BY <1>1, <1>6, <1>9 DEF Range
<1>12. \A r \in taken' : Known(r)
  <2>1. \A i \in 1 .. n : Known(new[i])
    BY <1>4, <1>8, <1>10 DEF PollInv
  <2> QED BY <1>11, <2>1 DEF TakenInv
<1>13. \A r \in taken' : Known(r)'
  BY <1>2, <1>12 DEF Known
<1>14. CASE new = <<>>
  <2>1. last_log_id' = last_log_id /\ taken \subseteq taken'
    BY <1>1, <1>6, <1>11, <1>14
  <2>2. ASSUME up, NEW id \in Emitted, id <= last_log_id
        PROVE  \/ Rec(id) \in taken' \cup missable
               \/ \E r \in taken' : r.life < life /\ r.id >= id
    BY <2>1, <2>2 DEF TakenInv
  <2>3. last_log_id # 0 => \E r \in taken' : r.id = last_log_id
    BY <2>1 DEF TakenInv
  <2>4. last_log_id' # 0 => \E r \in taken' : r.id = last_log_id'
    BY <2>1, <2>3
  <2>5. up' => \A id \in Emitted' : id <= last_log_id' =>
             \/ Rec(id)' \in taken' \cup missable'
             \/ \E r \in taken' : r.life < life' /\ r.id >= id
    BY <1>2, <2>1, <2>2
  <2> QED BY <1>3, <1>13, <2>4, <2>5 DEF TakenInv
<1>15. CASE new # <<>>
  <2>1. n > 0 /\ n \in 1 .. n
    BY <1>7, <1>9, <1>15
  <2>2. last_log_id' = new[n].id
    BY <1>1, <1>6, <1>9, <1>15 DEF Last
  <2>3. new[n] \in taken'
    BY <1>11, <2>1
  <2>4. PICK k \in 1 .. m : new[n] = s[k]
    BY <1>10, <2>1
  <2>5. Known(s[k]) /\ s[k].life \in Nat /\ s[k].id \in Nat /\ life \in Nat
    BY <1>4, <1>8 DEF PollInv, Record, LogTypes
  <2>6. ASSUME up, NEW id \in Emitted, id <= new[n].id, id \in Nat, ~(id <= last), Rec(id) \notin missable,
               s[k].life = life
        PROVE  Rec(id) \in taken'
    <3>1. last < id /\ poll.after < id
      BY <1>1, <1>5, <2>6
    <3>2. PICK i \in 1 .. m : s[i] = Rec(id)
      BY <1>4, <1>8, <2>4, <2>6, <3>1 DEF PollInv
    <3>3. s[i].id = id
      BY <3>2 DEF Rec
    <3>4. CASE \E j \in 1 .. n : new[j] = s[i]
      BY <1>11, <3>2, <3>4
    <3>5. CASE \E q \in 1 .. i - 1 : s[q].id >= s[i].id
      <4>1. PICK q \in 1 .. i - 1 : s[q].id >= s[i].id
        BY <3>5
      <4>2. q \in 1 .. m /\ q < i
        OBVIOUS
      <4>3. s[i] \notin missable
        BY <2>6, <3>2
      <4>4. s[q].id < s[i].id
        BY <1>4, <1>8, <4>2, <4>3 DEF PollInv, InOrder
      <4>5. s[q].id \in Nat /\ s[i].id \in Nat
        BY <1>8, <4>2 DEF Record
      <4> QED BY <4>1, <4>4, <4>5
    <3> QED BY <1>10, <2>6, <3>3, <3>4, <3>5
  <2>7. ASSUME up, NEW id \in Emitted, id <= new[n].id
        PROVE  \/ Rec(id) \in taken' \cup missable
               \/ \E r \in taken' : r.life < life /\ r.id >= id
    <3>1. id \in Nat
      BY DEF Emitted
    <3>2. CASE id <= last
      BY <1>5, <1>11, <2>7, <3>2 DEF TakenInv
    <3>3. CASE s[k].life # life
      BY <2>3, <2>4, <2>5, <2>7, <3>1, <3>3 DEF Known
    <3> QED BY <2>6, <2>7, <3>1, <3>2, <3>3
  <2>8. \E r \in taken' : r.id = last_log_id'
    BY <2>2, <2>3
  <2>9. up' => \A id \in Emitted' : id <= last_log_id' =>
             \/ Rec(id)' \in taken' \cup missable'
             \/ \E r \in taken' : r.life < life' /\ r.id >= id
    BY <1>2, <2>2, <2>7
  <2> QED BY <1>3, <1>13, <2>8, <2>9 DEF TakenInv
<1> QED BY <1>3, <1>14, <1>15

\* The window's steps, for what it has of the log.
LEMMA NextKeepsReaderInv ==
  ASSUME LogTypes, RingInv, WindowTypes, PollInv, TakenInv, [Next]_vars
  PROVE  PollInv' /\ TakenInv'
<1>0. LogGoes \/ LogAgain
  BY LogSteps
<1>a. ASSUME PollWaits PROVE PollInv' /\ TakenInv'
  BY <1>0, <1>a, WaitsKeepsPollInv, WaitsKeepsTakenInv DEF PollWaits
<1>b. ASSUME UNCHANGED <<poll, last_log_id, taken>> PROVE PollInv' /\ TakenInv'
  BY <1>a, <1>b DEF PollWaits, PollInv
<1>c. ASSUME Polls, UNCHANGED <<last_log_id, taken>> PROVE PollInv' /\ TakenInv'
  <2>1. CASE poll.step = "idle"
    <3>1. poll'.after = last_log_id /\ poll'.records = <<>>
      BY <1>c, <2>1 DEF Polls, NoPoll
    <3> QED BY <1>a, <1>c, <3>1 DEF PollWaits
  <2>2. CASE poll.step # "idle"
    BY <1>b, <1>c, <2>2 DEF Polls
  <2> QED BY <2>1, <2>2
<1>d. ASSUME poll' = NoPoll, last_log_id' = 0, taken' = {} PROVE PollInv' /\ TakenInv'
  <2>1. poll'.step = "idle" /\ poll'.records = <<>> /\ Len(poll'.records) = 0 /\ 1 .. 0 = {}
    BY <1>d DEF NoPoll
  <2>2. \A id \in Emitted' : ~(id <= 0)
    BY DEF Emitted
  <2> QED BY <1>d, <2>1, <2>2 DEF PollInv, InOrder, TakenInv
<1>1. CASE Snapshot
  <2>1. poll'.after = poll.after /\ poll'.records = poll.records /\ poll.step # "idle"
    BY <1>1 DEF Snapshot, WindowTypes, PollState
  <2>2. UNCHANGED <<last_log_id, taken>>
    BY <1>1 DEF Snapshot
  <2> QED BY <1>a, <2>1, <2>2 DEF PollWaits, PollInv
<1>2. CASE Logs
  <2>1. UNCHANGED <<last_log_id, taken>>
    BY <1>2 DEF Logs
  <2> QED BY <1>0, <1>2, <2>1, LogsKeepsPollInv, WaitsKeepsTakenInv
<1>3. CASE ServiceUpdated
  BY <1>3, UpdatedKeepsInv
<1>4. CASE Tick \/ DaemonReady
  BY <1>c, <1>4 DEF Tick, DaemonReady
<1>5. CASE ClearLogView \/ CloseRequested
  BY <1>b, <1>5 DEF ClearLogView, CloseRequested
<1>6. ASSUME NEW p \in Process, Launch(p) \/ Signals(p) \/ GivesUp(p) \/ Release(p)
      PROVE  PollInv' /\ TakenInv'
  BY <1>b, <1>6 DEF Launch, Signals, GivesUp, Release, winVars
<1>7. ASSUME NEW p \in Process, Boots(p) \/ Exit(p) \/ Dies(p) PROVE PollInv' /\ TakenInv'
  BY <1>d, <1>7 DEF Boots, Exit, Dies, WindowEnds
<1>8. CASE DaemonBegins \/ Log \/ SettingsChanged \/ Update \/ UNCHANGED vars
  BY <1>b, <1>8 DEF DaemonBegins, Log, SettingsChanged, Update, vars, winVars
<1>9. CASE DaemonEnds
  BY <1>b, <1>c, <1>9 DEF DaemonEnds
<1>10. ASSUME NEW r \in saving, Saves(r) PROVE PollInv' /\ TakenInv'
  BY <1>b, <1>10 DEF Saves, winVars
<1>11. ASSUME NEW r \in saving, ControlFinished(r) PROVE PollInv' /\ TakenInv'
  BY <1>b, <1>c, <1>11 DEF ControlFinished
<1> QED
  BY <1>1, <1>2, <1>3, <1>4, <1>5, <1>6, <1>7, <1>8, <1>9, <1>10, <1>11 DEF Next, Poll

-----------------------------------------------------------------------------
(* The types that are left.                                                *)

LEMMA LastOfType ==
  ASSUME NEW s \in Seq(Record), NEW n \in Nat
  PROVE  LastOf(n, s) \in Seq(Record) /\ Len(LastOf(n, s)) <= n
<1>1. PICK m \in Nat : m = Len(s)
  OBVIOUS
<1>2. PICK a \in 1 .. m + 1 : a = IF m > n THEN m - n + 1 ELSE 1
  <2>1. m > n => m - n + 1 \in 1 .. m + 1
    OBVIOUS
  <2>2. 1 \in 1 .. m + 1
    OBVIOUS
  <2> QED BY <2>1, <2>2
<1>3. LastOf(n, s) = SubSeq(s, a, m)
  BY <1>1, <1>2 DEF LastOf
<1>4. PICK t : t = SubSeq(s, a, m)
  OBVIOUS
<1>5. t \in Seq(Record) /\ Len(t) = IF a <= m THEN m - a + 1 ELSE 0
  BY <1>1, <1>2, <1>4, SubSeqProperties
<1>6. Len(t) <= n
  BY <1>2, <1>5
<1> QED BY <1>3, <1>4, <1>5, <1>6

LEMMA InitWindowTypes == Init => WindowTypes
<1> SUFFICES ASSUME Init PROVE WindowTypes
  OBVIOUS
<1>1. <<>> \in Seq(Record) /\ Len(<<>>) = 0
  OBVIOUS
<1>2. NoPoll \in PollState
  BY <1>1 DEF NoPoll, PollState
<1>3. MaxShown \in Nat
  BY WindowAssumption
<1> QED BY <1>1, <1>2, <1>3 DEF Init, WindowTypes

LEMMA NextKeepsWindowTypes ==
  ASSUME LogTypes, WindowTypes, [Next]_vars
  PROVE  WindowTypes'
<1>0. <<>> \in Seq(Record) /\ Len(<<>>) = 0 /\ MaxShown \in Nat
  BY WindowAssumption
<1> DEFINE Same == UNCHANGED <<last_log_id, taken, shown>>
<1>1. NoPoll \in PollState
  BY <1>0 DEF NoPoll, PollState
<1>a. ASSUME UNCHANGED <<ui_sock, winVars>> PROVE WindowTypes'
  BY <1>a DEF winVars, WindowTypes
<1>b. ASSUME Polls, UNCHANGED <<ui_sock, last_log_id, taken, shown>> PROVE WindowTypes'
  <2>1. PICK q \in PollState : q = NoPoll
    BY <1>1
  <2>2. PICK id \in Nat : id = last_log_id
    BY DEF WindowTypes
  <2>3. [q EXCEPT !.step = "asked", !.after = id] \in PollState
    BY <2>2 DEF PollState
  <2>4. poll' \in PollState
    BY <1>b, <2>1, <2>2, <2>3 DEF Polls, WindowTypes
  <2> QED BY <1>b, <2>4 DEF WindowTypes
<1>c. ASSUME poll' = NoPoll, last_log_id' = 0, taken' = {}, shown' = <<>>, ui_sock' \in {0} \cup Process
      PROVE  WindowTypes'
  BY <1>0, <1>1, <1>c DEF WindowTypes
<1>2. CASE Snapshot
  <2>1. UNCHANGED <<ui_sock, last_log_id, taken, shown>>
        /\ poll' = [poll EXCEPT !.step = "half", !.snapshot = up]
    BY <1>2 DEF Snapshot, uiVars
  <2>2. poll' \in PollState
    BY <2>1 DEF PollState, WindowTypes, LogTypes
  <2> QED BY <2>1, <2>2 DEF WindowTypes
<1>3. CASE Logs
  <2>1. /\ UNCHANGED <<ui_sock, last_log_id, taken, shown>>
        /\ poll' = [poll EXCEPT !.step = "answered", !.logs = up,
                          !.records = IF up THEN After(poll.after, ReadLimit) ELSE <<>>]
    BY <1>3 DEF Logs, uiVars
  <2>2. PICK after \in Nat : after = poll.after
    BY DEF WindowTypes, PollState
  <2>3. PICK limit \in Nat : limit = ReadLimit
    BY WindowAssumption
  <2>4. PICK s : s = IF up THEN After(poll.after, ReadLimit) ELSE <<>>
    OBVIOUS
  <2>5. After(after, limit) \in Seq(Record)
    BY AfterPicks DEF Picked
  <2>6. s \in Seq(Record)
    BY <1>0, <2>2, <2>3, <2>4, <2>5
  <2>7. poll' \in PollState
    BY <2>1, <2>4, <2>6 DEF PollState, WindowTypes, LogTypes
  <2> QED BY <2>1, <2>7 DEF WindowTypes
<1>4. CASE ServiceUpdated
  <2>1. PICK s \in Seq(Record) : s = poll.records
    BY DEF WindowTypes, PollState
  <2>2. PICK last \in Nat : last = last_log_id
    BY DEF WindowTypes
  <2>3. PICK new \in Seq(Record) : new = New(s, last)
    BY NewOnes
  <2>4. /\ UNCHANGED ui_sock /\ poll' = NoPoll
        /\ last_log_id' = IF new = <<>> THEN last ELSE Last(new).id
        /\ shown' = LastOf(MaxShown, shown \o new)
        /\ taken' = taken \cup Range(new)
    BY <1>4, <2>1, <2>2, <2>3 DEF ServiceUpdated, Finish, uiVars
  <2>5. last_log_id' \in Nat
    <3>1. \A r \in Record : r.id \in Nat
      BY DEF Record
    <3>2. new # <<>> => Last(new) \in Record
      BY DEF Last
    <3> QED BY <2>4, <3>1, <3>2
  <2>6. taken' \subseteq Record
    <3>1. Range(new) \subseteq Record
      BY DEF Range
    <3> QED BY <2>4, <3>1 DEF WindowTypes
  <2>7. shown' \in Seq(Record) /\ Len(shown') <= MaxShown
    <3>0. PICK u \in Seq(Record) : u = shown
      BY DEF WindowTypes
    <3>1. PICK t \in Seq(Record) : t = shown \o new
      BY <3>0, ConcatProperties
    <3> QED BY <1>0, <2>4, <3>1, LastOfType
  <2> QED BY <1>1, <2>4, <2>5, <2>6, <2>7 DEF WindowTypes
<1>5. CASE Tick \/ DaemonReady
  BY <1>b, <1>5 DEF Tick, DaemonReady, uiVars
<1>6. CASE CloseRequested
  BY <1>6 DEF CloseRequested, uiVars, WindowTypes
<1>7. CASE ClearLogView
  BY <1>0, <1>7 DEF ClearLogView, uiVars, WindowTypes
<1>8. ASSUME NEW p \in Process, Launch(p) \/ Signals(p) \/ GivesUp(p) \/ Release(p)
      PROVE  WindowTypes'
  BY <1>8 DEF Launch, Signals, GivesUp, Release, Leaves, winVars, WindowTypes
<1>9. ASSUME NEW p \in Process, Boots(p) \/ Exit(p) \/ Dies(p) PROVE WindowTypes'
  <2>1. ui_sock' \in {0} \cup Process
    BY <1>9 DEF Boots, Exit, Dies, WindowTypes
  <2> QED BY <1>c, <1>9, <2>1 DEF Boots, Exit, Dies, WindowEnds
<1>10. CASE DaemonBegins \/ Log \/ SettingsChanged \/ Update \/ UNCHANGED vars
  BY <1>a, <1>10 DEF DaemonBegins, Log, SettingsChanged, Update, vars, uiVars
<1>11. CASE DaemonEnds
  <2>1. UNCHANGED <<ui_sock, last_log_id, taken, shown>> /\ (Polls \/ UNCHANGED poll)
    BY <1>11 DEF DaemonEnds, uiVars
  <2> QED BY <1>b, <2>1 DEF WindowTypes
<1>12. ASSUME NEW r \in saving, Saves(r) PROVE WindowTypes'
  BY <1>a, <1>12 DEF Saves, uiVars
<1>13. ASSUME NEW r \in saving, ControlFinished(r) PROVE WindowTypes'
  <2>1. UNCHANGED <<ui_sock, last_log_id, taken, shown>> /\ (Polls \/ UNCHANGED poll)
    BY <1>13 DEF ControlFinished, uiVars
  <2> QED BY <1>b, <2>1 DEF WindowTypes
<1> QED
  BY <1>2, <1>3, <1>4, <1>5, <1>6, <1>7, <1>8, <1>9, <1>10, <1>11, <1>12, <1>13 DEF Next, Poll

-----------------------------------------------------------------------------
(* The files.                                                              *)

\* Where the contents of each file begin: file n has the records from above mark n + 1
\* to mark n.
Marks(f, b) ==
  /\ b \in [0 .. MaxFiles + 1 -> Nat]
  /\ \A n \in Index : /\ b[n + 1] <= b[n]
                      /\ f[n] = Absent => b[n] = b[n + 1]
                      /\ f[n] # Absent => f[n] = [k \in 1 .. b[n] - b[n + 1] |-> b[n + 1] + k]
  /\ b[MaxFiles + 1] # 0 => f[MaxFiles] # Absent

\* What rotate_files has made of the files f when those from number m on are renamed.
RotatedFrom(f, g, m) ==
  /\ g \in [Index -> Seq(Nat)]
  /\ \A n \in Index : n < m => g[n] = f[n]
  /\ m < MaxFiles => g[m] = Absent
  /\ \A n \in Index : m < n /\ n < MaxFiles => g[n] = f[n - 1]
  /\ m < MaxFiles => g[MaxFiles] = IF f[MaxFiles - 1] = Absent THEN f[MaxFiles] ELSE f[MaxFiles - 1]
  /\ m = MaxFiles => g = f

LEMMA Numbers ==
  /\ MaxFiles \in Nat /\ MaxFiles > 0 /\ MaxFileRecords \in Nat /\ MaxFileRecords > 0
  /\ Index = 0 .. MaxFiles /\ Absent \in Seq(Nat)
  BY LogAssumption DEF Index, Absent

LEMMA RotatedIs ==
  ASSUME FileTypes, NEW m \in Index
  PROVE  RotatedFrom(files, Rotated(m), m)
<1>1. PICK f \in [Index -> Seq(Nat)] : f = files
  BY DEF FileTypes
<1>2. PICK g : g = Rotated(m)
  OBVIOUS
<1>3. g = [n \in Index |-> CASE n < m                                        -> f[n]
                             [] n = m /\ m < MaxFiles                        -> Absent
                             [] n = MaxFiles /\ (m = n \/ f[n - 1] = Absent) -> f[n]
                             [] OTHER                                        -> f[n - 1]]
  BY <1>1, <1>2 DEF Rotated
<1>4. /\ \A n \in Index : n < m => g[n] = f[n]
      /\ m < MaxFiles => g[m] = Absent
      /\ \A n \in Index : m < n /\ n < MaxFiles => g[n] = f[n - 1]
  BY <1>3, Numbers
<1>5. m < MaxFiles => g[MaxFiles] = IF f[MaxFiles - 1] = Absent THEN f[MaxFiles] ELSE f[MaxFiles - 1]
  <2>1. MaxFiles \in Index /\ ~(MaxFiles < m)
    BY Numbers
  <2> QED BY <1>3, <2>1, Numbers
<1>6. m = MaxFiles => g = f
  <2>1. ASSUME m = MaxFiles, NEW n \in Index PROVE g[n] = f[n]
    <3>1. n < m \/ n = m
      BY <2>1, Numbers
    <3> QED BY <1>3, <2>1, <3>1, Numbers
  <2> QED BY <1>3, <2>1
<1>7. \A n \in Index : g[n] \in Seq(Nat)
  <2> SUFFICES ASSUME NEW n \in Index PROVE g[n] \in Seq(Nat)
    OBVIOUS
  <2>1. n < m \/ n = m \/ (m < n /\ n < MaxFiles) \/ (m < n /\ n = MaxFiles)
    BY Numbers
  <2>2. (m < n => n - 1 \in Index) /\ MaxFiles \in Index /\ MaxFiles - 1 \in Index
    BY Numbers
  <2> QED BY <1>4, <1>5, <1>6, <2>1, <2>2, Numbers
<1>8. g \in [Index -> Seq(Nat)]
  BY <1>3, <1>7
<1> QED BY <1>1, <1>2, <1>4, <1>5, <1>6, <1>8 DEF RotatedFrom

\* The marks move with the files.
Moved(b, c, m) ==
  /\ \A n \in 0 .. m : c[n] = b[n]
  /\ \A n \in m + 1 .. MaxFiles : c[n] = b[n - 1]

LEMMA MarksRotate ==
  ASSUME NEW m \in Index, NEW f \in [Index -> Seq(Nat)], NEW g, RotatedFrom(f, g, m),
         NEW b, Marks(f, b)
  PROVE  \E c : Marks(g, c) /\ Moved(b, c, m)
<1>1. /\ b \in [0 .. MaxFiles + 1 -> Nat]
      /\ \A n \in Index : /\ b[n + 1] <= b[n]
                          /\ f[n] = Absent => b[n] = b[n + 1]
                          /\ f[n] # Absent => f[n] = [k \in 1 .. b[n] - b[n + 1] |-> b[n + 1] + k]
      /\ b[MaxFiles + 1] # 0 => f[MaxFiles] # Absent
  BY DEF Marks
<1>2. CASE m = MaxFiles
  <2>1. g = f /\ \A n \in m + 1 .. MaxFiles : FALSE
    BY <1>2, Numbers DEF RotatedFrom
  <2> QED BY <2>1 DEF Moved
<1>3. CASE m < MaxFiles
  <2> DEFINE last == IF f[MaxFiles - 1] = Absent THEN b[MaxFiles + 1] ELSE b[MaxFiles]
             c == [n \in 0 .. MaxFiles + 1 |-> IF n <= m THEN b[n]
                                               ELSE IF n <= MaxFiles THEN b[n - 1] ELSE last]
  <2>0. m \in Nat /\ MaxFiles - 1 \in Index /\ MaxFiles \in Index /\ MaxFiles \in 0 .. MaxFiles + 1
        /\ MaxFiles + 1 \in 0 .. MaxFiles + 1 /\ MaxFiles - 1 + 1 = MaxFiles
    BY Numbers
  <2>1. /\ \A n \in 0 .. m : c[n] = b[n]
        /\ \A n \in m + 1 .. MaxFiles : c[n] = b[n - 1] /\ n - 1 \in Index /\ n - 1 + 1 = n
        /\ c[MaxFiles + 1] = last
    BY <1>3, <2>0, Numbers
  <2>2. last \in Nat /\ last <= b[MaxFiles]
    BY <1>1, <2>0
  <2>3. c \in [0 .. MaxFiles + 1 -> Nat]
    <3>1. \A n \in 0 .. MaxFiles + 1 : c[n] \in Nat
      <4> SUFFICES ASSUME NEW n \in 0 .. MaxFiles + 1 PROVE c[n] \in Nat
        OBVIOUS
      <4>1. CASE n <= m
        BY <1>1, <4>1
      <4>2. CASE ~(n <= m) /\ n <= MaxFiles
        <5>1. n - 1 \in 0 .. MaxFiles + 1 /\ c[n] = b[n - 1]
          BY <2>0, <4>2, Numbers
        <5> QED BY <1>1, <5>1
      <4>3. CASE ~(n <= m) /\ ~(n <= MaxFiles)
        BY <2>2, <4>3
      <4> QED BY <4>1, <4>2, <4>3
    <3> QED BY <3>1
  <2>4. f[MaxFiles - 1] = Absent => b[MaxFiles - 1] = b[MaxFiles]
    BY <1>1, <2>0
  <2> HIDE DEF c
  <2>5. \A n \in Index : n < m \/ n = m \/ (n \in m + 1 .. MaxFiles /\ n < MaxFiles)
                         \/ (n \in m + 1 .. MaxFiles /\ n = MaxFiles)
    BY <2>0, Numbers
  <2>6. ASSUME NEW n \in Index
        PROVE  /\ c[n + 1] <= c[n]
               /\ g[n] = Absent => c[n] = c[n + 1]
               /\ g[n] # Absent => g[n] = [k \in 1 .. c[n] - c[n + 1] |-> c[n + 1] + k]
    <3>1. CASE n < m
      <4>1. c[n] = b[n] /\ c[n + 1] = b[n + 1]
        BY <2>0, <2>1, <3>1, Numbers
      <4>2. g[n] = f[n]
        BY <3>1 DEF RotatedFrom
      <4> QED BY <1>1, <4>1, <4>2
    <3>2. CASE n = m
      <4>1. c[n] = b[n] /\ c[n + 1] = b[n]
        BY <1>3, <2>0, <2>1, <3>2, Numbers
      <4>2. g[n] = Absent
        BY <1>3, <3>2 DEF RotatedFrom
      <4>3. b[n] \in Nat
        BY <1>1, Numbers, SMTT(30)
      <4> QED BY <4>1, <4>2, <4>3
    <3>3. CASE n \in m + 1 .. MaxFiles /\ n < MaxFiles
      <4>1. PICK p \in Index : p = n - 1 /\ p + 1 = n
        BY <2>1, <3>3
      <4>2. n + 1 \in m + 1 .. MaxFiles /\ n + 1 - 1 = n /\ m < n
        BY <2>0, <3>3, Numbers
      <4>3. c[n] = b[p] /\ c[n + 1] = b[p + 1]
        BY <2>1, <3>3, <4>1, <4>2
      <4>4. g[n] = f[p]
        BY <3>3, <4>1, <4>2 DEF RotatedFrom
      <4> QED BY <1>1, <4>3, <4>4
    <3>4. CASE n \in m + 1 .. MaxFiles /\ n = MaxFiles
      <4>1. PICK p \in Index : p = MaxFiles - 1 /\ p + 1 = MaxFiles
        BY <2>0
      <4>2. c[n] = b[p] /\ c[n + 1] = last
        BY <2>1, <3>4, <4>1
      <4>3. CASE f[p] = Absent
        <5>1. g[n] = f[MaxFiles] /\ last = b[MaxFiles + 1] /\ b[p] = b[MaxFiles]
          BY <1>3, <2>4, <3>4, <4>1, <4>3 DEF RotatedFrom
        <5>2. c[n] = b[MaxFiles] /\ c[n + 1] = b[MaxFiles + 1] /\ g[n] = f[MaxFiles]
          BY <4>2, <5>1
        <5> QED BY <1>1, <2>0, <5>2
      <4>4. CASE f[p] # Absent
        <5>1. g[n] = f[p] /\ last = b[p + 1]
          BY <1>3, <3>4, <4>1, <4>4 DEF RotatedFrom
        <5>2. c[n] = b[p] /\ c[n + 1] = b[p + 1] /\ g[n] = f[p]
          BY <4>2, <5>1
        <5> QED BY <1>1, <5>2
      <4> QED BY <4>3, <4>4
    <3> QED BY <2>5, <3>1, <3>2, <3>3, <3>4
  <2>7. c[MaxFiles + 1] # 0 => g[MaxFiles] # Absent
    BY <1>1, <1>3, <2>1 DEF RotatedFrom
  <2>8. Marks(g, c)
    BY <2>3, <2>6, <2>7 DEF Marks
  <2> QED BY <2>1, <2>8 DEF Moved
<1> QED BY <1>2, <1>3, Numbers

\* The file that is written to is the first there is, and ends with record w.
EndsAt(f, b, to, w) ==
  /\ f[to] # Absent /\ \A n \in 0 .. to - 1 : f[n] = Absent
  /\ \A n \in 0 .. to : b[n] = w

\* A record that is written moves the mark of its file.
OneMoreIn(f, to, w) == [n \in Index |-> IF n = to THEN Append(f[n], w + 1) ELSE f[n]]

LEMMA MarksWrite ==
  ASSUME NEW f \in [Index -> Seq(Nat)], NEW c, Marks(f, c), NEW to \in Index, NEW w \in Nat,
         EndsAt(f, c, to, w), NEW g, g = OneMoreIn(f, to, w)
  PROVE  /\ g \in [Index -> Seq(Nat)]
         /\ Len(f[to]) \in Nat /\ Len(g[to]) = Len(f[to]) + 1
         /\ \A n \in Index : n # to => g[n] = f[n]
         /\ \E d : Marks(g, d) /\ EndsAt(g, d, to, w + 1)
<1>e. f[to] # Absent /\ (\A n \in 0 .. to - 1 : f[n] = Absent) /\ \A n \in 0 .. to : c[n] = w
  BY DEF EndsAt
<1>1. /\ c \in [0 .. MaxFiles + 1 -> Nat]
      /\ \A n \in Index : /\ c[n + 1] <= c[n]
                          /\ f[n] = Absent => c[n] = c[n + 1]
                          /\ f[n] # Absent => f[n] = [k \in 1 .. c[n] - c[n + 1] |-> c[n + 1] + k]
      /\ c[MaxFiles + 1] # 0 => f[MaxFiles] # Absent
  BY DEF Marks
<1>2. PICK s \in Seq(Nat) : s = f[to]
  OBVIOUS
<1>0. to \in 0 .. to /\ to + 1 \in 0 .. MaxFiles + 1 /\ c[to] = w
  <2>1. to \in 0 .. to /\ to + 1 \in 0 .. MaxFiles + 1
    BY Numbers
  <2> QED BY <1>e, <2>1
<1>3. PICK x \in Nat : x = c[to + 1] /\ x <= w
  BY <1>0, <1>1
<1>4. s = [k \in 1 .. w - x |-> x + k]
  <2>1. f[to] = [k \in 1 .. c[to] - c[to + 1] |-> c[to + 1] + k]
    BY <1>1, <1>e
  <2> QED BY <1>0, <1>2, <1>3, <2>1
<1>5. PICK t \in Seq(Nat) : t = Append(s, w + 1)
  <2>1. w + 1 \in Nat
    OBVIOUS
  <2> QED BY <2>1, AppendProperties
<1>6. Len(s) = w - x
  <2>1. w - x \in Nat
    BY <1>3
  <2> QED BY <1>4, <2>1, LenProperties
<1>7. /\ Len(t) = Len(s) + 1 /\ t[Len(s) + 1] = w + 1 /\ \A k \in 1 .. Len(s) : t[k] = s[k]
  BY <1>5, AppendProperties
<1>8. t = [k \in 1 .. w + 1 - x |-> x + k]
  <2>1. w + 1 - x = w - x + 1 /\ w - x \in Nat /\ x + (w - x + 1) = w + 1
    BY <1>3
  <2>2. DOMAIN t = 1 .. w - x + 1
    BY <1>6, <1>7
  <2>3. \A k \in 1 .. w - x + 1 : t[k] = x + k
    <3>1. \A k \in 1 .. w - x : t[k] = x + k
      BY <1>4, <1>6, <1>7
    <3>2. t[w - x + 1] = x + (w - x + 1)
      BY <1>6, <1>7, <2>1
    <3>3. \A k \in 1 .. w - x + 1 : k \in 1 .. w - x \/ k = w - x + 1
      BY <2>1
    <3> QED BY <3>1, <3>2, <3>3
  <2>4. t = [k \in 1 .. w - x + 1 |-> x + k]
    BY <2>2, <2>3
  <2> QED BY <2>1, <2>4
<1>9. t # Absent
  <2>1. Len(t) \in 1 .. Len(t) /\ t[Len(t)] = w + 1 /\ w + 1 # 0
    BY <1>7
  <2>2. Len(Absent) = 1 /\ Absent[1] = 0
    BY DEF Absent
  <2> QED BY <2>1, <2>2
<1>10. g[to] = t /\ \A n \in Index : n # to => g[n] = f[n]
  BY <1>2, <1>5 DEF OneMoreIn
<1>11. g \in [Index -> Seq(Nat)]
  <2>1. \A n \in Index : g[n] \in Seq(Nat)
    BY <1>10
  <2> QED BY <2>1 DEF OneMoreIn
<1> DEFINE d == [n \in 0 .. MaxFiles + 1 |-> IF n <= to THEN w + 1 ELSE c[n]]
<1>12. /\ \A n \in 0 .. to : d[n] = w + 1
       /\ \A n \in to + 1 .. MaxFiles + 1 : d[n] = c[n]
       /\ d \in [0 .. MaxFiles + 1 -> Nat]
  <2>1. \A n \in 0 .. to : n \in 0 .. MaxFiles + 1 /\ n <= to
    BY Numbers
  <2>2. \A n \in to + 1 .. MaxFiles + 1 : n \in 0 .. MaxFiles + 1 /\ ~(n <= to)
    BY Numbers
  <2>3. ASSUME NEW n \in 0 .. MaxFiles + 1 PROVE d[n] \in Nat
    <3>0. c \in [0 .. MaxFiles + 1 -> Nat]
      BY <1>1
    <3>1. w + 1 \in Nat /\ c[n] \in Nat
      BY <3>0
    <3> QED BY <3>1
  <2> QED BY <2>1, <2>2, <2>3
<1> HIDE DEF d
<1>13. \A n \in Index : n \in 0 .. to - 1 \/ n = to \/ n \in to + 1 .. MaxFiles
  BY Numbers
<1>14. ASSUME NEW n \in Index
       PROVE  /\ d[n + 1] <= d[n]
              /\ g[n] = Absent => d[n] = d[n + 1]
              /\ g[n] # Absent => g[n] = [k \in 1 .. d[n] - d[n + 1] |-> d[n + 1] + k]
  <2>1. CASE n \in 0 .. to - 1
    <3>1. n \in 0 .. to /\ n + 1 \in 0 .. to /\ n # to
      BY <2>1, Numbers
    <3>2. d[n] = w + 1 /\ d[n + 1] = w + 1 /\ g[n] = Absent
      BY <1>e, <1>10, <1>12, <2>1, <3>1
    <3> QED BY <3>2
  <2>2. CASE n = to
    <3>1. to \in 0 .. to /\ to + 1 \in to + 1 .. MaxFiles + 1
      BY Numbers
    <3>2. d[n] = w + 1 /\ d[n + 1] = x
      BY <1>3, <1>12, <2>2, <3>1
    <3>3. g[n] = t /\ x <= w + 1
      BY <1>3, <1>10, <2>2
    <3>4. g[n] # Absent
      BY <1>9, <3>3
    <3>5. g[n] = [k \in 1 .. d[n] - d[n + 1] |-> d[n + 1] + k]
      BY <1>8, <3>2, <3>3
    <3>6. d[n + 1] <= d[n]
      BY <3>2, <3>3
    <3> QED BY <3>4, <3>5, <3>6
  <2>3. CASE n \in to + 1 .. MaxFiles
    <3>1. n \in to + 1 .. MaxFiles + 1 /\ n + 1 \in to + 1 .. MaxFiles + 1 /\ n # to
      BY <2>3, Numbers
    <3> QED BY <1>1, <1>10, <1>12, <3>1
  <2> QED BY <1>13, <2>1, <2>2, <2>3
<1>15. d[MaxFiles + 1] # 0 => g[MaxFiles] # Absent
  <2>1. MaxFiles + 1 \in to + 1 .. MaxFiles + 1 /\ MaxFiles \in Index
    BY Numbers
  <2> QED BY <1>1, <1>9, <1>10, <1>12, <2>1
<1>16. Marks(g, d)
  BY <1>12, <1>14, <1>15 DEF Marks
<1>17. EndsAt(g, d, to, w + 1)
  <2>1. \A n \in 0 .. to - 1 : n \in Index /\ n # to
    BY Numbers
  <2> QED BY <1>e, <1>9, <1>10, <1>12, <2>1 DEF EndsAt
<1>18. Len(f[to]) \in Nat /\ Len(g[to]) = Len(f[to]) + 1
  BY <1>2, <1>7, <1>10
<1> QED BY <1>10, <1>11, <1>16, <1>17, <1>18

\* There are no more numbers missing than renamings have failed, and a file that
\* has been renamed is full.
Holes(f) == {n \in 0 .. MaxFiles - 1 : f[n] = Absent}
Renamed(f) == \A n \in 1 .. MaxFiles : f[n] # Absent => Len(f[n]) >= MaxFileRecords
Failed == Bound["failures"] - left.bound["failures"]

FileInv ==
  /\ sink \in Index /\ Renamed(files)
  /\ Cardinality(Holes(files)) <= Failed
  /\ \E b : Marks(files, b) /\ EndsAt(files, b, sink, written)

LEMMA HolesFinite ==
  ASSUME NEW f
  PROVE  IsFiniteSet(Holes(f)) /\ Cardinality(Holes(f)) \in Nat
<1>1. IsFiniteSet(0 .. MaxFiles - 1)
  BY Numbers, FS_Interval
<1>2. Holes(f) \in SUBSET (0 .. MaxFiles - 1)
  BY DEF Holes
<1>3. IsFiniteSet(Holes(f))
  BY <1>1, <1>2, FS_Subset
<1> QED BY <1>3, FS_CardinalityType

\* Renaming from number m on leaves at most that number as a new hole.
LEMMA HolesRotate ==
  ASSUME NEW m \in Index, NEW f, NEW g, RotatedFrom(f, g, m)
  PROVE  /\ Cardinality(Holes(g) \ {m}) <= Cardinality(Holes(f))
         /\ Cardinality(Holes(g)) <= Cardinality(Holes(f)) + 1
<1> DEFINE S == Holes(g) \ {m}
           p == [n \in S |-> IF n < m THEN n ELSE n - 1]
<1>1. m \in Nat
  BY Numbers
<1>2. ASSUME NEW n \in S
      PROVE  /\ n \in Nat /\ n # m /\ p[n] = IF n < m THEN n ELSE n - 1
             /\ p[n] \in Holes(f)
  <2>1. n \in 0 .. MaxFiles - 1 /\ n \in Index /\ n \in Nat /\ n < MaxFiles /\ g[n] = Absent /\ n # m
    BY Numbers DEF Holes
  <2>2. CASE n < m
    <3>1. f[n] = Absent
      BY <2>1, <2>2 DEF RotatedFrom
    <3> QED BY <2>1, <2>2, <3>1 DEF Holes
  <2>3. CASE ~(n < m)
    <3>1. m < n /\ n - 1 \in 0 .. MaxFiles - 1
      BY <1>1, <2>1, <2>3, Numbers
    <3>2. f[n - 1] = Absent
      BY <2>1, <3>1 DEF RotatedFrom
    <3> QED BY <2>1, <2>3, <3>1, <3>2 DEF Holes
  <2> QED BY <2>2, <2>3
<1>3. ASSUME NEW n \in S, NEW k \in S, p[n] = p[k] PROVE n = k
  BY <1>1, <1>2, <1>3
<1>4. p \in Injection(S, Holes(f))
  <2>1. p \in [S -> Holes(f)]
    <3>1. \A n \in S : p[n] \in Holes(f)
      BY <1>2
    <3> QED BY <3>1
  <2> HIDE DEF p, S
  <2> QED BY <1>3, <2>1 DEF Injection, IsInjective
<1>5. Cardinality(S) <= Cardinality(Holes(f))
  <2> HIDE DEF p, S
  <2> QED BY <1>4, HolesFinite, FS_Injection
<1>6. Cardinality(Holes(g)) <= Cardinality(S) + 1
  <2>1. IsFiniteSet(Holes(g)) /\ Cardinality(Holes(g)) \in Nat
    BY HolesFinite
  <2>2. Cardinality(S) = IF m \in Holes(g) THEN Cardinality(Holes(g)) - 1 ELSE Cardinality(Holes(g))
    BY <2>1, FS_RemoveElement
  <2> HIDE DEF S
  <2> QED BY <2>1, <2>2
<1>7. Cardinality(Holes(f)) \in Nat /\ Cardinality(S) \in Nat
  <2>1. IsFiniteSet(Holes(g))
    BY HolesFinite
  <2>2. IsFiniteSet(S)
    BY <2>1, FS_RemoveElement
  <2> QED BY <2>2, HolesFinite, FS_CardinalityType
<1>8. Cardinality(Holes(g)) \in Nat
  BY HolesFinite
<1> HIDE DEF S
<1>9. Cardinality(Holes(g)) <= Cardinality(Holes(f)) + 1
  BY <1>5, <1>6, <1>7, <1>8
<1> QED BY <1>5, <1>9 DEF S

\* What failures there have been.
LEMMA FailedIs ==
  ASSUME LeftInv
  PROVE  /\ Failed \in Int
         /\ Spends("failures") => Failed' = Failed + 1
         /\ Frame => Failed' \in Int /\ Failed <= Failed'
<1>1. "failures" \in Kind /\ Bound["failures"] \in Nat /\ left.bound \in [Kind -> Nat]
  BY BoundAssumption DEF Kind, LeftInv
<1>2. left.bound["failures"] \in Nat
  BY <1>1
<1>3. ASSUME NEW kind \in Kind, Spends(kind)
      PROVE  left'.bound["failures"] = IF kind = "failures" THEN left.bound["failures"] - 1
                                       ELSE left.bound["failures"]
  <2>1. left' = [bound |-> [left.bound EXCEPT ![kind] = @ - 1], events |-> left.events - 1]
    BY <1>3 DEF Spends
  <2>2. left'.bound = [left.bound EXCEPT ![kind] = @ - 1]
    BY <2>1
  <2> QED BY <1>1, <2>2
<1>4. Spends("failures") => left'.bound["failures"] = left.bound["failures"] - 1
  BY <1>1, <1>3
<1>5. Frame => \/ left'.bound["failures"] = left.bound["failures"]
               \/ left'.bound["failures"] = left.bound["failures"] - 1
  BY <1>3 DEF Frame
<1> QED BY <1>1, <1>2, <1>4, <1>5 DEF Failed

\* What is the same for every way in which a record is written.
LEMMA WritingKeepsFileInv ==
  ASSUME FileTypes, NEW to \in Index, NEW f \in [Index -> Seq(Nat)], Renamed(f),
         NEW c, Marks(f, c), EndsAt(f, c, to, written), Writing(f, to), written' = written + 1,
         Cardinality(Holes(f)) <= Failed'
  PROVE  FileTypes' /\ FileInv'
<1>1. PICK w \in Nat : w = written
  BY DEF FileTypes
<1>2. PICK g : g = files'
  OBVIOUS
<1>3. g = OneMoreIn(f, to, w) /\ sink' = to /\ written' = w + 1
  BY <1>1, <1>2 DEF Writing, OneMoreIn
<1>4. EndsAt(f, c, to, w)
  BY <1>1
<1>5. /\ g \in [Index -> Seq(Nat)]
      /\ Len(f[to]) \in Nat /\ Len(g[to]) = Len(f[to]) + 1
      /\ \A n \in Index : n # to => g[n] = f[n]
      /\ \E d : Marks(g, d) /\ EndsAt(g, d, to, w + 1)
  BY <1>3, <1>4, MarksWrite
<1>6. f[to] # Absent /\ g[to] # Absent
  BY <1>4, <1>5 DEF EndsAt
<1>7. Renamed(g)
  <2> SUFFICES ASSUME NEW n \in 1 .. MaxFiles, g[n] # Absent PROVE Len(g[n]) >= MaxFileRecords
    BY DEF Renamed
  <2>1. n \in Index
    BY Numbers
  <2>2. f[n] # Absent
    BY <1>5, <1>6, <2>1
  <2>3. Len(f[n]) >= MaxFileRecords
    BY <2>2 DEF Renamed
  <2>4. CASE n = to
    BY <1>5, <2>3, <2>4, Numbers
  <2>5. CASE n # to
    BY <1>5, <2>1, <2>3, <2>5
  <2> QED BY <2>4, <2>5
<1>8. Holes(g) = Holes(f)
  <2>1. \A n \in 0 .. MaxFiles - 1 : n \in Index
    BY Numbers
  <2>2. \A n \in 0 .. MaxFiles - 1 : g[n] = Absent <=> f[n] = Absent
    BY <1>5, <1>6, <2>1
  <2> QED BY <2>2 DEF Holes
<1>9. FileTypes'
  <2>1. to \in 0 .. Gone /\ w + 1 \in Nat
    BY Numbers DEF Gone
  <2> QED BY <1>2, <1>3, <1>5, <1>6, <2>1 DEF FileTypes
<1>10. FileInv'
  BY <1>2, <1>3, <1>5, <1>7, <1>8 DEF FileInv
<1> QED BY <1>9, <1>10

LEMMA WriteKeepsFileInv ==
  ASSUME FileTypes, FileInv, LeftInv, NEW e \in emitting, Write(e)
  PROVE  FileTypes' /\ FileInv'
<1>1. PICK f \in [Index -> Seq(Nat)] : f = files
  BY DEF FileTypes
<1>2. PICK s \in Index : s = sink
  BY DEF FileInv
<1>3. PICK w \in Nat : w = written
  BY DEF FileTypes
<1>4. PICK b : Marks(f, b) /\ EndsAt(f, b, s, w)
  BY <1>1, <1>2, <1>3 DEF FileInv
<1>5. /\ Renamed(f) /\ Cardinality(Holes(f)) <= Failed /\ Cardinality(Holes(f)) \in Nat
      /\ written' = written + 1
  BY <1>1, HolesFinite DEF FileInv, Write
<1>6. /\ f[s] # Absent /\ \A n \in 0 .. s - 1 : f[n] = Absent
      /\ \A n \in 0 .. s : b[n] = w
      /\ s \in Nat /\ s <= MaxFiles
  BY <1>4, Numbers DEF EndsAt
<1>7. CASE ~Full /\ Writing(files, sink) /\ UNCHANGED left
  <2>1. Failed' = Failed
    BY <1>7 DEF Failed
  <2> QED BY <1>1, <1>2, <1>3, <1>4, <1>5, <1>7, <2>1, WritingKeepsFileInv
\* From here on the file is full.
<1>8. ASSUME Full PROVE Len(f[s]) >= MaxFileRecords
  BY <1>1, <1>2, <1>8, Numbers DEF Full, Gone
\* What is renamed is full, then.
<1>9. ASSUME Full, NEW m \in Index, NEW g, RotatedFrom(f, g, m) PROVE Renamed(g)
  <2> SUFFICES ASSUME NEW n \in 1 .. MaxFiles, g[n] # Absent PROVE Len(g[n]) >= MaxFileRecords
    BY DEF Renamed
  <2>1. n \in Index /\ n - 1 \in Index /\ n \in Nat /\ m \in Nat
    BY Numbers
  <2>2. ASSUME f[n - 1] # Absent PROVE Len(f[n - 1]) >= MaxFileRecords
    <3>1. CASE n - 1 \in 1 .. MaxFiles
      BY <1>5, <2>2, <3>1 DEF Renamed
    <3>2. CASE n - 1 = 0
      <4>1. s = 0
        BY <1>6, <2>2, <3>2
      <4> QED BY <1>8, <1>9, <3>2, <4>1
    <3> QED BY <2>1, <3>1, <3>2, Numbers
  <2>3. f[n] # Absent => Len(f[n]) >= MaxFileRecords
    BY <1>5 DEF Renamed
  <2>4. CASE n < m
    BY <1>9, <2>1, <2>3, <2>4 DEF RotatedFrom
  <2>5. CASE n = m
    BY <1>9, <2>1, <2>3, <2>5, Numbers DEF RotatedFrom
  <2>6. CASE m < n /\ n < MaxFiles
    BY <1>9, <2>1, <2>2, <2>6 DEF RotatedFrom
  <2>7. CASE m < n /\ n = MaxFiles
    BY <1>9, <2>1, <2>2, <2>3, <2>7 DEF RotatedFrom
  <2> QED BY <2>1, <2>4, <2>5, <2>6, <2>7, Numbers
<1>10. CASE Full /\ Writing(Fresh, 0) /\ UNCHANGED left
  <2>1. 0 \in Index
    BY Numbers
  <2>2. PICK r : r = Rotated(0) /\ RotatedFrom(f, r, 0)
    BY <1>1, <2>1, RotatedIs
  <2>3. PICK g : g = [r EXCEPT ![0] = <<>>]
    OBVIOUS
  <2>4. /\ r \in [Index -> Seq(Nat)] /\ r[0] = Absent
    BY <2>2, Numbers DEF RotatedFrom
  <2>5. /\ g \in [Index -> Seq(Nat)] /\ g[0] = <<>> /\ \A n \in Index : n # 0 => g[n] = r[n]
    BY <2>1, <2>3, <2>4
  <2>6. <<>> # Absent
    BY DEF Absent
  <2>7. PICK c : Marks(r, c) /\ c[0] = b[0]
    BY <1>4, <2>1, <2>2, MarksRotate DEF Moved
  <2>8. Marks(g, c)
    <3>1. /\ c \in [0 .. MaxFiles + 1 -> Nat]
          /\ \A n \in Index : /\ c[n + 1] <= c[n]
                              /\ r[n] = Absent => c[n] = c[n + 1]
                              /\ r[n] # Absent => r[n] = [k \in 1 .. c[n] - c[n + 1] |-> c[n + 1] + k]
          /\ c[MaxFiles + 1] # 0 => r[MaxFiles] # Absent
      BY <2>7 DEF Marks
    <3>2. <<>> = [k \in 1 .. c[0] - c[0 + 1] |-> c[0 + 1] + k]
      <4>1. c[0] = c[0 + 1] /\ c[0] \in Nat
        BY <2>1, <2>4, <3>1, Numbers
      <4>2. 1 .. c[0] - c[0 + 1] = {}
        BY <4>1
      <4> QED BY <4>2
    <3>3. MaxFiles \in Index /\ MaxFiles # 0
      BY Numbers
    <3>4. ASSUME NEW n \in Index
          PROVE  /\ c[n + 1] <= c[n]
                 /\ g[n] = Absent => c[n] = c[n + 1]
                 /\ g[n] # Absent => g[n] = [k \in 1 .. c[n] - c[n + 1] |-> c[n + 1] + k]
      BY <2>5, <2>6, <3>1, <3>2
    <3>5. c[MaxFiles + 1] # 0 => g[MaxFiles] # Absent
      BY <2>5, <3>1, <3>3
    <3> QED BY <3>1, <3>4, <3>5 DEF Marks
  <2>9. EndsAt(g, c, 0, w)
    <3>1. c[0] = w
      BY <1>6, <2>7
    <3> QED BY <2>5, <2>6, <3>1 DEF EndsAt
  <2>10. Renamed(g)
    <3>1. Renamed(r) /\ \A n \in 1 .. MaxFiles : n \in Index /\ n # 0
      BY <1>9, <1>10, <2>1, <2>2, Numbers
    <3> QED BY <2>5, <3>1 DEF Renamed
  <2>11. Cardinality(Holes(g)) <= Failed'
    <3>1. Holes(g) = Holes(r) \ {0}
      <4>1. \A n \in 0 .. MaxFiles - 1 : n \in Index
        BY Numbers
      <4> QED BY <2>5, <2>6, <4>1 DEF Holes
    <3>2. Failed' = Failed /\ Failed \in Int
      BY <1>10, FailedIs DEF Failed
    <3>3. Cardinality(Holes(g)) <= Cardinality(Holes(f)) /\ Cardinality(Holes(g)) \in Nat
      BY <2>1, <2>2, <3>1, HolesRotate, HolesFinite
    <3> QED BY <1>5, <3>2, <3>3
  <2>12. Writing(g, 0)
    BY <1>10, <2>2, <2>3 DEF Fresh
  <2> QED BY <1>3, <1>5, <2>1, <2>5, <2>8, <2>9, <2>10, <2>11, <2>12, WritingKeepsFileInv
<1>11. ASSUME Full, Spends("failures"), NEW m \in Index, m > 0 => files[m - 1] # Absent,
              Writing(Rotated(m), Follows(m))
       PROVE  FileTypes' /\ FileInv'
  <2>1. PICK g : g = Rotated(m) /\ RotatedFrom(f, g, m)
    BY <1>1, RotatedIs
  <2>2. PICK to : to = Follows(m)
    OBVIOUS
  <2>f. to = IF s >= m /\ s < MaxFiles THEN s + 1
             ELSE IF s >= m /\ m < MaxFiles /\ f[MaxFiles - 1] # Absent THEN Gone ELSE s
    BY <1>1, <1>2, <2>2 DEF Follows
  <2>3. m \in Nat /\ m <= MaxFiles
    BY Numbers
  <2>c. PICK c : Marks(g, c) /\ Moved(b, c, m)
    BY <1>4, <2>1, MarksRotate
  <2>4. /\ Marks(g, c)
        /\ \A n \in 0 .. m : c[n] = b[n]
        /\ \A n \in m + 1 .. MaxFiles : c[n] = b[n - 1]
    BY <2>c DEF Moved
  <2>5. g \in [Index -> Seq(Nat)]
    BY <2>1 DEF RotatedFrom
  <2>6. to \in Index /\ EndsAt(g, c, to, w)
    <3>1. CASE m > 0
      <4>1. s < m
        <5>1. f[m - 1] # Absent
          BY <1>1, <1>11, <3>1
        <5>2. ~(m - 1 \in 0 .. s - 1)
          BY <1>6, <5>1
        <5> QED BY <1>6, <2>3, <3>1, <5>2
      <4>2. to = s
        BY <1>6, <2>f, <2>3, <4>1
      <4>3. \A n \in 0 .. s : g[n] = f[n] /\ c[n] = b[n]
        <5>1. \A n \in 0 .. s : n \in Index /\ n < m /\ n \in 0 .. m
          BY <1>6, <2>3, <4>1, Numbers
        <5> QED BY <2>1, <2>4, <5>1 DEF RotatedFrom
      <4>4. s \in 0 .. s /\ \A n \in 0 .. s - 1 : n \in 0 .. s
        BY <1>6
      <4> QED BY <1>6, <4>2, <4>3, <4>4 DEF EndsAt
    <3>2. CASE m = 0 /\ s < MaxFiles
      <4>1. to = s + 1 /\ to \in Index /\ to \in Nat /\ to > 0 /\ to <= MaxFiles /\ to - 1 = s
        BY <1>6, <2>f, <3>2, Numbers
      <4>2. g[to] = f[s]
        <5>1. CASE to < MaxFiles
          BY <2>1, <3>2, <4>1, <5>1 DEF RotatedFrom
        <5>2. CASE to = MaxFiles
          BY <1>6, <2>1, <3>2, <4>1, <5>2 DEF RotatedFrom
        <5> QED BY <4>1, <5>1, <5>2, Numbers
      <4>3. ASSUME NEW n \in 0 .. to - 1 PROVE g[n] = Absent
        <5>1. CASE n = 0
          BY <2>1, <3>2, <5>1, Numbers DEF RotatedFrom
        <5>2. CASE n # 0
          <6>1. n - 1 \in 0 .. s - 1 /\ n \in Index /\ 0 < n /\ n < MaxFiles
            BY <1>6, <4>1, <5>2, Numbers
          <6>2. g[n] = f[n - 1]
            BY <2>1, <3>2, <6>1 DEF RotatedFrom
          <6> QED BY <1>6, <6>1, <6>2
        <5> QED BY <5>1, <5>2
      <4>4. ASSUME NEW n \in 0 .. to PROVE c[n] = w
        <5>1. CASE n = 0
          BY <1>6, <2>4, <3>2, <5>1
        <5>2. CASE n # 0
          <6>1. n - 1 \in 0 .. s /\ n \in 1 .. MaxFiles
            BY <1>6, <4>1, <5>2, Numbers
          <6> QED BY <1>6, <2>4, <3>2, <6>1
        <5> QED BY <5>1, <5>2
      <4> QED BY <1>6, <4>1, <4>2, <4>3, <4>4 DEF EndsAt
    <3>3. CASE m = 0 /\ s = MaxFiles
      <4>1. MaxFiles - 1 \in 0 .. s - 1 /\ MaxFiles \in Index /\ MaxFiles > 0
        BY <3>3, Numbers
      <4>2. f[MaxFiles - 1] = Absent
        BY <1>6, <4>1
      <4>3. to = s
        BY <2>f, <3>3, <4>1, <4>2
      <4>4. g[to] = f[s]
        BY <2>1, <3>3, <4>1, <4>2, <4>3 DEF RotatedFrom
      <4>5. ASSUME NEW n \in 0 .. to - 1 PROVE g[n] = Absent
        <5>1. CASE n = 0
          BY <2>1, <3>3, <4>1, <5>1 DEF RotatedFrom
        <5>2. CASE n # 0
          <6>1. n - 1 \in 0 .. s - 1 /\ n \in Index /\ 0 < n /\ n < MaxFiles
            BY <1>6, <3>3, <4>3, <5>2, Numbers
          <6>2. g[n] = f[n - 1]
            BY <2>1, <3>3, <6>1 DEF RotatedFrom
          <6> QED BY <1>6, <6>1, <6>2
        <5> QED BY <5>1, <5>2
      <4>6. ASSUME NEW n \in 0 .. to PROVE c[n] = w
        <5>1. CASE n = 0
          BY <1>6, <2>4, <3>3, <5>1
        <5>2. CASE n # 0
          <6>1. n - 1 \in 0 .. s /\ n \in 1 .. MaxFiles
            BY <1>6, <3>3, <4>3, <5>2, Numbers
          <6>2. n \in m + 1 .. MaxFiles
            BY <3>3, <6>1
          <6>3. c[n] = b[n - 1]
            BY <2>4, <6>2
          <6> QED BY <1>6, <6>1, <6>3
        <5> QED BY <5>1, <5>2
      <4>7. EndsAt(g, c, to, w)
        BY <1>6, <4>4, <4>5, <4>6 DEF EndsAt
      <4> QED BY <4>3, <4>7
    <3>4. m > 0 \/ (m = 0 /\ s < MaxFiles) \/ (m = 0 /\ s = MaxFiles)
      BY <1>6, <2>3, Numbers
    <3> QED BY <3>1, <3>2, <3>3, <3>4
  <2>7. Renamed(g)
    BY <1>9, <1>11, <2>1
  <2>8. Cardinality(Holes(g)) <= Failed'
    <3>1. Failed' = Failed + 1 /\ Failed \in Int
      BY <1>11, FailedIs
    <3>2. Cardinality(Holes(g)) <= Cardinality(Holes(f)) + 1 /\ Cardinality(Holes(g)) \in Nat
      BY <2>1, HolesRotate, HolesFinite
    <3> QED BY <1>5, <3>1, <3>2
  <2>9. Writing(g, to)
    BY <1>11, <2>1, <2>2
  <2> QED BY <1>3, <1>5, <2>4, <2>5, <2>6, <2>7, <2>8, <2>9, WritingKeepsFileInv
<1> QED BY <1>7, <1>10, <1>11 DEF Write

\* The bounds are spent, or not.
LEMMA NextIsFrame == ASSUME [Next]_vars PROVE Frame
<1>0. {"records", "clears", "stops", "changes", "presses", "launches", "failures"} \subseteq Kind
  BY DEF Kind
<1>1. CASE UNCHANGED vars \/ Poll \/ Tick \/ CloseRequested \/ DaemonReady \/ DaemonBegins
  BY <1>1 DEF vars, Poll, Snapshot, Logs, ServiceUpdated, Tick, CloseRequested, DaemonReady,
     DaemonBegins, Frame
<1>2. CASE ClearLogView \/ DaemonEnds
  BY <1>0, <1>2 DEF ClearLogView, DaemonEnds, Frame
<1>3. CASE Log
  <2>1. Draw \/ \E e \in emitting : Push(e) \/ Write(e)
    BY <1>3 DEF Log, LogNext
  <2> QED BY <1>0, <2>1 DEF Draw, Push, Write, Frame
<1>4. CASE SettingsChanged
  BY <1>0, <1>4 DEF SettingsChanged, Chooses, Frame
<1>5. CASE Update
  BY <1>0, <1>5 DEF Update, Press, Frame
<1>6. ASSUME NEW p \in Process, \/ Launch(p) \/ Boots(p) \/ Signals(p) \/ GivesUp(p)
                                \/ Exit(p) \/ Release(p) \/ Dies(p)
      PROVE  Frame
  BY <1>0, <1>6 DEF Launch, Boots, Signals, GivesUp, Exit, Release, Dies, Frame
<1>7. ASSUME NEW r \in saving, Saves(r) \/ ControlFinished(r) PROVE Frame
  BY <1>0, <1>7 DEF Saves, ControlFinished, Fails, Frame
<1> QED BY <1>1, <1>2, <1>3, <1>4, <1>5, <1>6, <1>7 DEF Next

LEMMA InitFileInv == Init => FileTypes /\ FileInv
<1> SUFFICES ASSUME Init PROVE FileTypes /\ FileInv
  OBVIOUS
<1>1. PICK N \in Nat : N = MaxFiles /\ N > 0 /\ Index = 0 .. N
  BY Numbers
<1>2. PICK R \in Nat : R = MaxFileRecords /\ R > 0
  BY Numbers
<1>3. PICK f : f = files
  OBVIOUS
<1>4. f = [n \in Index |-> IF n = N THEN Absent ELSE [k \in 1 .. R |-> (N - n - 1) * R + k]]
  BY <1>1, <1>2, <1>3 DEF Init, LogInit
<1>5. written = N * R /\ sink = 0 /\ left = Unspent
  BY <1>1, <1>2 DEF Init, LogInit
<1> DEFINE b == [n \in 0 .. N + 1 |-> IF n <= N THEN (N - n) * R ELSE 0]
<1>6. ASSUME NEW n \in Index, n # N
      PROVE  /\ f[n] = [k \in 1 .. R |-> b[n + 1] + k] /\ b[n] = b[n + 1] + R
             /\ f[n] \in Seq(Nat) /\ Len(f[n]) = R /\ f[n] # Absent /\ b[n + 1] \in Nat
  <2>1. PICK j \in Nat : j = N - n - 1
    BY <1>1, <1>6
  <2>2. n \in 0 .. N + 1 /\ n + 1 \in 0 .. N + 1 /\ n <= N /\ n + 1 <= N /\ N - n = j + 1 /\ N - (n + 1) = j
    BY <1>1, <1>6, <2>1
  <2>3. b[n] = (j + 1) * R /\ b[n + 1] = j * R
    BY <2>2
  <2>4. PICK x \in Nat : x = j * R
    OBVIOUS
  <2>5. (j + 1) * R = x + R
    BY <2>4
  <2>6. f[n] = [k \in 1 .. R |-> x + k]
    BY <1>4, <1>6, <2>1, <2>4
  <2> HIDE DEF b
  <2>7. PICK s \in Seq(Nat) : s = [k \in 1 .. R |-> x + k]
    <3>1. \A k \in 1 .. R : x + k \in Nat
      OBVIOUS
    <3>2. [k \in 1 .. R |-> x + k] \in [1 .. R -> Nat]
      BY <3>1
    <3>3. [1 .. R -> Nat] \subseteq Seq(Nat)
      BY SeqDef
    <3> QED BY <3>2, <3>3
  <2>8. Len(s) = R
    BY <2>7, LenProperties
  <2>9. s # Absent
    <3>1. 1 \in 1 .. R /\ s[1] = x + 1 /\ x + 1 # 0
      BY <1>2, <2>7
    <3>2. Absent[1] = 0
      BY DEF Absent
    <3> QED BY <3>1, <3>2
  <2> QED BY <2>3, <2>4, <2>5, <2>6, <2>7, <2>8, <2>9
<1>7. N \in Index /\ f[N] = Absent /\ b[N] = 0 /\ b[N + 1] = 0 /\ b[0] = N * R
  <2>1. N \in 0 .. N + 1 /\ N + 1 \in 0 .. N + 1 /\ 0 \in 0 .. N + 1 /\ N - N = 0 /\ N - 0 = N
        /\ ~(N + 1 <= N) /\ 0 <= N
    OBVIOUS
  <2>2. 0 * R = 0
    OBVIOUS
  <2> QED BY <1>1, <1>4, <2>1, <2>2
<1>8. b \in [0 .. N + 1 -> Nat]
  <2> SUFFICES ASSUME NEW n \in 0 .. N + 1 PROVE b[n] \in Nat
    OBVIOUS
  <2>1. CASE n <= N
    <3>1. PICK j \in Nat : j = N - n
      BY <2>1
    <3> QED BY <2>1, <3>1
  <2> QED BY <2>1
<1> HIDE DEF b
<1>9. Marks(f, b)
  <2>1. ASSUME NEW n \in Index
        PROVE  /\ b[n + 1] <= b[n]
               /\ f[n] = Absent => b[n] = b[n + 1]
               /\ f[n] # Absent => f[n] = [k \in 1 .. b[n] - b[n + 1] |-> b[n + 1] + k]
    <3>1. CASE n = N
      BY <1>7, <3>1
    <3>2. CASE n # N
      <4>1. PICK x \in Nat : x = b[n + 1] /\ b[n] = x + R /\ f[n] = [k \in 1 .. R |-> x + k]
        BY <1>6, <3>2
      <4>2. (x + R) - x = R /\ x <= x + R
        OBVIOUS
      <4> QED BY <1>6, <3>2, <4>1, <4>2
    <3> QED BY <3>1, <3>2
  <2> QED BY <1>1, <1>7, <1>8, <2>1 DEF Marks
<1>10. 0 \in Index /\ 0 # N /\ f[0] # Absent
  <2>1. 0 \in Index /\ 0 # N
    BY <1>1
  <2> QED BY <1>6, <2>1
<1>11. EndsAt(f, b, 0, written)
  BY <1>5, <1>7, <1>10 DEF EndsAt
<1>12. Renamed(f)
  <2>1. \A n \in 1 .. N : n \in Index
    BY <1>1
  <2>2. \A n \in 1 .. N : f[n] # Absent => Len(f[n]) = R
    BY <1>6, <1>7, <2>1
  <2> QED BY <1>1, <1>2, <2>2 DEF Renamed
<1>13. Cardinality(Holes(f)) <= Failed
  <2>1. Holes(f) = {}
    <3>1. \A n \in 0 .. N - 1 : n \in Index /\ n # N
      BY <1>1
    <3> QED BY <1>1, <1>6, <3>1 DEF Holes
  <2>2. Failed = 0
    BY <1>5, BoundAssumption DEF Failed, Unspent, Kind
  <2> QED BY <2>1, <2>2, FS_EmptySet
<1>14. f \in [Index -> Seq(Nat)]
  <2>1. \A n \in Index : f[n] \in Seq(Nat)
    BY <1>6, <1>7, Numbers
  <2> QED BY <1>4, <2>1
<1>15. FileTypes
  <2>1. 0 \in 0 .. Gone /\ written \in Nat
    BY <1>1, <1>5 DEF Gone
  <2> QED BY <1>3, <1>5, <1>10, <1>14, <2>1 DEF FileTypes
<1>16. FileInv
  BY <1>3, <1>5, <1>9, <1>10, <1>11, <1>12, <1>13 DEF FileInv
<1> QED BY <1>15, <1>16

\* A daemon begins: the file it writes to is made if there is none.
LEMMA BeginsKeepsFileInv ==
  ASSUME FileTypes, FileInv, Failed \in Int, Failed' = Failed, LogBegins
  PROVE  FileTypes' /\ FileInv'
<1>1. PICK f \in [Index -> Seq(Nat)] : f = files
  BY DEF FileTypes
<1>2. PICK s \in Index : s = sink
  BY DEF FileInv
<1>3. PICK w \in Nat : w = written
  BY DEF FileTypes
<1>4. PICK b : Marks(f, b) /\ EndsAt(f, b, s, w)
  BY <1>1, <1>2, <1>3 DEF FileInv
<1>5. /\ f[s] # Absent /\ \A n \in 0 .. s - 1 : f[n] = Absent
      /\ \A n \in 0 .. s : b[n] = w
      /\ s \in Nat /\ s <= MaxFiles
  BY <1>4, Numbers DEF EndsAt
<1>6. PICK g : g = files'
  OBVIOUS
<1>7. /\ g = (IF f[0] = Absent THEN [f EXCEPT ![0] = <<>>] ELSE f)
      /\ sink' = 0 /\ written' = w
  BY <1>1, <1>3, <1>6 DEF LogBegins
<1>8. 0 \in Index /\ <<>> # Absent /\ MaxFiles \in Index /\ MaxFiles # 0 /\ 0 \in 0 .. Gone
  BY Numbers DEF Absent, Gone
<1>9. /\ g \in [Index -> Seq(Nat)] /\ g[0] # Absent
      /\ \A n \in Index : n # 0 => g[n] = f[n]
      /\ f[0] = Absent => g[0] = <<>>
      /\ f[0] # Absent => g[0] = f[0]
  BY <1>7, <1>8
<1>10. b[0] = w
  BY <1>5
<1>11. Marks(g, b)
  <2>1. /\ b \in [0 .. MaxFiles + 1 -> Nat]
        /\ \A n \in Index : /\ b[n + 1] <= b[n]
                            /\ f[n] = Absent => b[n] = b[n + 1]
                            /\ f[n] # Absent => f[n] = [k \in 1 .. b[n] - b[n + 1] |-> b[n + 1] + k]
        /\ b[MaxFiles + 1] # 0 => f[MaxFiles] # Absent
    BY <1>4 DEF Marks
  <2>2. ASSUME f[0] = Absent PROVE <<>> = [k \in 1 .. b[0] - b[0 + 1] |-> b[0 + 1] + k]
    <3>1. PICK x \in Nat : x = b[0] /\ x = b[0 + 1]
      BY <1>8, <1>10, <2>1, <2>2
    <3>2. <<>> = [k \in 1 .. x - x |-> x + k]
      <4>1. 1 .. x - x = {}
        OBVIOUS
      <4> QED BY <4>1
    <3> QED BY <3>1, <3>2
  <2>3. ASSUME NEW n \in Index
        PROVE  /\ b[n + 1] <= b[n]
               /\ g[n] = Absent => b[n] = b[n + 1]
               /\ g[n] # Absent => g[n] = [k \in 1 .. b[n] - b[n + 1] |-> b[n + 1] + k]
    <3>1. CASE n = 0 /\ f[0] = Absent
      BY <1>8, <1>9, <2>1, <2>2, <3>1
    <3>2. CASE n # 0 \/ f[0] # Absent
      <4>1. g[n] = f[n]
        BY <1>9, <3>2
      <4> QED BY <2>1, <4>1
    <3> QED BY <3>1, <3>2
  <2>4. b[MaxFiles + 1] # 0 => g[MaxFiles] # Absent
    BY <1>8, <1>9, <2>1
  <2> QED BY <2>1, <2>3, <2>4 DEF Marks
<1>12. EndsAt(g, b, 0, w)
  BY <1>9, <1>10 DEF EndsAt
<1>13. Renamed(g)
  <2>1. \A n \in 1 .. MaxFiles : n \in Index /\ n # 0
    BY Numbers
  <2>2. Renamed(f)
    BY <1>1 DEF FileInv
  <2> QED BY <1>9, <2>1, <2>2 DEF Renamed
<1>14. Cardinality(Holes(g)) <= Failed'
  <2>1. \A n \in 0 .. MaxFiles - 1 : n \in Index
    BY Numbers
  <2>2. Holes(g) = Holes(f) \ {0}
    BY <1>9, <2>1 DEF Holes
  <2>3. IsFiniteSet(Holes(f)) /\ Cardinality(Holes(f)) \in Nat /\ Cardinality(Holes(g)) \in Nat
    BY HolesFinite
  <2>4. Cardinality(Holes(g)) <= Cardinality(Holes(f))
    BY <2>2, <2>3, FS_Subset
  <2>5. Cardinality(Holes(f)) <= Failed
    BY <1>1 DEF FileInv
  <2> QED BY <2>3, <2>4, <2>5
<1>15. FileTypes'
  BY <1>3, <1>6, <1>7, <1>8, <1>9 DEF FileTypes
<1>16. FileInv'
  BY <1>3, <1>6, <1>7, <1>8, <1>11, <1>12, <1>13, <1>14 DEF FileInv
<1> QED BY <1>15, <1>16

LEMMA NextKeepsFileInv ==
  ASSUME FileTypes, FileInv, LeftInv, [Next]_vars
  PROVE  FileTypes' /\ FileInv'
<1>0. Frame /\ Failed \in Int /\ Failed' \in Int /\ Failed <= Failed'
  BY NextIsFrame, FailedIs
<1>s. ASSUME UNCHANGED <<files, sink, written>> PROVE FileTypes' /\ FileInv'
  <2>1. FileTypes'
    BY <1>s DEF FileTypes
  <2>2. Cardinality(Holes(files)) \in Nat /\ Cardinality(Holes(files)) <= Failed
    BY HolesFinite DEF FileInv
  <2>3. Cardinality(Holes(files)) <= Failed'
    BY <1>0, <2>2
  <2>4. FileInv'
    BY <1>s, <2>3 DEF FileInv
  <2> QED BY <2>1, <2>4
<1>1. CASE Log
  <2>1. Draw \/ \E e \in emitting : Push(e) \/ Write(e)
    BY <1>1 DEF Log, LogNext
  <2> QED BY <1>s, <2>1, WriteKeepsFileInv DEF Draw, Push
<1>2. CASE DaemonBegins
  <2>1. LogBegins /\ Failed' = Failed
    BY <1>2 DEF DaemonBegins, Failed
  <2> QED BY <1>0, <2>1, BeginsKeepsFileInv
<1>3. CASE DaemonEnds
  BY <1>s, <1>3 DEF DaemonEnds, LogEnds
<1>u. ASSUME UNCHANGED logVars PROVE FileTypes' /\ FileInv'
  BY <1>s, <1>u DEF logVars
<1>4. CASE UNCHANGED vars \/ Poll \/ Tick \/ ClearLogView \/ CloseRequested \/ DaemonReady
           \/ SettingsChanged \/ Update
  BY <1>u, <1>4 DEF vars, Poll, Snapshot, Logs, ServiceUpdated, Tick, ClearLogView,
     CloseRequested, DaemonReady, SettingsChanged, Update
<1>5. ASSUME NEW p \in Process, \/ Launch(p) \/ Boots(p) \/ Signals(p) \/ GivesUp(p)
                                \/ Exit(p) \/ Release(p) \/ Dies(p)
      PROVE  FileTypes' /\ FileInv'
  BY <1>u, <1>5 DEF Launch, Boots, Signals, GivesUp, Exit, Release, Dies
<1>6. ASSUME NEW r \in saving, Saves(r) \/ ControlFinished(r) PROVE FileTypes' /\ FileInv'
  BY <1>u, <1>6 DEF Saves, ControlFinished
<1> QED BY <1>1, <1>2, <1>3, <1>4, <1>5, <1>6 DEF Next

-----------------------------------------------------------------------------
(* What the window may rely on.                                            *)

LEMMA InitReaderInv == Init => PollInv /\ TakenInv
<1> SUFFICES ASSUME Init PROVE PollInv /\ TakenInv
  OBVIOUS
<1>1. poll = NoPoll /\ last_log_id = 0 /\ taken = {}
  BY DEF Init
<1>2. poll.step = "idle" /\ poll.records = <<>> /\ Len(poll.records) = 0 /\ 1 .. 0 = {}
  BY <1>1 DEF NoPoll
<1>3. \A id \in Emitted : ~(id <= 0)
  BY DEF Emitted
<1> QED BY <1>1, <1>2, <1>3 DEF PollInv, InOrder, TakenInv

\* The files of an update.
UpdateTypes == part \in Contents /\ dmg \in Contents

LEMMA NextKeepsUpdateTypes ==
  ASSUME UpdateTypes, [Next]_vars
  PROVE  UpdateTypes'
<1>q. ASSUME UNCHANGED <<part, dmg>> PROVE UpdateTypes'
  BY <1>q DEF UpdateTypes
<1>1. CASE Update
  <2>1. Press \/ Hears \/ \E w \in worker : \/ Checks(w) \/ Fetches(w) \/ Fetched(w)
                                            \/ Verifies(w) \/ Discards(w) \/ Names(w)
    BY <1>1 DEF Update, UpdateStep
  <2>2. CASE Press \/ Hears
    BY <1>q, <2>2 DEF Press, Hears
  <2>3. ASSUME NEW w \in worker, Checks(w) \/ Verifies(w) PROVE UpdateTypes'
    BY <1>q, <2>3 DEF Checks, Verifies
  <2>4. ASSUME NEW w \in worker, Fetches(w) \/ Fetched(w) \/ Discards(w) PROVE UpdateTypes'
    BY <2>4 DEF Fetches, Fetched, Discards, UpdateTypes, Contents
  <2>5. ASSUME NEW w \in worker, Names(w) PROVE UpdateTypes'
    BY <2>5 DEF Names, UpdateTypes, Contents
  <2> QED BY <2>1, <2>2, <2>3, <2>4, <2>5
<1>2. ASSUME NEW p \in Process, Exit(p) \/ Dies(p) PROVE UpdateTypes'
  BY <1>q, <1>2 DEF Exit, Dies, WindowEnds, UpdateWindowEnds
<1>3. ASSUME NEW p \in Process,
             Launch(p) \/ Boots(p) \/ Signals(p) \/ GivesUp(p) \/ Release(p)
      PROVE  UpdateTypes'
  BY <1>q, <1>3 DEF Launch, Boots, Signals, GivesUp, Release, updateVars
<1>4. CASE Poll \/ Tick \/ ClearLogView \/ CloseRequested \/ DaemonReady
  BY <1>q, <1>4 DEF Poll, Snapshot, Logs, ServiceUpdated, Tick, ClearLogView,
     CloseRequested, DaemonReady, updateVars
<1>5. CASE DaemonBegins \/ DaemonEnds \/ Log \/ SettingsChanged
  BY <1>q, <1>5 DEF DaemonBegins, DaemonEnds, Log, SettingsChanged, updateVars
<1>6. ASSUME NEW r \in saving, Saves(r) \/ ControlFinished(r) PROVE UpdateTypes'
  BY <1>q, <1>6 DEF Saves, ControlFinished, updateVars
<1>7. CASE UNCHANGED vars
  BY <1>q, <1>7 DEF vars, updateVars
<1> QED
  BY <1>1, <1>2, <1>3, <1>4, <1>5, <1>6, <1>7 DEF Next

\* Everything that the next state's type depends on.
LogInv == LogTypes /\ RingInv /\ WindowTypes /\ PollInv /\ TakenInv
DiskInv == FileTypes /\ FileInv
Inv == LockInv /\ UpdateInv /\ SavingInv /\ PrefTypes /\ UpdateTypes /\ LogInv /\ DiskInv

LEMMA InitInv == Init => Inv
<1> SUFFICES ASSUME Init PROVE Inv
  OBVIOUS
<1>1. LockInv /\ UpdateInv /\ SavingInv /\ PrefTypes
  BY InitLockInv, InitUpdateInv, InitSavingInv, InitPrefTypes
<1>2. UpdateTypes
  BY DEF Init, UpdateInit, UpdateTypes, Contents
<1>3. LogInv
  BY InitLogTypes, InitRingInv, InitWindowTypes, InitReaderInv DEF LogInv
<1>4. DiskInv
  BY InitFileInv DEF DiskInv
<1> QED BY <1>1, <1>2, <1>3, <1>4 DEF Inv

LEMMA NextKeepsInv == Inv /\ [Next]_vars => Inv'
<1> SUFFICES ASSUME Inv, [Next]_vars PROVE Inv'
  OBVIOUS
<1>1. LockInv' /\ UpdateInv' /\ SavingInv'
  BY NextKeepsLockInv, NextKeepsUpdateInv, NextKeepsSavingInv DEF Inv
<1>2. PrefTypes'
  BY NextKeepsPrefTypes DEF Inv
<1>3. UpdateTypes'
  BY NextKeepsUpdateTypes DEF Inv
<1>4. LogInv'
  <2>1. LogTypes /\ RingInv /\ WindowTypes /\ PollInv /\ TakenInv
    BY DEF Inv, LogInv
  <2>2. LogTypes' /\ WindowTypes'
    BY <2>1, NextKeepsLogTypes, NextKeepsWindowTypes
  <2>3. RingInv' /\ PollInv' /\ TakenInv'
    BY <2>1, LogSteps, NextKeepsReaderInv
  <2> QED BY <2>2, <2>3 DEF LogInv
<1>5. DiskInv'
  <2>1. FileTypes /\ FileInv /\ LeftInv
    BY DEF Inv, DiskInv, SavingInv
  <2> QED BY <2>1, NextKeepsFileInv DEF DiskInv
<1> QED BY <1>1, <1>2, <1>3, <1>4, <1>5 DEF Inv

LEMMA InvAlways == Spec => []Inv
  BY InitInv, NextKeepsInv, PTL DEF Spec

\* Everything keeps its type, the ring and the list shown their limits; and the daemon
\* never writes to a file that another one has replaced.
THEOREM TypesCorrect == Spec => []TypeOK
<1>1. Inv => TypeOK
  <2> SUFFICES ASSUME Inv PROVE TypeOK
    OBVIOUS
  <2>1. /\ up \in BOOLEAN /\ life \in Nat /\ nextId \in Nat \ {0}
        /\ ring \in Seq(Record) /\ Len(ring) <= MaxInMemory
    BY DEF Inv, LogInv, LogTypes
  <2>2. \A e \in emitting : e.record \in Record /\ e.step \in {"push", "write"}
    BY DEF Inv, LogInv, LogTypes, Emit
  <2>3. DOMAIN files = Index /\ sink \in 0 .. Gone /\ (up /\ sink # Gone => files[sink] # Absent)
    BY DEF Inv, DiskInv, FileTypes
  <2>4. /\ chosen \in Change /\ memory \in Change
        /\ inode \in [Change -> Change \cup {Torn, Empty}]
        /\ {settings, temporary} \subseteq Change \cup {None}
    BY DEF Inv, PrefTypes
  <2>5. update \in UpdateState
    BY DEF Inv, UpdateInv, Quiet, Checking, Downloading, Verifying, UpdateState
  <2>6. part \in Contents /\ dmg \in Contents
    BY DEF Inv, UpdateTypes
  <2>7. ui \in [Process -> UiPC]
    BY DEF Inv, LockInv
  <2>8. /\ ui_sock \in {0} \cup Process
        /\ poll.step \in {"idle", "asked", "half", "answered"}
        /\ Len(shown) <= MaxShown
    BY DEF Inv, LogInv, WindowTypes, PollState
  <2> QED BY <2>1, <2>2, <2>3, <2>4, <2>5, <2>6, <2>7, <2>8 DEF TypeOK
<1> QED BY <1>1, InvAlways, PTL

\* Whichever threads emit, and however the requests of a poll and the daemon's restarts
\* fall between their steps: what the window will not ask for any more it has, but for
\* what was pushed late or out of the ring, or is below the numbers of an earlier daemon.
THEOREM NothingSkippedAlways == Spec => []NothingSkipped
<1>1. Inv => NothingSkipped
  <2> SUFFICES ASSUME Inv, NEW id \in Emitted, Running, up, id <= last_log_id
               PROVE  \/ Rec(id) \in taken \cup missable
                      \/ \E r \in taken : r.life < life /\ r.id >= id
    BY DEF NothingSkipped, Emitted, Rec
  <2> QED BY DEF Inv, LogInv, TakenInv
<1> QED BY <1>1, InvAlways, PTL

-----------------------------------------------------------------------------
(* The files, read one after the other.                                    *)

Join(s) == FoldLeft(\o, <<>>, s)

LEMMA JoinUnfolds ==
  ASSUME NEW n \in Nat, NEW s \in [1 .. n -> Seq(Nat)]
  PROVE  \E h : /\ h[0] = <<>> /\ Join(s) = h[n]
                /\ \A k \in 1 .. n : h[k] = h[k - 1] \o s[k]
<1>0. DOMAIN s = 1 .. n /\ \A k \in 1 .. n : s[k] \in Seq(Nat)
  OBVIOUS
<1> DEFINE V == Seq(Nat)
           step == [p \in (1 .. n) \X V |-> p[2] \o s[p[1]]]
           Unfolds(f) == f = [S \in SUBSET DOMAIN s |->
             IF S = {} THEN <<>> ELSE f[S \ {Highest(S)}] \o s[Highest(S)]]
<1>1. step \in [(1 .. n) \X V -> V] /\ <<>> \in V
  <2>1. \A k \in 1 .. n, got \in V : got \o s[k] \in V
    BY <1>0, ConcatProperties
  <2>2. \A p \in (1 .. n) \X V : p[1] \in 1 .. n /\ p[2] \in V
    OBVIOUS
  <2>3. <<>> \in V
    OBVIOUS
  <2> HIDE DEF V
  <2> QED BY <2>1, <2>2, <2>3
<1>2. \E f : Unfolds(f)
  <2>1. PICK f \in [SUBSET (1 .. n) -> V] : \A S \in SUBSET (1 .. n) :
                   f[S] = IF S = {} THEN <<>> ELSE step[<<Highest(S), f[S \ {Highest(S)}]>>]
    <3>1. n \in Nat /\ <<>> \in V /\ step \in [(1 .. n) \X V -> V]
      BY <1>1
    <3> HIDE DEF step, V
    <3>2. \E f \in [SUBSET (1 .. n) -> V] : IsLeftFold(f, n, <<>>, step)
      BY <3>1, LeftFoldExists, Zenon
    <3> QED BY <3>2 DEF IsLeftFold
  <2>2. \A S \in SUBSET (1 .. n) : S # {} => f[S] = f[S \ {Highest(S)}] \o s[Highest(S)]
    <3> SUFFICES ASSUME NEW S \in SUBSET (1 .. n), S # {}
                 PROVE  f[S] = f[S \ {Highest(S)}] \o s[Highest(S)]
      OBVIOUS
    <3>1. Highest(S) \in 1 .. n /\ f[S \ {Highest(S)}] \in V
      BY <2>1, HighestType
    <3>2. f[S] = step[<<Highest(S), f[S \ {Highest(S)}]>>]
      BY <2>1
    <3> HIDE DEF V
    <3> QED BY <3>1, <3>2
  <2>3. Unfolds(f)
    <3>1. \A S \in SUBSET (1 .. n) : f[S] = IF S = {} THEN <<>>
             ELSE f[S \ {Highest(S)}] \o s[Highest(S)]
      BY <2>1, <2>2
    <3> HIDE DEF V
    <3> QED BY <1>0, <2>1, <3>1
  <2> HIDE DEF Unfolds
  <2> QED BY <2>3
<1>3. PICK g : g = CHOOSE f : Unfolds(f)
  OBVIOUS
<1>4. Unfolds(g)
  <2> HIDE DEF Unfolds
  <2> QED BY <1>2, <1>3
<1>5. Join(s) = g[1 .. n]
  BY <1>0, <1>3 DEF Join, FoldLeft, MapThenFoldSet, Max, Highest
<1> DEFINE h == [k \in 0 .. n |-> g[1 .. k]]
<1>6. h[0] = <<>> /\ Join(s) = h[n]
  <2>1. 1 .. 0 = {} /\ {} \in SUBSET (1 .. n) /\ 0 \in 0 .. n /\ n \in 0 .. n
    OBVIOUS
  <2>2. g[{}] = <<>>
    BY <1>0, <1>4, <2>1
  <2>3. h[0] = g[1 .. 0] /\ h[n] = g[1 .. n]
    BY <2>1
  <2> QED BY <1>5, <2>1, <2>2, <2>3
<1>7. ASSUME NEW k \in 1 .. n PROVE h[k] = h[k - 1] \o s[k]
  <2>1. g[1 .. k] = g[1 .. k - 1] \o s[k]
    <3>1. /\ 1 .. k \in SUBSET (1 .. n) /\ 1 .. k # {}
          /\ Highest(1 .. k) = k /\ (1 .. k) \ {k} = 1 .. k - 1
      BY FirstNumbers
    <3>2. PICK S \in SUBSET (1 .. n) : S = 1 .. k /\ S # {} /\ Highest(S) = k /\ S \ {k} = 1 .. k - 1
      BY <3>1
    <3>3. g[S] = g[1 .. k - 1] \o s[k]
      BY <1>0, <1>4, <3>2
    <3> QED BY <3>2, <3>3
  <2>2. h[k] = g[1 .. k] /\ h[k - 1] = g[1 .. k - 1]
    OBVIOUS
  <2> QED BY <2>1, <2>2
<1> HIDE DEF h
<1> QED BY <1>6, <1>7

\* The numbers after one and up to another.
Numbered(s, from, to) ==
  /\ s \in Seq(Nat) /\ from <= to /\ Len(s) = to - from
  /\ \A i \in 1 .. Len(s) : s[i] = from + i

LEMMA NumberedJoin ==
  ASSUME NEW a \in Nat, NEW b \in Nat, NEW c \in Nat, NEW s, NEW t,
         Numbered(s, a, b), Numbered(t, b, c)
  PROVE  Numbered(s \o t, a, c)
<1>1. PICK u : u = s \o t
  OBVIOUS
<1>2. s \in Seq(Nat) /\ t \in Seq(Nat) /\ a <= b /\ b <= c /\ Len(s) = b - a /\ Len(t) = c - b
  BY DEF Numbered
<1>3. /\ u \in Seq(Nat) /\ Len(u) = Len(s) + Len(t)
      /\ \A i \in 1 .. Len(s) + Len(t) : u[i] = IF i <= Len(s) THEN s[i] ELSE t[i - Len(s)]
  BY <1>1, <1>2, ConcatProperties
<1>4. Len(u) = c - a /\ a <= c
  BY <1>2, <1>3
<1>5. ASSUME NEW i \in 1 .. Len(u) PROVE u[i] = a + i
  <2>1. i \in 1 .. Len(s) + Len(t) /\ i \in Nat /\ Len(s) \in Nat
    BY <1>3, <1>2
  <2>2. CASE i <= Len(s)
    <3>1. i \in 1 .. Len(s)
      BY <2>1, <2>2
    <3> QED BY <1>3, <2>1, <2>2, <3>1 DEF Numbered
  <2>3. CASE ~(i <= Len(s))
    <3>1. i - Len(s) \in 1 .. Len(t) /\ b + (i - Len(s)) = a + i
      BY <1>2, <2>1, <2>3
    <3>2. u[i] = t[i - Len(s)]
      BY <1>3, <2>1, <2>3
    <3> QED BY <3>1, <3>2 DEF Numbered
  <2> QED BY <2>2, <2>3
<1> QED BY <1>1, <1>3, <1>4, <1>5 DEF Numbered

\* Joined from the oldest on, the files have the numbers above the lowest mark.
LEMMA FilesJoin ==
  ASSUME NEW f, NEW b, Marks(f, b), NEW s,
         s = [k \in 1 .. MaxFiles + 1 |->
                IF f[MaxFiles + 1 - k] = Absent THEN <<>> ELSE f[MaxFiles + 1 - k]]
  PROVE  Numbered(Join(s), b[MaxFiles + 1], b[0])
<1>1. PICK N \in Nat : N = MaxFiles /\ Index = 0 .. N
  BY Numbers
<1>2. /\ b \in [0 .. N + 1 -> Nat]
      /\ \A n \in 0 .. N : /\ b[n + 1] <= b[n]
                           /\ f[n] = Absent => b[n] = b[n + 1]
                           /\ f[n] # Absent => f[n] = [k \in 1 .. b[n] - b[n + 1] |-> b[n + 1] + k]
  BY <1>1 DEF Marks
<1>3. ASSUME NEW k \in 1 .. N + 1
      PROVE  Numbered(s[k], b[N + 2 - k], b[N + 1 - k])
  <2>1. PICK n \in 0 .. N : n = N + 1 - k
    OBVIOUS
  <2>2. N + 2 - k = n + 1 /\ n + 1 \in 0 .. N + 1 /\ n \in 0 .. N + 1
    BY <2>1
  <2>3. s[k] = IF f[n] = Absent THEN <<>> ELSE f[n]
    BY <1>1, <2>1
  <2>4. PICK x \in Nat, y \in Nat : x = b[n + 1] /\ y = b[n]
    BY <1>2, <2>2
  <2>5. x <= y
    BY <1>2, <2>4
  <2>6. CASE f[n] = Absent
    <3>1. s[k] = <<>> /\ x = y
      BY <1>2, <2>3, <2>4, <2>6
    <3>2. <<>> \in Seq(Nat) /\ Len(<<>>) = 0 /\ 1 .. 0 = {} /\ y - x = 0
      BY <3>1
    <3>3. Numbered(s[k], x, y)
      BY <2>5, <3>1, <3>2 DEF Numbered
    <3> QED BY <2>1, <2>2, <2>4, <3>3
  <2>7. CASE f[n] # Absent
    <3>1. PICK d \in Nat : d = y - x
      BY <2>5
    <3>2. s[k] = [i \in 1 .. d |-> x + i]
      BY <1>2, <2>3, <2>4, <2>7, <3>1
    <3>3. s[k] \in Seq(Nat)
      <4>0. \A i \in 1 .. d : x + i \in Nat
        OBVIOUS
      <4>1. s[k] \in [1 .. d -> Nat]
        BY <3>2, <4>0, ZenonT(60)
      <4>2. [1 .. d -> Nat] \subseteq Seq(Nat)
        BY SeqDef
      <4> QED BY <4>1, <4>2
    <3>4. Len(s[k]) = d
      BY <3>2, <3>3, LenProperties
    <3>5. Numbered(s[k], x, y)
      BY <2>5, <3>1, <3>2, <3>3, <3>4 DEF Numbered
    <3> QED BY <2>1, <2>2, <2>4, <3>5
  <2> QED BY <2>6, <2>7
<1>4. s \in [1 .. N + 1 -> Seq(Nat)]
  <2>1. \A k \in 1 .. N + 1 : s[k] \in Seq(Nat)
    BY <1>3 DEF Numbered
  <2> QED BY <1>1, <2>1
<1>5. PICK h : /\ h[0] = <<>> /\ Join(s) = h[N + 1]
               /\ \A k \in 1 .. N + 1 : h[k] = h[k - 1] \o s[k]
  <2>1. N + 1 \in Nat
    OBVIOUS
  <2> QED BY <1>4, <2>1, JoinUnfolds
<1> DEFINE T == {k \in Nat : k <= N + 1 => Numbered(h[k], b[N + 1], b[N + 1 - k])}
<1>6. 0 \in T
  <2>1. b[N + 1] \in Nat /\ b[N + 1 - 0] = b[N + 1]
    BY <1>2
  <2>2. <<>> \in Seq(Nat) /\ Len(<<>>) = 0 /\ 1 .. 0 = {}
    OBVIOUS
  <2>3. Numbered(h[0], b[N + 1], b[N + 1 - 0])
    BY <1>5, <2>1, <2>2 DEF Numbered
  <2> QED BY <2>3
<1>7. ASSUME NEW k \in Nat, k \in T PROVE k + 1 \in T
  <2> SUFFICES ASSUME k + 1 <= N + 1 PROVE Numbered(h[k + 1], b[N + 1], b[N + 1 - (k + 1)])
    <3>1. k + 1 \in Nat
      OBVIOUS
    <3> QED BY <3>1
  <2>1. /\ k + 1 \in 1 .. N + 1 /\ k + 1 - 1 = k /\ k <= N + 1
        /\ N + 2 - (k + 1) = N + 1 - k
        /\ N + 1 \in 0 .. N + 1 /\ N + 1 - k \in 0 .. N + 1 /\ N + 1 - (k + 1) \in 0 .. N + 1
    OBVIOUS
  <2>2. h[k + 1] = h[k] \o s[k + 1]
    <3>1. PICK m \in 1 .. N + 1 : m = k + 1 /\ m - 1 = k
      BY <2>1
    <3>2. h[m] = h[m - 1] \o s[m]
      BY <1>5
    <3> QED BY <3>1, <3>2
  <2>3. Numbered(h[k], b[N + 1], b[N + 1 - k])
    BY <1>7, <2>1
  <2>4. Numbered(s[k + 1], b[N + 1 - k], b[N + 1 - (k + 1)])
    BY <1>3, <2>1
  <2>5. b[N + 1] \in Nat /\ b[N + 1 - k] \in Nat /\ b[N + 1 - (k + 1)] \in Nat
    BY <1>2, <2>1
  <2> QED BY <2>2, <2>3, <2>4, <2>5, NumberedJoin
<1>8. N + 1 \in T
  <2>1. \A k \in Nat : k \in T
    <3> HIDE DEF T
    <3> QED BY <1>6, <1>7, Reaches
  <2> QED BY <2>1
<1>9. N + 1 - (N + 1) = 0
  OBVIOUS
<1> QED BY <1>1, <1>5, <1>8, <1>9

\* If the oldest number is taken, all others are full or among the holes.
LEMMA FilesFull ==
  ASSUME NEW f, NEW b, Marks(f, b), Renamed(f), f[MaxFiles] # Absent
  PROVE  b[0] - b[MaxFiles + 1] + Cardinality(Holes(f)) * MaxFileRecords
           >= MaxFiles * MaxFileRecords
<1>1. PICK N \in Nat : N = MaxFiles /\ Index = 0 .. N /\ N > 0
  BY Numbers
<1>2. PICK M \in Nat : M = MaxFileRecords
  BY Numbers
<1>3. /\ b \in [0 .. N + 1 -> Nat]
      /\ \A n \in 0 .. N : /\ b[n + 1] <= b[n]
                           /\ f[n] = Absent => b[n] = b[n + 1]
                           /\ f[n] # Absent => f[n] = [k \in 1 .. b[n] - b[n + 1] |-> b[n + 1] + k]
  BY <1>1 DEF Marks
<1>4. ASSUME NEW n \in 1 .. N, f[n] # Absent PROVE b[n] >= b[n + 1] + M
  <2>1. n \in 0 .. N /\ n \in 0 .. N + 1 /\ n + 1 \in 0 .. N + 1
    OBVIOUS
  <2>2. PICK x \in Nat, y \in Nat : x = b[n + 1] /\ y = b[n]
    BY <1>3, <2>1
  <2>3. PICK d \in Nat : d = y - x
    <3>1. b[n + 1] <= b[n]
      BY <1>3, <2>1
    <3>2. x <= y /\ y - x \in Nat
      BY <2>2, <3>1
    <3> QED BY <3>2
  <2>4. f[n] = [k \in 1 .. d |-> x + k]
    BY <1>3, <1>4, <2>1, <2>2, <2>3
  <2>5. Len(f[n]) = d
    <3>1. \A k \in 1 .. d : x + k \in Nat
      OBVIOUS
    <3>2. f[n] \in [1 .. d -> Nat]
      BY <2>4, <3>1
    <3>3. f[n] \in Seq(Nat)
      BY <3>2, SeqDef
    <3> QED BY <2>4, <3>3, LenProperties
  <2>6. Len(f[n]) >= M
    BY <1>1, <1>2, <1>4 DEF Renamed
  <2> QED BY <2>2, <2>3, <2>5, <2>6
<1> DEFINE H(j) == {n \in Holes(f) : n >= N - j}
           c(j) == Cardinality(H(j))
<1>5. ASSUME NEW j \in Nat
      PROVE  IsFiniteSet(H(j)) /\ c(j) \in Nat /\ c(j) <= Cardinality(Holes(f))
  BY HolesFinite, FS_Subset, FS_CardinalityType
<1> DEFINE T == {j \in Nat : j < N => b[N - j] + c(j) * M >= b[N + 1] + (j + 1) * M}
<1>6. 0 \in T
  <2>1. N \in 1 .. N /\ N - 0 = N
    BY <1>1
  <2>2. b[N] >= b[N + 1] + M
    BY <1>1, <1>4, <2>1
  <2>3. N \in 0 .. N + 1 /\ N + 1 \in 0 .. N + 1
    OBVIOUS
  <2>4. PICK x \in Nat, y \in Nat, z \in Nat : x = b[N + 1] /\ y = b[N] /\ z = c(0)
    BY <1>3, <1>5, <2>3
  <2>5. z * M \in Nat /\ (0 + 1) * M = M
    OBVIOUS
  <2>6. y + z * M >= x + (0 + 1) * M
    BY <2>2, <2>4, <2>5
  <2> HIDE DEF c
  <2> QED BY <2>1, <2>4, <2>6
<1>7. ASSUME NEW j \in Nat, j \in T PROVE j + 1 \in T
  <2> SUFFICES ASSUME j + 1 < N
               PROVE  b[N - (j + 1)] + c(j + 1) * M >= b[N + 1] + ((j + 1) + 1) * M
    <3>1. j + 1 \in Nat
      OBVIOUS
    <3> HIDE DEF c
    <3> QED BY <3>1
  <2>1. PICK n \in 1 .. N : n = N - (j + 1)
    OBVIOUS
  <2>2. n \in 0 .. N /\ n + 1 = N - j /\ n \in 0 .. N - 1 /\ n \in 0 .. N + 1
        /\ n + 1 \in 0 .. N + 1 /\ N + 1 \in 0 .. N + 1 /\ j < N
    BY <2>1
  <2>3. PICK x \in Nat, y \in Nat, z \in Nat : x = b[N + 1] /\ y = b[n + 1] /\ z = b[n]
    BY <1>3, <2>2
  <2>4. PICK v \in Nat, w \in Nat : v = c(j) /\ w = c(j + 1)
    <3>1. j + 1 \in Nat
      OBVIOUS
    <3>2. c(j) \in Nat /\ c(j + 1) \in Nat
      BY <1>5, <3>1
    <3> HIDE DEF c
    <3> QED BY <3>2
  <2>5. y + v * M >= x + (j + 1) * M
    <3> HIDE DEF c
    <3> QED BY <1>7, <2>2, <2>3, <2>4
  <2>6. z + w * M >= y + v * M + M
    <3>1. CASE f[n] = Absent
      <4>1. n \in Holes(f) /\ n \notin H(j)
        BY <1>1, <2>1, <2>2, <3>1 DEF Holes
      <4>2. H(j + 1) = H(j) \cup {n}
        <5>1. \A k \in Holes(f) : k \in Nat
          BY <1>1 DEF Holes
        <5>2. \A k \in Holes(f) : k >= N - (j + 1) <=> k >= N - j \/ k = n
          BY <2>1, <5>1
        <5> QED BY <4>1, <5>2
      <4>3. w = v + 1
        BY <1>5, <2>4, <4>1, <4>2, FS_AddElement
      <4>4. z = y
        BY <1>3, <2>2, <2>3, <3>1
      <4>5. (v + 1) * M = v * M + M
        OBVIOUS
      <4> QED BY <4>3, <4>4, <4>5
    <3>2. CASE f[n] # Absent
      <4>1. H(j + 1) = H(j)
        <5>1. \A k \in Holes(f) : k \in Nat /\ k # n
          BY <1>1, <3>2 DEF Holes
        <5>2. \A k \in Holes(f) : k >= N - (j + 1) <=> k >= N - j
          BY <2>1, <5>1
        <5> QED BY <5>2
      <4>2. w = v
        BY <2>4, <4>1
      <4>3. z >= y + M
        BY <1>4, <2>3, <3>2
      <4>4. PICK a \in Nat : a = v * M
        OBVIOUS
      <4> QED BY <4>2, <4>3, <4>4
    <3> QED BY <3>1, <3>2
  <2>7. ((j + 1) + 1) * M = (j + 1) * M + M
    OBVIOUS
  <2>8. z + w * M >= x + ((j + 1) + 1) * M
    <3>1. PICK p \in Nat, q \in Nat, r \in Nat : p = w * M /\ q = v * M /\ r = (j + 1) * M
      OBVIOUS
    <3> QED BY <2>5, <2>6, <2>7, <3>1
  <2> HIDE DEF c
  <2> QED BY <2>1, <2>3, <2>4, <2>8
<1>8. PICK l \in Nat : l = N - 1
  BY <1>1
<1>9. l \in T
  <2>1. \A j \in Nat : j \in T
    <3> HIDE DEF T
    <3> QED BY <1>6, <1>7, Reaches
  <2> QED BY <2>1
<1>10. b[1] + c(l) * M >= b[N + 1] + N * M
  <2>1. l < N /\ N - l = 1 /\ l + 1 = N
    BY <1>8
  <2> HIDE DEF c
  <2> QED BY <1>9, <2>1
<1>11. PICK h \in Nat, g \in Nat : h = Cardinality(Holes(f)) /\ g = c(l)
  BY <1>5, HolesFinite
<1>12. g * M <= h * M
  <2>1. g <= h
    BY <1>5, <1>11
  <2>2. PICK d \in Nat : h = g + d
    <3>1. h - g \in Nat /\ h = g + (h - g)
      BY <2>1
    <3> QED BY <3>1
  <2>3. h * M = g * M + d * M
    BY <2>2
  <2>4. g * M \in Nat /\ d * M \in Nat /\ h * M \in Nat
    OBVIOUS
  <2> QED BY <2>3, <2>4
<1>13. PICK x \in Nat, y \in Nat, z \in Nat : x = b[N + 1] /\ y = b[1] /\ z = b[0]
  <2>1. 0 \in 0 .. N + 1 /\ 1 \in 0 .. N + 1 /\ N + 1 \in 0 .. N + 1
    OBVIOUS
  <2> QED BY <1>3, <2>1
<1>14. y <= z
  <2>1. 0 \in 0 .. N /\ 0 + 1 = 1
    OBVIOUS
  <2> QED BY <1>3, <1>13, <2>1
<1>15. z - x + h * M >= N * M
  <2>1. PICK p \in Nat, q \in Nat, r \in Nat : p = g * M /\ q = h * M /\ r = N * M
    OBVIOUS
  <2>2. y + p >= x + r
    <3> HIDE DEF c
    <3> QED BY <1>10, <1>11, <1>13, <2>1
  <2> QED BY <1>12, <1>14, <2>1, <2>2
<1> QED BY <1>1, <1>2, <1>11, <1>13, <1>15

\* Whatever renamings and openings fail, and whenever the daemon ends and another goes
\* on: what the files have are the last records written, in order and without a gap; and
\* once the oldest have gone, the files are full but for one for each failure.
THEOREM FilesContinueAlways == Spec => []FilesContinue
<1>1. Inv => FilesContinue
  <2> SUFFICES ASSUME Inv PROVE FilesContinue
    OBVIOUS
  <2>1. PICK f : f = files
    OBVIOUS
  <2>2. PICK N \in Nat : N = MaxFiles
    BY Numbers
  <2>3. PICK M \in Nat : M = MaxFileRecords
    BY Numbers
  <2>4. PICK w \in Nat : w = written
    BY DEF Inv, DiskInv, FileTypes
  <2>5. /\ sink \in Index /\ Renamed(f) /\ Cardinality(Holes(f)) <= Failed
        /\ \E b : Marks(f, b) /\ EndsAt(f, b, sink, w)
    BY <2>1, <2>4 DEF Inv, DiskInv, FileInv
  <2>6. PICK b : Marks(f, b) /\ EndsAt(f, b, sink, w)
    BY <2>5
  <2>7. b[0] = w /\ b[N + 1] \in Nat
    <3>1. 0 \in 0 .. sink /\ N + 1 \in 0 .. N + 1
      BY <2>5, Numbers
    <3> QED BY <2>2, <2>6, <3>1 DEF Marks, EndsAt
  <2>8. PICK x \in Nat : x = b[N + 1]
    BY <2>7
  <2>9. PICK s : s = [k \in 1 .. MaxFiles + 1 |->
                        IF f[MaxFiles + 1 - k] = Absent THEN <<>> ELSE f[MaxFiles + 1 - k]]
    OBVIOUS
  <2>10. PICK all : all = Join(s)
    OBVIOUS
  <2>11. Numbered(all, x, w)
    BY <2>2, <2>6, <2>7, <2>8, <2>9, <2>10, FilesJoin
  <2>12. PICK n \in Nat : n = Len(all) /\ n = w - x
    BY <2>11 DEF Numbered
  <2>13. \A k \in 1 .. n : all[k] = w - n + k
    <3>1. \A k \in 1 .. n : all[k] = x + k
      BY <2>11, <2>12 DEF Numbered
    <3> QED BY <2>12, <3>1
  <2>14. ASSUME n < w PROVE n + Failed * M >= N * M
    <3>1. x # 0
      BY <2>12, <2>14
    <3>2. f[MaxFiles] # Absent
      BY <2>2, <2>6, <2>8, <3>1 DEF Marks
    <3>3. b[0] - b[MaxFiles + 1] + Cardinality(Holes(f)) * MaxFileRecords
            >= MaxFiles * MaxFileRecords
      BY <2>5, <2>6, <3>2, FilesFull
    <3>4. PICK h \in Nat : h = Cardinality(Holes(f))
      BY HolesFinite
    <3>5. n + h * M >= N * M
      BY <2>2, <2>3, <2>7, <2>8, <2>12, <3>3, <3>4
    <3>6. PICK d \in Nat : Failed = h + d
      <4>1. LeftInv
        BY DEF Inv, SavingInv
      <4>2. Failed \in Int
        BY <4>1, FailedIs
      <4>3. Failed - h \in Nat /\ Failed = h + (Failed - h)
        BY <2>5, <3>4, <4>2
      <4> QED BY <4>3
    <3>7. (h + d) * M = h * M + d * M
      OBVIOUS
    <3>8. h * M \in Nat /\ d * M \in Nat /\ N * M \in Nat
      OBVIOUS
    <3> QED BY <3>5, <3>6, <3>7, <3>8
  <2>15. FilesContinue <=> /\ \A k \in 1 .. n : all[k] = w - n + k
                           /\ n < w => n + Failed * M >= N * M
    BY <2>1, <2>2, <2>3, <2>4, <2>9, <2>10, <2>12 DEF FilesContinue, Join, Failed
  <2> QED BY <2>13, <2>14, <2>15
<1> QED BY <1>1, InvAlways, PTL
=============================================================================
