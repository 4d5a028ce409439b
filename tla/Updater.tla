------------------------------- MODULE Updater -------------------------------
(***************************************************************************)
(* Checking for an update and downloading it (updater.rs, the update       *)
(* messages of application.rs, the buttons of views/settings.rs).  The     *)
(* worker is a task of the window's process; what it says arrives in order *)
(* and later.  The files are in the Downloads folder: "part" while curl    *)
(* writes it and hdiutil verifies it, "dmg" once it has its name.          *)
(***************************************************************************)
EXTENDS Bounds, Sequences

VARIABLES
  update,   \* App.update_state
  worker,   \* what each task is doing: checks and downloads under way
  events,   \* what they have said and the window has not heard
  part, dmg \* the files

updateVars == <<update, worker, events, part, dmg>>

UpdateState == {"Idle", "Checking", "UpToDate", "CheckFailed", "Downloading",
                "Verifying", "Downloaded", "DownloadFailed"}
Working  == {"checking", "starting", "fetching", "fetched", "verifying", "naming"}
Contents == {"none", "growing", "bad", "whole"}

\* The buttons that the page of settings shows.
CheckAlways == TRUE  \* mutant
CanCheck == update \in {"Idle", "UpToDate", "CheckFailed", "Downloaded"}
CanRetry == update = "DownloadFailed"

Task(step) == [step |-> step]
Begins(step) == worker' = worker \cup {Task(step)}
Does(w, step) == worker' = (worker \ {w}) \cup {Task(step)}
Says(event) == events' = Append(events, event)
Stops(w, event) == worker' = worker \ {w} /\ Says(event)

Press ==
  /\ Spends("presses")
  /\ \/ CanCheck /\ update' = "Checking" /\ Begins("checking")
     \/ CanRetry /\ update' = "Downloading" /\ Begins("starting")
  /\ UNCHANGED <<events, part, dmg>>

Checks(w) ==
  /\ w.step = "checking"
  /\ \E answer \in {"release", "nothing newer", "no asset", "check failed"} : Stops(w, answer)
  /\ UNCHANGED <<update, part, dmg>>

\* What an earlier download has left is removed, and curl begins.
Fetches(w) ==
  /\ w.step = "starting"
  /\ part' = "growing" /\ Does(w, "fetching")
  /\ UNCHANGED <<update, events, dmg>>
\* Its length is the asset's, but not always its content.
Fetched(w) ==
  /\ w.step = "fetching"
  /\ part' \in {"bad", "whole"}
  /\ Does(w, "verifying") /\ Says("verifying")
  /\ UNCHANGED <<update, dmg>>
Verified(w) ==
  w.step = "verifying" /\ part = "whole" /\ Does(w, "naming")
Verifies(w) == Verified(w) /\ UNCHANGED <<update, events, part, dmg>>
\* curl, the length or hdiutil says no: the file is removed.
Discards(w) ==
  /\ w.step \in {"fetching", "verifying"}
  /\ part' = "none" /\ Stops(w, "failed")
  /\ UNCHANGED <<update, dmg>>
\* The image is named and opened, either of which may fail.
Names(w) ==
  /\ w.step = "naming"
  /\ \/ part # "none" /\ dmg' = part /\ part' = "none"
        /\ \E event \in {"finished", "failed"} : Stops(w, event)
     \/ UNCHANGED <<part, dmg>> /\ Stops(w, "failed")
  /\ UNCHANGED update

-----------------------------------------------------------------------------
(* The window hears.                                                       *)

Answered(event) ==
  CASE event = "release"       -> "Downloading"
    [] event = "nothing newer" -> "UpToDate"
    [] OTHER                   -> "CheckFailed"

FailedUnheard(event) == update  \* mutant: a failure to verify is not heard
Finished(event) ==
  IF event = "finished" THEN "Downloaded"
  ELSE IF update \in {"Downloading", "Verifying"} THEN "DownloadFailed" ELSE "CheckFailed"

Hears ==
  /\ events # <<>> /\ events' = Tail(events)
  /\ LET event == Head(events)
     IN  CASE event = "release" ->
                update' = Answered(event) /\ Begins("starting")
           [] event \in {"nothing newer", "no asset", "check failed"} ->
                update' = Answered(event) /\ UNCHANGED worker
           [] event = "verifying" ->
                /\ update' = IF update = "Downloading" THEN "Verifying" ELSE update
                /\ UNCHANGED worker
           [] OTHER ->
                update' = Finished(event) /\ UNCHANGED worker
  /\ UNCHANGED <<part, dmg>>

\* The process ends, and its tasks with it; a file that was being written stays.
UpdateWindowEnds ==
  /\ update' = "Idle" /\ worker' = {} /\ events' = <<>>
  /\ UNCHANGED <<part, dmg>>

UpdateInit ==
  update = "Idle" /\ worker = {} /\ events = <<>> /\ part = "none" /\ dmg = "none"

UpdateStep ==
  \/ \E w \in worker : \/ Checks(w) \/ Fetches(w) \/ Fetched(w) \/ Verifies(w)
                       \/ Discards(w) \/ Names(w)
  \/ Hears
=============================================================================
