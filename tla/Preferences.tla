------------------------------ MODULE Preferences ------------------------------
(***************************************************************************)
(* How preferences are saved (settings.rs, the SetSettings request of      *)
(* daemon.rs): each change in the window sends all of them to the daemon   *)
(* on a connection of its own; the task of the connection writes a         *)
(* temporary file, the same for every task of one daemon, renames it over  *)
(* the settings file and sets the settings in memory.  Tasks run on        *)
(* several threads; a file that is opened is a step, as its writing is.    *)
(*                                                                         *)
(* The settings are those of the change that made them, 0 before any.      *)
(***************************************************************************)
EXTENDS Bounds

CONSTANT MaxChanges  \* bound: changes there may be in all

ASSUME ChangesAssumption == MaxChanges \in Nat /\ Bound["changes"] <= MaxChanges

VARIABLES
  chosen,     \* App.settings
  memory,     \* DaemonShared.settings
  inode,      \* what is in each file there has been, by the change that made it
  settings,   \* settings_path: its file, None if there is none
  temporary,  \* the temporary file, None if there is none
  saving,     \* the requests under way
  overlapped, \* history: two have been at once, or one while a window began
  refused     \* history: one has failed

prefVars == <<chosen, memory, inode, settings, temporary, saving, overlapped, refused>>

None == MaxChanges + 1
Change == 0 .. MaxChanges
\* A file is cut off when it is opened, and may be torn when two write it.
Torn == MaxChanges + 1
Empty == MaxChanges + 2

Loaded == IF settings = None THEN 0 ELSE inode[settings]
Loadable == Loaded \in Change

At(r, step) == r \in saving /\ r.step = step
Moves(r, step) == saving' = (saving \ {r}) \cup {[r EXCEPT !.step = step]}
Ends(r) == saving' = saving \ {r}

\* The window sends what it has chosen.
Chooses(c) ==
  /\ Spends("changes")
  /\ c = MaxChanges - left.bound["changes"] + 1
  /\ chosen' = c
  /\ saving' = saving \cup {[change |-> c, step |-> "sent", file |-> None, heard |-> TRUE]}
  /\ overlapped' = (overlapped \/ saving # {})
  /\ UNCHANGED <<memory, inode, settings, temporary, refused>>

\* fs::write opens the temporary file, making it if need be, and cuts it off ...
OpensSettings(r) ==  \* mutant: the settings file itself is written
  /\ At(r, "sent")
  /\ LET file == IF settings = None THEN r.change ELSE settings
     IN  /\ settings' = file /\ inode' = [inode EXCEPT ![file] = Empty]
         /\ saving' = (saving \ {r}) \cup {[r EXCEPT !.step = "open", !.file = file]}
  /\ temporary' = IF temporary = None THEN r.change ELSE temporary
  /\ UNCHANGED <<chosen, memory, overlapped, refused>>
Opens(r) ==
  /\ At(r, "sent")
  /\ LET file == IF temporary = None THEN r.change ELSE temporary
     IN  /\ temporary' = file /\ inode' = [inode EXCEPT ![file] = Empty]
         /\ saving' = (saving \ {r}) \cup {[r EXCEPT !.step = "open", !.file = file]}
  /\ UNCHANGED <<chosen, memory, settings, overlapped, refused>>

\* ... and writes from its beginning: over what another has written since, which
\* shows after it if it was longer.
Writes(r) ==
  /\ At(r, "open")
  /\ \E content \in {r.change} \cup (IF inode[r.file] = Empty THEN {} ELSE {Torn}) :
       inode' = [inode EXCEPT ![r.file] = content]
  /\ Moves(r, "written")
  /\ UNCHANGED <<chosen, memory, settings, temporary, overlapped, refused>>

\* The file that has the temporary name, if there still is one, takes the place of
\* the settings file.
Renames(r) ==
  /\ At(r, "written") /\ temporary # None
  /\ settings' = temporary /\ temporary' = None
  /\ Moves(r, "renamed")
  /\ UNCHANGED <<chosen, memory, inode, overlapped, refused>>

MemoryKept(r) ==  \* mutant: only the file is changed
  At(r, "renamed") /\ UNCHANGED memory
Keeps(r) ==
  At(r, "renamed") /\ memory' = r.change
Remembers(r) ==
  /\ Keeps(r) /\ Ends(r)
  /\ UNCHANGED <<chosen, inode, settings, temporary, overlapped, refused>>

\* Nothing to rename; or any of it fails, and the temporary file is removed, whosever
\* it is, if it was its renaming.
Fails(r) ==
  /\ \/ At(r, "written") /\ temporary = None /\ UNCHANGED <<left, temporary>>
     \/ At(r, "written") /\ temporary # None /\ Spends("failures") /\ temporary' = None
     \/ (At(r, "sent") \/ At(r, "open")) /\ Spends("failures") /\ UNCHANGED temporary
  /\ refused' = TRUE /\ Ends(r)
  /\ UNCHANGED <<chosen, memory, inode, settings, overlapped>>

\* No daemon can be reached, or it ends before it answers.
Unanswered(r) ==
  /\ refused' = TRUE /\ Ends(r)
  /\ UNCHANGED <<chosen, memory, inode, settings, temporary, overlapped>>

\* The window starts with what is in the file, or with the defaults; when it ends,
\* its requests go on unheard.
PrefWindowBegins ==
  /\ chosen' = IF Loadable THEN Loaded ELSE 0
  /\ overlapped' = (overlapped \/ saving # {})
  /\ UNCHANGED <<memory, inode, settings, temporary, saving, refused>>
PrefWindowEnds ==
  /\ saving' = {[r EXCEPT !.heard = FALSE] : r \in saving}
  /\ UNCHANGED <<chosen, memory, inode, settings, temporary, overlapped, refused>>

\* The temporary file of another process has another name.
PrefDaemonBegins ==
  /\ Loadable
  /\ memory' = Loaded
  /\ temporary' = None
  /\ UNCHANGED <<chosen, inode, settings, saving, overlapped, refused>>

PrefInit ==
  /\ chosen = 0 /\ memory = 0
  /\ inode = [c \in Change |-> Empty]
  /\ settings = None /\ temporary = None
  /\ saving = {} /\ overlapped = FALSE /\ refused = FALSE
=============================================================================
