------------------------------ MODULE Registry ------------------------------
(***************************************************************************)
(* The registry of open devices: DeviceManager::refresh with what it calls *)
(* (crates/mtpdrive-core/src/device.rs), run again and again by the        *)
(* daemon's discovery loop and at any time by an IPC Refresh request.      *)
(*                                                                         *)
(* A refresh lists the USB devices, probes the registered sessions the     *)
(* list does not show, takes the phones back from macOS's Image Capture    *)
(* daemon (icdd) and opens the rest one after the other.  An action is     *)
(* what one refresh does between two requests to the outside; the locks of *)
(* the registry's maps are never held over one.                            *)
(*                                                                         *)
(* A phone that is unplugged and plugged in again begins a new attachment: *)
(* the sessions of earlier ones are dead.                                  *)
(***************************************************************************)
EXTENDS Naturals, FiniteSets

CONSTANTS
  Phone, Model,   \* phones, and the vendor and product they say they are
  ModelOf,        \* each phone's
  Ports,          \* the USB locations each phone may be plugged into
  Serials,        \* what a listing may read as a phone's serial number
  Unreadable,     \* the serial number "?"
  Discovery,      \* the discovery loop's refresh
  Client,         \* refreshes by IPC requests
  QuickReplug,    \* whether a phone may come back before its dead session is removed
  MaxPlugs,       \* bound: times each phone is plugged in
  MaxMishaps,     \* bound: requests a phone that is there does not answer, listings
                  \* that fail, failures to stop icdd, and times icdd claims a phone
  MaxRefreshes,   \* bound: IPC requests
  None

Serial   == (UNION {Serials[p] : p \in Phone}) \ {None}
Location == UNION {Ports[p] : p \in Phone}
Job      == Client \cup {Discovery}

ASSUME ModelAssumption == ModelOf \in [Phone -> Model]
ASSUME NamesAssumption == None \notin Location \cup Phone /\ Serial \cap Location = {}
\* Listings differ in whether they show the serial number, not in which one.
ASSUME SerialsAssumption ==
  \A p \in Phone : /\ Serials[p] # {}
                   /\ \A s, t \in Serials[p] \ {None} : s = t
ASSUME BoundAssumption == /\ MaxPlugs \in [Phone -> Nat] /\ MaxMishaps \in Nat
                          /\ MaxRefreshes \in Nat /\ QuickReplug \in BOOLEAN

VARIABLES
  port,       \* where each phone is plugged in
  attachment, \* how often it has been
  icdd,       \* the phones Image Capture has claimed
  devices,    \* DeviceManager.devices
  next_generation,
  last_error, \* whether there is one
  cooling,    \* last_image_capture_reclaim is less than ten seconds ago
  job,        \* each refresh
  mishaps, refreshes, \* what is left of the bounds
  registered  \* history: the sessions there have been in devices

world  == <<port, attachment, icdd>>
bounds == <<mishaps, refreshes>>
vars   == <<port, attachment, icdd, devices, next_generation, last_error, cooling,
            job, mishaps, refreshes, registered>>

Candidate == [model : Model, location : Location, serial : Serial \cup {None}]
Key       == Model \X (Serial \cup Location)
Session   == [key : Key, model : Model, location : Location, generation : Nat,
              phone : Phone, attachment : Nat]
PC        == {"idle", "connected", "probe", "reclaim", "killing", "grace", "open",
              "opening", "storages"}

-----------------------------------------------------------------------------
(* Which candidate is which session.                                       *)

DeviceKey(c) == <<c.model, IF c.serial = None THEN c.location ELSE c.serial>>
HasUsefulSerial(c) == c.serial \notin {None, Unreadable}

Matches(c, d) ==
  \/ DeviceKey(c) = d.key
  \/ c.model = d.model /\ c.location = d.location
  \/ ~HasUsefulSerial(c) /\ c.model = d.model

Connected(c) == \E d \in devices : Matches(c, d)

\* One candidate for each physical device, with a serial number if there is one.
UniqueNever(list) == list  \* mutant: the entries of one device are not merged
Unique(list) ==
  {c \in list : \/ c.serial # None
                \/ \A other \in list : other.location = c.location => other.serial = None}

-----------------------------------------------------------------------------
(* Phones and the operating system.                                        *)

Plugged(p) == port[p] # None
Alive(d)   == Plugged(d.phone) /\ d.attachment = attachment[d.phone]

ReferencedByListener ==  \* mutant: the event listener keeps its session
  registered \cup {job[j].session : j \in {i \in Job : job[i].pc = "storages"}}
\* The sessions something refers to, the event listener's weak reference aside ...
Referenced == devices \cup (UNION {job[j].unseen : j \in Job})
                      \cup {job[j].session : j \in {i \in Job : job[i].pc = "storages"}}
\* ... keep their claim on the phone's interface.
Held(p) == p \in icdd \/ \E d \in Referenced : d.phone = p /\ Alive(d)

\* The phones that answer to a candidate's serial number or location.
Answering(c) == {p \in Phone : /\ Plugged(p)
                               /\ IF c.serial # None THEN c.serial \in Serials[p]
                                                     ELSE port[p] = c.location}

Breaks == mishaps > 0 /\ mishaps' = mishaps - 1

Noticed(p) == QuickReplug \/ \A d \in devices : d.phone # p

PlugIn(p) ==
  /\ ~Plugged(p) /\ attachment[p] < MaxPlugs[p] /\ Noticed(p)
  /\ \E l \in Ports[p] : /\ \A q \in Phone : port[q] # l
                         /\ port' = [port EXCEPT ![p] = l]
  /\ attachment' = [attachment EXCEPT ![p] = @ + 1]
  /\ UNCHANGED <<icdd, devices, next_generation, last_error, cooling, job, bounds, registered>>

Unplug(p) ==
  /\ Plugged(p)
  /\ port' = [port EXCEPT ![p] = None]
  /\ icdd' = icdd \ {p}
  /\ UNCHANGED <<attachment, devices, next_generation, last_error, cooling, job, bounds,
                 registered>>

ImageCaptureGrabs(p) ==
  /\ Plugged(p) /\ ~Held(p) /\ Breaks
  /\ icdd' = icdd \cup {p}
  /\ UNCHANGED <<port, attachment, devices, next_generation, last_error, cooling, job,
                 refreshes, registered>>

-----------------------------------------------------------------------------
(* Listing, and probing what the list does not show.                       *)

NoSession == [key |-> None]
NoCandidate == [model |-> None]
IdleJob == [pc |-> "idle", candidates |-> {}, unseen |-> {}, candidate |-> NoCandidate,
            again |-> FALSE, session |-> NoSession, error |-> FALSE]

To(j, pc) == job' = [job EXCEPT ![j].pc = pc]

\* MtpDevice::list_devices: a phone shows up once or twice, with or without its
\* serial number.
Listings ==
  {list \in SUBSET {[model |-> ModelOf[p], location |-> port[p], serial |-> s] :
                      p \in {q \in Phone : Plugged(q)}, s \in Serial \cup {None}} :
     \A p \in Phone :
       Plugged(p) => /\ \E c \in list : c.location = port[p]
                     /\ \A c \in list : c.location = port[p] => c.serial \in Serials[p]}

Begins(j) ==
  /\ job[j].pc = "idle"
  /\ \/ j = Discovery /\ UNCHANGED refreshes
     \/ j \in Client /\ refreshes > 0 /\ refreshes' = refreshes - 1

Scan(j) ==
  /\ Begins(j)
  /\ \E list \in Listings :
       job' = [job EXCEPT ![j] = [IdleJob EXCEPT !.pc = "connected", !.candidates = Unique(list)]]
  /\ UNCHANGED <<world, devices, next_generation, last_error, cooling, mishaps, registered>>

\* The refresh ends, and leaves even last_error alone.
ScanFails(j) ==
  /\ Begins(j) /\ Breaks
  /\ UNCHANGED <<world, devices, next_generation, last_error, cooling, job, registered>>

UnseenInList(j) ==  \* mutant: an empty list ends the refresh early
  IF job[j].candidates = {} THEN {}
  ELSE {d \in devices : \A c \in job[j].candidates : ~Matches(c, d)}
Unseen(j) == {d \in devices : \A c \in job[j].candidates : ~Matches(c, d)}

ListConnected(j) ==
  /\ job[j].pc = "connected"
  /\ job' = [job EXCEPT ![j].pc = "probe", ![j].unseen = Unseen(j)]
  /\ UNCHANGED <<world, devices, next_generation, last_error, cooling, bounds, registered>>

\* The session's storages are read, with its gate held: it is still there.
ProbeAnswers(j) ==
  /\ job[j].pc = "probe"
  /\ \E d \in job[j].unseen :
       Alive(d) /\ job' = [job EXCEPT ![j].unseen = @ \ {d}]
  /\ UNCHANGED <<world, devices, next_generation, last_error, cooling, bounds, registered>>

\* It is removed by its key, whatever is registered under that now.
Remove(d) == devices' = {other \in devices : other.key # d.key}

ProbeFails(j) ==
  /\ job[j].pc = "probe"
  /\ \E d \in job[j].unseen :
       /\ \/ ~Alive(d) /\ UNCHANGED mishaps
          \/ Alive(d) /\ Breaks
       /\ Remove(d)
       /\ job' = [job EXCEPT ![j].unseen = @ \ {d}]
  /\ UNCHANGED <<world, next_generation, last_error, cooling, refreshes, registered>>

HasUnconnected(j) == \E c \in job[j].candidates : ~Connected(c)

ProbesDone(j) ==
  /\ job[j].pc = "probe" /\ job[j].unseen = {}
  /\ To(j, IF HasUnconnected(j) THEN "reclaim" ELSE "open")
  /\ UNCHANGED <<world, devices, next_generation, last_error, cooling, bounds, registered>>

-----------------------------------------------------------------------------
(* Taking phones back from Image Capture.  The lock of                     *)
(* last_image_capture_reclaim is held from the look at it to the end.      *)

\* The candidate that is being opened is done with, and so is its error.
Drop(j, failed) ==
  job' = [job EXCEPT ![j] = [job[j] EXCEPT !.pc = "open", !.candidates = @ \ {job[j].candidate},
                                      !.candidate = NoCandidate, !.again = FALSE,
                                      !.session = NoSession, !.error = @ \/ failed]]

\* A reclaim before opening anything goes on in any case, one after an
\* exclusive-access error opens again only if it has done something.
Reclaimed(j, done) ==
  IF job[j].candidate = NoCandidate THEN To(j, "open")
  ELSE IF done THEN job' = [job EXCEPT ![j].pc = "opening", ![j].again = TRUE]
  ELSE Drop(j, TRUE)

NeverLocked == TRUE  \* mutant: the lock is let go after the look
ReclaimUnlocked == \A j \in Job : job[j].pc \notin {"killing", "grace"}

CoolingDown(j) ==
  /\ job[j].pc = "reclaim" /\ ReclaimUnlocked /\ cooling
  /\ Reclaimed(j, FALSE)
  /\ UNCHANGED <<world, devices, next_generation, last_error, cooling, bounds, registered>>

MayReclaim(j) == job[j].pc = "reclaim" /\ ReclaimUnlocked /\ ~cooling

Reclaim(j) ==
  /\ MayReclaim(j)
  /\ To(j, "killing")
  /\ UNCHANGED <<world, devices, next_generation, last_error, cooling, bounds, registered>>

\* It does not run, cannot be stopped, or is stopped; in the last case what it
\* had claimed is given back a moment later.
NothingToKill(j) ==
  /\ job[j].pc = "killing" /\ icdd = {}
  /\ Reclaimed(j, FALSE)
  /\ UNCHANGED <<world, devices, next_generation, last_error, cooling, bounds, registered>>

KillFails(j) ==
  /\ job[j].pc = "killing" /\ Breaks
  /\ cooling' = TRUE
  /\ Reclaimed(j, FALSE)
  /\ UNCHANGED <<world, devices, next_generation, last_error, refreshes, registered>>

Kill(j) ==
  /\ job[j].pc = "killing"
  /\ icdd' = {}
  /\ cooling' = TRUE
  /\ To(j, "grace")
  /\ UNCHANGED <<port, attachment, devices, next_generation, last_error, bounds, registered>>

GraceEnds(j) ==
  /\ job[j].pc = "grace"
  /\ Reclaimed(j, TRUE)
  /\ UNCHANGED <<world, devices, next_generation, last_error, cooling, bounds, registered>>

CoolDown ==
  /\ cooling /\ cooling' = FALSE
  /\ UNCHANGED <<world, devices, next_generation, last_error, job, bounds, registered>>

-----------------------------------------------------------------------------
(* Opening.                                                                *)

Pick(j) ==
  /\ job[j].pc = "open"
  /\ \E c \in job[j].candidates :
       job' = IF Connected(c) THEN [job EXCEPT ![j].candidates = @ \ {c}]
              ELSE [job EXCEPT ![j].pc = "opening", ![j].candidate = c]
  /\ UNCHANGED <<world, devices, next_generation, last_error, cooling, bounds, registered>>

SameGeneration == next_generation  \* mutant: a load without an increment
NextGeneration == next_generation + 1

\* open_candidate, up to the draw of a generation.
OpenAnswers(j) ==
  /\ job[j].pc = "opening"
  /\ LET c == job[j].candidate IN
     \E p \in Answering(c) :
       /\ ~Held(p)
       /\ job' = [job EXCEPT ![j].pc = "storages", ![j].session =
                    [key |-> DeviceKey(c), model |-> c.model, location |-> c.location,
                     generation |-> next_generation, phone |-> p,
                     attachment |-> attachment[p]]]
  /\ next_generation' = NextGeneration
  /\ UNCHANGED <<world, devices, last_error, cooling, bounds, registered>>

\* Somebody else has the interface.
OpenRefused(j) ==
  /\ job[j].pc = "opening"
  /\ \E p \in Answering(job[j].candidate) : Held(p)
  /\ IF job[j].again THEN Drop(j, TRUE) ELSE To(j, "reclaim")
  /\ UNCHANGED <<world, devices, next_generation, last_error, cooling, bounds, registered>>

OpenFails(j) ==
  /\ job[j].pc = "opening"
  /\ \/ Answering(job[j].candidate) = {} /\ UNCHANGED mishaps
     \/ Breaks
  /\ Drop(j, TRUE)
  /\ UNCHANGED <<world, devices, next_generation, last_error, cooling, refreshes, registered>>

\* The phone's first answer fails: the session is dropped again.
StoragesFail(j) ==
  /\ job[j].pc = "storages"
  /\ \/ ~Alive(job[j].session) /\ UNCHANGED mishaps
     \/ Alive(job[j].session) /\ Breaks
  /\ Drop(j, TRUE)
  /\ UNCHANGED <<world, devices, next_generation, last_error, cooling, refreshes, registered>>

AnyAnswer(d) == TRUE  \* mutant: the storages' error is ignored
FirstAnswer(d) == Alive(d)

Register(j) ==
  /\ job[j].pc = "storages"
  /\ LET new == job[j].session IN
     /\ FirstAnswer(new)
     /\ devices' = {d \in devices : d.key # new.key} \cup {new}
     /\ registered' = registered \cup {[phone |-> new.phone, attachment |-> new.attachment,
                                        generation |-> new.generation]}
  /\ Drop(j, FALSE)
  /\ UNCHANGED <<world, next_generation, last_error, cooling, bounds>>

ReportedBefore(j) == last_error \/ job[j].error  \* mutant: an error is never reset
Reported(j) == job[j].error

Finish(j) ==
  /\ job[j].pc = "open" /\ job[j].candidates = {}
  /\ last_error' = Reported(j)
  /\ job' = [job EXCEPT ![j] = IdleJob]
  /\ UNCHANGED <<world, devices, next_generation, cooling, bounds, registered>>

-----------------------------------------------------------------------------
Init ==
  /\ port = [p \in Phone |-> None]
  /\ attachment = [p \in Phone |-> 0]
  /\ icdd = {}
  /\ devices = {}
  /\ next_generation = 1
  /\ last_error = FALSE
  /\ cooling = FALSE
  /\ job = [j \in Job |-> IdleJob]
  /\ mishaps = MaxMishaps /\ refreshes = MaxRefreshes
  /\ registered = {}

Refresh(j) ==
  \/ ListConnected(j) \/ ProbeAnswers(j) \/ ProbeFails(j) \/ ProbesDone(j)
  \/ CoolingDown(j) \/ Reclaim(j) \/ NothingToKill(j) \/ KillFails(j) \/ Kill(j)
  \/ GraceEnds(j)
  \/ Pick(j) \/ OpenAnswers(j) \/ OpenRefused(j) \/ OpenFails(j) \/ StoragesFail(j)
  \/ Register(j) \/ Finish(j)

World == \/ \E p \in Phone : PlugIn(p) \/ Unplug(p) \/ ImageCaptureGrabs(p)
         \/ CoolDown

Next == World \/ \E j \in Job : Scan(j) \/ ScanFails(j) \/ Refresh(j)

Spec == Init /\ [][Next]_vars

\* Every request is answered in the end, the discovery loop goes on for ever and
\* time passes.
FairSpec == /\ Spec /\ WF_vars(CoolDown) /\ WF_vars(Scan(Discovery))
            /\ \A j \in Job : WF_vars(Refresh(j))

-----------------------------------------------------------------------------
(* Properties.                                                             *)

\* Types; sessions have keys of their own, the candidates of a refresh are
\* different devices, and a session is at hand exactly after it was opened.
TypeOK ==
  /\ port \in [Phone -> Location \cup {None}] /\ attachment \in [Phone -> Nat] /\ \A p \in Phone : attachment[p] <= MaxPlugs[p]
  /\ icdd \subseteq Phone
  /\ devices \subseteq Session
  /\ \A d, e \in devices : d.key = e.key => d = e
  /\ next_generation \in Nat /\ registered \subseteq [phone : Phone, attachment : Nat, generation : Nat]
  /\ last_error \in BOOLEAN /\ cooling \in BOOLEAN
  /\ mishaps \in 0..MaxMishaps /\ refreshes \in 0..MaxRefreshes
  /\ \A j \in Job :
       /\ job[j].pc \in PC /\ job[j].candidates \subseteq Candidate
       /\ \A c, d \in job[j].candidates : c.location = d.location => c = d
       /\ job[j].unseen \subseteq Session
       /\ job[j].candidate \in job[j].candidates \cup {NoCandidate}
       /\ job[j].again \in BOOLEAN /\ job[j].error \in BOOLEAN
       /\ IF job[j].pc = "storages" THEN job[j].session \in Session
                                    ELSE job[j].session = NoSession

\* Safety, `devices`: a phone is never registered twice, although its key changes
\* with what a listing shows of it and refreshes overlap.  (Finder would show it as
\* two folders, one of them dead.)
OneSession == \A d, e \in devices : d.phone = e.phone => d = e

\* Action property, `next_generation` and the insertion: every session a phone is
\* registered with has a greater generation than all before it, so that a node of
\* an earlier session never passes for one of a later.
GenerationsGrow ==
  [][\A d \in devices' \ devices, e \in registered :
       d.phone = e.phone => d.generation > e.generation]_vars

\* Safety, `reclaim_image_capture`: nobody is about to stop Image Capture while the
\* last time is less than the cooldown ago, however many refreshes want to.
OncePerCooldown == \A j \in Job : job[j].pc = "killing" => ~cooling

\* Liveness, "removes disconnected sessions": no session of an earlier attachment
\* stays registered.
DeadRemoved == \A p \in Phone : []<>(\A d \in devices : d.phone = p => Alive(d))

Served(p) == \E d \in devices : d.phone = p /\ Alive(d)

\* Liveness, "opens new sessions": a phone that stays plugged in is registered in the
\* end and stays so, whatever refreshes have failed, raced each other, removed it by
\* mistake or lost it to Image Capture.
ServedAtLast == \A p \in Phone : <>[]Plugged(p) => <>[]Served(p)

\* Liveness, `last_error`: once all phones are served the reported error disappears,
\* that of a refresh that lost a race for a phone included.
ErrorClears == <>[](\A p \in Phone : Plugged(p) => Served(p)) => <>[]~last_error

=============================================================================
