--------------------------- MODULE DeviceSession ---------------------------
(***************************************************************************)
(* One connected device (crates/mtpdrive-core/src/device.rs): the phone's  *)
(* objects, the daemon's cache of them, the semaphore (`gate`) that gives  *)
(* one operation at a time the MTP session, and the four kinds of actors   *)
(* that meet there:                                                        *)
(*   - foreground operations (Client): cancel the background refreshes,    *)
(*     wait for the gate, talk to the phone, update the cache, let go;     *)
(*   - background refreshes (Task), spawned by a read of a stale listing;  *)
(*   - the event listener, which fetches an object under the gate but      *)
(*     merges it into the cache after giving the gate back;                *)
(*   - the phone's own user, who changes objects behind the daemon's back, *)
(*     announced by an event or not.                                       *)
(* An action is what happens between two awaits.                           *)
(***************************************************************************)
EXTENDS DeviceCache, Sequences

CONSTANTS
  Client,       \* concurrent foreground operations
  Listener,     \* the event listener, as a holder of the gate
  Initial,      \* what the phone may hold when the session opens
  Chatty,       \* objects whose changes are always announced and not counted
  MaxChanges,   \* bound: changes by the phone's user, resets and USB errors
  MaxOps,       \* bound: foreground operations, apart from listings of directories
  MaxEvents     \* bound: events the phone has queued

ASSUME HolderAssumption == /\ None \notin Client /\ Client \cap Task = {}
                           /\ Absent \notin Entry
ASSUME InitialAssumption ==  \* whatever is there is in a directory that is there
  \A content \in Initial :
    /\ content \in Content
    /\ \A h \in Handles(content) : content[h].parent \in {RootKey} \cup Handles(content)
ASSUME BoundAssumption == MaxChanges \in Nat /\ MaxOps \in Nat /\ MaxEvents \in Nat

VARIABLES
  device,     \* the phone: what each handle stands for
  used,       \* handles the phone has given out; MTP does not reuse them
  events,     \* object events the phone has queued
  cache,      \* DeviceCache
  gate,       \* who holds the semaphore
  client,     \* each foreground operation
  task,       \* each background refresh
  listener,   \* the event listener
  changes, ops,  \* what is left of the bounds
  known,      \* history: the phone as of the last finished foreground operation
  disturbed   \* history: something happened that the cache may have missed

phone  == <<device, used, events>>
budget == <<changes, ops>>
ghost  == <<known, disturbed>>
vars   == <<device, used, events, cache, gate, client, task, listener,
            changes, ops, known, disturbed>>

Request ==
  [op : {"list"}, key : Key] \cup [op : {"metadata", "delete"}, handle : Object]
    \cup [op : {"rename"}, handle : Object, name : Name]
    \cup [op : {"move"}, handle : Object, key : Key]
    \cup [op : {"upload", "create_folder"}, key : Key, name : Name]
    \cup [op : {"read"}]
Event == [type : {"changed", "removed"}, handle : Object] \cup [type : {"reset"}]

ClientState == [pc : {"idle", "waiting", "apply"}, req : Request,
                got : Content \cup Entry \cup {None}]
TaskState == [pc : {"idle", "queued", "validate", "scan", "finish"}, key : Key,
              epoch : Nat, handles : SUBSET Object, content : Content \cup {None}]
ListenerState == [pc : {"idle", "waiting", "merge"}, handle : Object \cup {None},
                  entry : Entry \cup {Absent}]

NoRequest  == [op |-> "read"]
IdleClient == [pc |-> "idle", req |-> NoRequest, got |-> None]
IdleTask   == [pc |-> "idle", key |-> RootKey, epoch |-> 0,
               handles |-> {}, content |-> None]
IdleListener == [pc |-> "idle", handle |-> None, entry |-> Absent]

-----------------------------------------------------------------------------
(* The phone.                                                              *)

Children(dev, k) ==
  [h \in Object |-> IF dev[h] # Absent /\ dev[h].parent = k THEN dev[h] ELSE Absent]

\* h and everything under it.
Below(dev, h) ==
  {x \in Object : \A S \in SUBSET Object :
     /\ h \in S
     /\ \A y \in Object : dev[y] # Absent /\ dev[y].parent \in S => y \in S
     => x \in S}

IsDirectory(k) == k \in {RootKey} \cup Handles(device)

Deleted(h) == [x \in Object |-> IF x \in Below(device, h) THEN Absent ELSE device[x]]
Put(h, e)  == [device EXCEPT ![h] = e]

\* The phone may announce what has happened to h.
Announce(e) ==
  events' \in {events} \cup (IF Len(events) < MaxEvents THEN {Append(events, e)} ELSE {})

\* What the phone's user can turn object h into.
Outcomes(h) ==
  {e \in Entry : /\ IsDirectory(e.parent) /\ e.parent \notin Below(device, h)
                 /\ h \in used => device[h] # Absent}

PhoneChanges(h) ==
  /\ \/ \E e \in Outcomes(h) \ {device[h]} :
          /\ device' = Put(h, e)
          /\ Announce([type |-> "changed", handle |-> h])
     \/ /\ device[h] # Absent
        /\ device' = Deleted(h)
        /\ Announce([type |-> "removed", handle |-> h])
  /\ IF h \in Chatty THEN events' # events /\ UNCHANGED changes
     ELSE changes > 0 /\ changes' = changes - 1
  /\ used' = used \cup {h}
  /\ known' = device' /\ disturbed' = TRUE
  /\ UNCHANGED <<cache, gate, client, task, listener, ops>>

\* StoreAdded, StoreRemoved, DeviceInfoChanged, DeviceReset.
PhoneResets ==
  /\ changes > 0 /\ Len(events) < MaxEvents
  /\ changes' = changes - 1
  /\ events' = Append(events, [type |-> "reset"])
  /\ UNCHANGED <<device, used, cache, gate, client, task, listener, ops, ghost>>

-----------------------------------------------------------------------------
(* Time.                                                                   *)

Stale(k) == cache.listing[k] # None /\ cache.listing[k].age = "stale"

\* DIRECTORY_CACHE_TTL has passed since loaded_at.
Age(k) ==
  /\ cache.listing[k] # None /\ ~Stale(k)
  /\ cache' = [cache EXCEPT !.listing[k].age = "stale"]
  /\ UNCHANGED <<phone, gate, client, task, listener, budget, ghost>>

\* DIRECTORY_FULL_REFRESH_INTERVAL, which is longer, since fully_loaded_at.
FullAge(k) ==
  /\ cache.listing[k] # None /\ cache.listing[k].age # "loaded" /\ cache.listing[k].full
  /\ cache' = [cache EXCEPT !.listing[k].full = FALSE]
  /\ UNCHANGED <<phone, gate, client, task, listener, budget, ghost>>

-----------------------------------------------------------------------------
(* Background refresh: list on a stale listing, spawn_directory_refresh.   *)


MaySpawn(k) == cache.refreshing[k] = None

\* list returns the stale listing at once and spawns a refresh.
ServeStale(k, t) ==
  /\ Stale(k) /\ MaySpawn(k)
  /\ task[t].pc = "idle"
  /\ cache' = BeginRefresh(cache, k, t)
  /\ task' = [task EXCEPT ![t] = [IdleTask EXCEPT !.pc = "queued", !.key = k,
                                                  !.epoch = cache.epoch]]
  /\ UNCHANGED <<phone, gate, client, listener, budget, ghost>>

Current(t) == RefreshIsCurrent(cache, task[t].key, task[t].epoch)

TaskReturns(t, updated) ==
  /\ cache' = DropToken(updated, t)
  /\ task' = [task EXCEPT ![t] = IdleTask]
  /\ gate' = None

\* With the gate, but cancelled meanwhile: give the gate back.
TaskDrops(t) ==
  /\ task[t].pc = "queued" /\ gate = None /\ ~Current(t)
  /\ TaskReturns(t, cache)
  /\ UNCHANGED <<phone, client, listener, budget, ghost>>

\* Open the listing: the phone sends the handles, not yet the entries, and
\* their number may be enough.
TaskOpens(t) ==
  LET handles == Handles(Children(device, task[t].key)) IN
  /\ task[t].pc = "queued" /\ gate = None /\ Current(t) /\ IsDirectory(task[t].key)
  /\ gate' = t
  /\ task' = [task EXCEPT
       ![t].pc = IF CanCountValidate(cache, task[t].key, task[t].epoch, Cardinality(handles))
                 THEN "validate" ELSE "scan",
       ![t].handles = handles]
  /\ UNCHANGED <<phone, cache, client, listener, budget, ghost>>

TaskValidates(t) ==
  /\ task[t].pc = "validate"
  /\ TaskReturns(t, FinishCountValidation(cache, task[t].key, task[t].epoch))
  /\ UNCHANGED <<phone, client, listener, budget, ghost>>

\* Every entry arrived before the token was cancelled.
TaskScans(t) ==
  /\ task[t].pc = "scan"
  /\ t \notin cache.cancelled
  /\ \A h \in task[t].handles : device[h] # Absent
  /\ task' = [task EXCEPT ![t].pc = "finish",
                          ![t].handles = {},
                          ![t].content = [h \in Object |->
                             IF h \in task[t].handles THEN device[h] ELSE Absent]]
  /\ UNCHANGED <<phone, cache, gate, client, listener, budget, ghost>>

\* The directory or one of its objects is gone, or the token was cancelled...
CannotScan(t) ==
  \/ task[t].pc = "queued" /\ gate = None /\ Current(t) /\ ~IsDirectory(task[t].key)
  \/ /\ task[t].pc = "scan"
     /\ t \in cache.cancelled \/ \E h \in task[t].handles : device[h] = Absent

\* ... or (counted) a USB error: no entries.
TaskFails(t) ==
  /\ \/ CannotScan(t) /\ UNCHANGED changes
     \/ task[t].pc = "scan" /\ changes > 0 /\ changes' = changes - 1
  /\ gate' = t
  /\ task' = [task EXCEPT ![t].pc = "finish", ![t].handles = {}]
  /\ UNCHANGED <<phone, cache, client, listener, ops, ghost>>

FailureUnregistered(t) ==  \* mutant: a failed scan returns without finish_refresh
  IF task[t].content = None THEN cache
  ELSE FinishRefresh(cache, task[t].key, task[t].epoch, task[t].content)
Finished(t) == FinishRefresh(cache, task[t].key, task[t].epoch, task[t].content)

TaskFinishes(t) ==
  /\ task[t].pc = "finish"
  /\ TaskReturns(t, Finished(t))
  /\ UNCHANGED <<phone, client, listener, budget, ghost>>

-----------------------------------------------------------------------------
(* Foreground operations.                                                  *)

\* A hit returns without touching anything, so only misses are requests.
Misses(req) ==
  CASE req.op = "list"     -> cache.listing[req.key] = None
    [] req.op = "metadata" -> cache.object[req.handle] = Absent
    [] OTHER               -> TRUE

Counted(req) == req.op # "list" \/ ~IsDirectory(req.key)

CancelledForeground == CancelRefreshes(cache)

\* cancel_background_refreshes, then the wait for the gate.
Begin(c, req) ==
  /\ client[c].pc = "idle" /\ Misses(req)
  /\ IF Counted(req) THEN ops > 0 /\ ops' = ops - 1 ELSE UNCHANGED ops
  /\ cache' = CancelledForeground
  /\ client' = [client EXCEPT ![c] = [pc |-> "waiting", req |-> req, got |-> None]]
  /\ UNCHANGED <<phone, gate, task, listener, changes, ghost>>

Return(c) == client' = [client EXCEPT ![c] = IdleClient]

Waiting(c, op) ==
  /\ client[c].pc = "waiting" /\ client[c].req.op \in op /\ gate = None

\* With the gate, and the answer has meanwhile reached the cache.
AnsweredMeanwhile(c) ==
  /\ Waiting(c, {"list", "metadata"}) /\ ~Misses(client[c].req)
  /\ Return(c)
  /\ UNCHANGED <<phone, cache, gate, task, listener, budget, ghost>>

\* The phone answers; the operation keeps the gate until the cache is updated.
Proceed(c, got) ==
  /\ gate' = c
  /\ client' = [client EXCEPT ![c].pc = "apply", ![c].got = got]

FetchListing(c) ==
  /\ Waiting(c, {"list"}) /\ Misses(client[c].req)
  /\ IsDirectory(client[c].req.key)
  /\ Proceed(c, Children(device, client[c].req.key))
  /\ UNCHANGED <<phone, cache, task, listener, budget, ghost>>

FetchMetadata(c) ==
  LET h == client[c].req.handle IN
  /\ Waiting(c, {"metadata"}) /\ Misses(client[c].req)
  /\ device[h] # Absent
  /\ Proceed(c, device[h])
  /\ UNCHANGED <<phone, cache, task, listener, budget, ghost>>

\* read and download_to: the session is used, the cache is not.
ReadBytes(c) ==
  /\ Waiting(c, {"read"})
  /\ Return(c)
  /\ UNCHANGED <<phone, cache, gate, task, listener, budget, ghost>>

\* The effect of a mutation on the phone, and the handle it concerns.
Mutates(req, h) ==
  CASE req.op = "delete"  -> h = req.handle /\ device[h] # Absent /\ device' = Deleted(h)
    [] req.op = "rename"  -> /\ h = req.handle /\ device[h] # Absent
                             /\ device' = [device EXCEPT ![h].name = req.name]
    [] req.op = "move"    -> /\ h = req.handle /\ device[h] # Absent
                             /\ IsDirectory(req.key) /\ req.key \notin Below(device, h)
                             /\ device' = [device EXCEPT ![h].parent = req.key]
    [] req.op = "upload"  -> /\ h \in Object \ (used \cup Folder) /\ IsDirectory(req.key)
                             /\ device' = Put(h, [parent |-> req.key, name |-> req.name])
    [] req.op = "create_folder" ->
                             /\ h \in Folder \ used /\ IsDirectory(req.key)
                             /\ device' = Put(h, [parent |-> req.key, name |-> req.name])
    [] OTHER -> FALSE

Echo(req, h) ==
  [type |-> IF req.op = "delete" THEN "removed" ELSE "changed", handle |-> h]

\* create_folder lists the directory again; the second request may fail.
After(req) ==
  IF req.op = "create_folder" THEN {None, Children(device', req.key)} ELSE {None}

Mutate(c) ==
  LET req == client[c].req IN
  \E h \in Object :
    /\ Waiting(c, {"delete", "rename", "move", "upload", "create_folder"})
    /\ Mutates(req, h)
    /\ \E got \in After(req) : Proceed(c, got)
    /\ used' = used \cup {h}
    /\ Announce(Echo(req, h))
    /\ UNCHANGED <<cache, task, listener, budget, ghost>>

\* The phone refuses, or (counted) the answer is lost after the phone did it:
\* `?` returns early and the cache is not touched.
Fails(c) ==
  LET req == client[c].req IN
  /\ Waiting(c, {"list", "metadata", "delete", "rename", "move", "upload", "create_folder"})
  /\ Misses(req)
  /\ \/ /\ req.op = "list" => ~IsDirectory(req.key)
        /\ req.op = "metadata" => device[req.handle] = Absent
        /\ UNCHANGED <<phone, changes, ghost>>
     \/ \E h \in Object :
          /\ changes > 0 /\ changes' = changes - 1
          /\ Mutates(req, h)
          /\ used' = used \cup {h}
          /\ known' = device' /\ disturbed' = TRUE
          /\ UNCHANGED events
  /\ Return(c)
  /\ UNCHANGED <<cache, gate, task, listener, ops>>

UploadUnnoticed(req, got) ==  \* mutant: upload_file leaves the listing alone
  CASE req.op = "list"     -> StoreListing(cache, req.key, got)
    [] req.op = "metadata" -> Upsert(cache, req.handle, got)
    [] req.op = "delete"   -> RemoveObject(cache, req.handle)
    [] req.op = "rename"   -> InvalidateObject(cache, req.handle)
    [] req.op = "move"     -> InvalidateDirectory(InvalidateObject(cache, req.handle), req.key)
    [] OTHER               -> cache

\* What a successful operation does to the cache before it lets go of the gate.
Updated(req, got) ==
  CASE req.op = "list"     -> StoreListing(cache, req.key, got)
    [] req.op = "metadata" -> Upsert(cache, req.handle, got)
    [] req.op = "delete"   -> RemoveObject(cache, req.handle)
    [] req.op = "rename"   -> InvalidateObject(cache, req.handle)
    [] req.op = "move"     -> InvalidateDirectory(InvalidateObject(cache, req.handle), req.key)
    [] req.op = "upload"   -> InvalidateDirectory(cache, req.key)
    [] req.op = "create_folder" -> IF got = None THEN InvalidateDirectory(cache, req.key)
                                   ELSE StoreListing(cache, req.key, got)

Apply(c) ==
  /\ client[c].pc = "apply"
  /\ cache' = Updated(client[c].req, client[c].got)
  /\ gate' = None
  /\ Return(c)
  /\ known' = device
  /\ UNCHANGED <<phone, task, listener, budget, disturbed>>

-----------------------------------------------------------------------------
(* The event listener: apply_event, object_from_event.                     *)

NextIs(type) == listener.pc = "idle" /\ events # <<>> /\ Head(events).type = type

ObjectRemoved ==
  /\ NextIs("removed")
  /\ cache' = RemoveHandle(cache, Head(events).handle)
  /\ events' = Tail(events)
  /\ UNCHANGED <<device, used, gate, client, task, listener, budget, ghost>>

StoreEvent ==
  /\ NextIs("reset")
  /\ cache' = Clear(cache)
  /\ events' = Tail(events)
  /\ UNCHANGED <<device, used, gate, client, task, listener, budget, ghost>>

ObjectChanged ==
  /\ NextIs("changed")
  /\ cache' = CancelRefreshes(cache)
  /\ listener' = [pc |-> "waiting", handle |-> Head(events).handle, entry |-> Absent]
  /\ events' = Tail(events)
  /\ UNCHANGED <<device, used, gate, client, task, budget, ghost>>

\* object_from_event holds the gate for the fetch and drops it on return.
FetchObject ==
  /\ listener.pc = "waiting" /\ gate = None
  /\ listener' = [listener EXCEPT !.pc = "merge", !.entry = device[listener.handle]]
  /\ UNCHANGED <<phone, cache, gate, client, task, budget, ghost>>

\* The entry is merged even if the object has changed since it was fetched.
MergeObject ==
  /\ listener.pc = "merge"
  /\ cache' = IF listener.entry = Absent THEN Clear(cache)
              ELSE Upsert(cache, listener.handle, listener.entry)
  /\ disturbed' = (disturbed \/ /\ listener.entry # Absent
                                /\ listener.entry # device[listener.handle]
                                /\ listener.entry # known[listener.handle])
  /\ listener' = IdleListener
  /\ UNCHANGED <<phone, gate, client, task, budget, known>>

\* invalidate_caches: the user asks for a refresh.
InvalidateCaches ==
  /\ ops > 0 /\ ops' = ops - 1
  /\ cache' = Clear(cache)
  /\ UNCHANGED <<phone, gate, client, task, listener, changes, ghost>>

-----------------------------------------------------------------------------
Init ==
  /\ device \in Initial
  /\ used = Handles(device)
  /\ events = <<>>
  /\ cache = EmptyCache
  /\ gate = None
  /\ client = [c \in Client |-> IdleClient]
  /\ task = [t \in Task |-> IdleTask]
  /\ listener = IdleListener
  /\ changes = MaxChanges /\ ops = MaxOps
  /\ known = device
  /\ disturbed = FALSE

TaskStep(t) ==
  \/ TaskDrops(t) \/ TaskOpens(t) \/ TaskValidates(t)
  \/ TaskScans(t) \/ TaskFails(t) \/ TaskFinishes(t)

ClientStep(c) ==
  \/ AnsweredMeanwhile(c) \/ FetchListing(c) \/ FetchMetadata(c) \/ ReadBytes(c)
  \/ Mutate(c) \/ Fails(c) \/ Apply(c)

ListenerStep ==
  \/ ObjectRemoved \/ StoreEvent \/ ObjectChanged \/ FetchObject \/ MergeObject

Next ==
  \/ \E h \in Object : PhoneChanges(h)
  \/ PhoneResets
  \/ \E k \in Key : Age(k) \/ FullAge(k) \/ \E t \in Task : ServeStale(k, t)
  \/ \E t \in Task : TaskStep(t)
  \/ \E c \in Client : ClientStep(c) \/ \E req \in Request : Begin(c, req)
  \/ ListenerStep
  \/ InvalidateCaches

Spec == Init /\ [][Next]_vars

(***************************************************************************)
(* Fairness.  The gate is tokio's fair semaphore: whoever waits gets it,   *)
(* so a waiting actor is not passed over for ever (SF).  Time passes, and  *)
(* Finder keeps reading the directories it shows (WF).                     *)
(***************************************************************************)
Fairness ==
  /\ \A k \in Key : /\ WF_vars(Age(k)) /\ WF_vars(FullAge(k))
                    /\ WF_vars(\E t \in Task : ServeStale(k, t))
  /\ \A t \in Task : SF_vars(TaskStep(t))
  /\ \A c \in Client : SF_vars(ClientStep(c))
  /\ SF_vars(ListenerStep)

FairSpec == Spec /\ Fairness

-----------------------------------------------------------------------------
TypeOK ==
  /\ device \in Content /\ used \in SUBSET Object
  /\ events \in Seq(Event)
  /\ cache \in Cache
  /\ gate \in Client \cup Task \cup {None}
  /\ client \in [Client -> ClientState]
  /\ task \in [Task -> TaskState]
  /\ listener \in ListenerState
  /\ changes \in 0 .. MaxChanges /\ ops \in 0 .. MaxOps
  /\ known \in Content /\ disturbed \in BOOLEAN

\* The daemon's own operations never make a cached directory wrong: as long as
\* the phone's user has changed nothing, no USB answer was lost and no late
\* event was merged, the cached listing of every directory the phone has is what
\* the phone would answer, whatever uploads, deletes, renames, moves, background
\* refreshes, count validations and echoed events have overlapped (device.rs
\* list .. upload_file).
Coherent ==
  ~disturbed /\ known = device =>
    \A k \in Key : cache.listing[k] # None /\ IsDirectory(k) =>
                    cache.listing[k].content = Children(device, k)

\* A refresh token does not outlive its refresh: a directory is never stuck in
\* the state where readers get the stale listing and no refresh is spawned
\* (begin_refresh returns None while a token is registered).
RefreshEnds ==
  \A k \in Key : cache.refreshing[k] # None ~> cache.refreshing[k] = None

\* "periodically performs a full scan as a fallback for missed device events"
\* (README): once the phone and the foreground operations come to rest, every
\* cached listing of an existing directory that Finder keeps reading becomes
\* what the phone holds, and stays so, even if the events about it were lost.
HealsEventually ==
  <>[](\A k \in Key : cache.listing[k] # None /\ IsDirectory(k) =>
                       cache.listing[k].content = Children(device, k))
=============================================================================
