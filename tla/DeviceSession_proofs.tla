------------------------ MODULE DeviceSession_proofs ------------------------
(***************************************************************************)
(* Proofs about DeviceSession: its type invariant, and that the cache is   *)
(* coherent.  The argument for the latter is the invariant Semantics: at   *)
(* every moment an entry of a cached listing is what the phone held when   *)
(* the last operation finished (`known`) or what it holds now, and the two *)
(* differ only by the mutation of the operation that holds the gate.       *)
(***************************************************************************)
EXTENDS DeviceSession, TLAPS

-----------------------------------------------------------------------------
(* The operators of DeviceCache: each maps a cache to a cache; and what     *)
(* each does to the listings.                                              *)

LEMMA EmptyType == EmptyCache \in Cache
BY DEF EmptyCache, Cache, Content

LEMMA BeginRefreshType ==
  ASSUME NEW c \in Cache, NEW k \in Key, NEW t \in Task
  PROVE  /\ BeginRefresh(c, k, t) \in Cache
         /\ BeginRefresh(c, k, t).listing = c.listing
BY DEF BeginRefresh, Cache

LEMMA DropTokenType ==
  ASSUME NEW c \in Cache, NEW t
  PROVE  /\ DropToken(c, t) \in Cache
         /\ DropToken(c, t).listing = c.listing
BY DEF DropToken, Cache

LEMMA CancelRefreshType ==
  ASSUME NEW c \in Cache, NEW k \in Key
  PROVE  /\ CancelRefresh(c, k) \in Cache
         /\ CancelRefresh(c, k).listing = c.listing
BY DEF CancelRefresh, Cache

LEMMA CancelRefreshesType ==
  ASSUME NEW c \in Cache
  PROVE  /\ CancelRefreshes(c) \in Cache
         /\ CancelRefreshes(c).listing = c.listing
BY DEF CancelRefreshes, Cache

LEMMA LoadedType ==
  ASSUME NEW content \in Content
  PROVE  Loaded(content) \in Listing /\ Loaded(content).content = content
BY DEF Loaded, Listing

LEMMA StoreListingInnerType ==
  ASSUME NEW c \in Cache, NEW k \in Key, NEW content \in Content
  PROVE  /\ StoreListingInner(c, k, content) \in Cache
         /\ StoreListingInner(c, k, content).listing
              = [c.listing EXCEPT ![k] = Loaded(content)]
<1> DEFINE new == StoreListingInner(c, k, content)
<1>1. new.object \in Content
  BY DEF StoreListingInner, Cache, Content
<1>2. new.listing = [c.listing EXCEPT ![k] = Loaded(content)]
  BY DEF StoreListingInner, Cache
<1>3. new.listing \in [Key -> Listing \cup {None}]
  BY <1>2, LoadedType DEF Cache
<1>4. QED
  BY <1>1, <1>2, <1>3 DEF StoreListingInner, Cache

LEMMA StoreListingType ==
  ASSUME NEW c \in Cache, NEW k \in Key, NEW content \in Content
  PROVE  /\ StoreListing(c, k, content) \in Cache
         /\ StoreListing(c, k, content).listing
              = [c.listing EXCEPT ![k] = Loaded(content)]
BY StoreListingInnerType, CancelRefreshType DEF StoreListing

\* What is left of a listing without the handles S.
LEMMA WithoutType ==
  ASSUME NEW listing \in Listing \cup {None}, NEW S
  PROVE  /\ Without(listing, S) \in Listing \cup {None}
         /\ Without(listing, S) # None => listing # None
         /\ Without(listing, S) # None =>
              Without(listing, S).content
                = [x \in Object |-> IF x \in S THEN Absent ELSE listing.content[x]]
<1>1. CASE listing = None
  BY <1>1 DEF Without
<1>2. CASE listing # None /\ Handles(listing.content) \cap S = {}
  <2>1. listing.content \in Content
    BY <1>2 DEF Listing
  <2>2. listing.content = [x \in Object |-> IF x \in S THEN Absent ELSE listing.content[x]]
    BY <1>2, <2>1 DEF Content, Handles
  <2>3. QED
    BY <1>2, <2>2 DEF Without
<1>3. CASE listing # None /\ Handles(listing.content) \cap S # {}
  <2> DEFINE left == [x \in Object |-> IF x \in S THEN Absent ELSE listing.content[x]]
  <2>1. left \in Content
    BY <1>3 DEF Listing, Content
  <2>2. Without(listing, S) = Loaded(left)
    BY <1>3 DEF Without
  <2>3. QED
    BY <1>3, <2>1, <2>2, LoadedType
<1>4. QED
  BY <1>1, <1>2, <1>3

LEMMA WithType ==
  ASSUME NEW listing \in Listing \cup {None}, NEW h \in Object, NEW entry \in Entry
  PROVE  /\ With(listing, h, entry) \in Listing \cup {None}
         /\ With(listing, h, entry) # None => listing # None
         /\ With(listing, h, entry) # None =>
              With(listing, h, entry).content = [listing.content EXCEPT ![h] = entry]
<1>1. CASE listing = None
  BY <1>1 DEF With
<1>2. CASE listing # None
  <2>1. [listing.content EXCEPT ![h] = entry] \in Content
    BY <1>2 DEF Listing, Content
  <2>2. QED
    BY <1>2, <2>1, LoadedType DEF With
<1>3. QED
  BY <1>1, <1>2

\* Merging an entry takes it out of every listing but its parent's.
LEMMA UpsertType ==
  ASSUME NEW c \in Cache, NEW h \in Object, NEW entry \in Entry
  PROVE  /\ Upsert(c, h, entry) \in Cache
         /\ \A k \in Key : Upsert(c, h, entry).listing[k] # None =>
              /\ c.listing[k] # None
              /\ Upsert(c, h, entry).listing[k].content =
                   [x \in Object |-> IF x # h THEN c.listing[k].content[x]
                                     ELSE IF k = entry.parent THEN entry ELSE Absent]
<1> DEFINE new == Upsert(c, h, entry)
<1>1. ASSUME NEW k \in Key
      PROVE  /\ new.listing[k] \in Listing \cup {None}
             /\ new.listing[k] # None =>
                  /\ c.listing[k] # None
                  /\ new.listing[k].content =
                       [x \in Object |-> IF x # h THEN c.listing[k].content[x]
                                         ELSE IF k = entry.parent THEN entry ELSE Absent]
  <2> DEFINE old == Without(c.listing[k], {h})
  <2>1. new.listing[k] = IF k = entry.parent THEN With(old, h, entry) ELSE old
    BY CancelRefreshesType DEF Upsert, Cache
  <2>2. c.listing[k] \in Listing \cup {None}
    BY DEF Cache
  <2>3. /\ old \in Listing \cup {None}
        /\ old # None => c.listing[k] # None
        /\ old # None => old.content =
             [x \in Object |-> IF x \in {h} THEN Absent ELSE c.listing[k].content[x]]
    BY <2>2, WithoutType
  <2> HIDE DEF new, old
  <2>4. CASE k # entry.parent
    BY <2>1, <2>3, <2>4
  <2>5. CASE k = entry.parent
    <3>1. new.listing[k] = With(old, h, entry)
      BY <2>1, <2>5
    <3>2. /\ With(old, h, entry) \in Listing \cup {None}
          /\ With(old, h, entry) # None => old # None
          /\ With(old, h, entry) # None =>
               With(old, h, entry).content = [old.content EXCEPT ![h] = entry]
      BY <2>3, WithType
    <3>3. QED
      BY <2>3, <2>5, <3>1, <3>2
  <2>6. QED
    BY <2>4, <2>5
<1>2. new \in Cache
  <2>1. new.listing \in [Key -> Listing \cup {None}]
    BY <1>1, CancelRefreshesType DEF Upsert, Cache
  <2>2. new.object \in Content
    BY CancelRefreshesType DEF Upsert, Cache, Content
  <2>3. QED
    BY <2>1, <2>2, CancelRefreshesType DEF Upsert, Cache
<1>3. QED
  BY <1>1, <1>2

\* The visited handles: h itself, and nothing outside a set that holds h and
\* whatever the cached listings of its folders name.
LEMMA CachedBelowIsLeast ==
  ASSUME NEW c, NEW h \in Object, NEW S \in SUBSET Object, h \in S,
         \A f \in S \cap Folder :
           c.listing[f] # None => Handles(c.listing[f].content) \subseteq S
  PROVE  h \in CachedBelow(c, h) /\ CachedBelow(c, h) \subseteq S
BY DEF CachedBelow

LEMMA InvalidateDirectoryType ==
  ASSUME NEW c \in Cache, NEW k \in Key
  PROVE  /\ InvalidateDirectory(c, k) \in Cache
         /\ InvalidateDirectory(c, k).listing = [c.listing EXCEPT ![k] = None]
BY CancelRefreshType DEF InvalidateDirectory, Cache

LEMMA ForgetType ==
  ASSUME NEW c \in Cache, NEW S
  PROVE  Forget(c, S) \in Cache /\ Forget(c, S).listing = c.listing
<1>1. [x \in Object |-> IF x \in S THEN Absent ELSE c.object[x]] \in Content
  BY DEF Cache, Content
<1>2. QED
  BY <1>1 DEF Forget, Cache

LEMMA InvalidateObjectType ==
  ASSUME NEW c \in Cache, NEW h \in Object
  PROVE  /\ InvalidateObject(c, h) \in Cache
         /\ \A k \in Key : InvalidateObject(c, h).listing[k] # None =>
              /\ c.listing[k] # None
              /\ InvalidateObject(c, h).listing[k] = c.listing[k]
              /\ c.listing[k].content[h] = Absent
<1> DEFINE S == CachedBelow(c, h)
           base == Forget(CancelRefreshes(c), S)
           new == InvalidateObject(c, h)
           dropped(k) == k \in S \/ ( /\ c.listing[k] # None
                                     /\ Handles(c.listing[k].content) \cap S # {} )
<1>1. base \in Cache /\ base.listing = c.listing
  BY CancelRefreshesType, ForgetType
<1>2. new = [base EXCEPT !.listing = [k \in Key |-> IF dropped(k) THEN None ELSE c.listing[k]]]
  BY DEF InvalidateObject
<1>3. new.listing = [k \in Key |-> IF dropped(k) THEN None ELSE c.listing[k]]
  BY <1>1, <1>2 DEF Cache
<1>4. new \in Cache
  BY <1>1, <1>2, SMTT(30) DEF Cache
<1>5. h \in S
  BY DEF CachedBelow
<1>6. QED
  BY <1>3, <1>4, <1>5 DEF Handles

LEMMA RemoveObjectType ==
  ASSUME NEW c \in Cache, NEW h \in Object
  PROVE  /\ RemoveObject(c, h) \in Cache
         /\ \A k \in Key : RemoveObject(c, h).listing[k] # None =>
              /\ c.listing[k] # None
              /\ RemoveObject(c, h).listing[k].content =
                   [x \in Object |-> IF x \in CachedBelow(c, h) THEN Absent
                                     ELSE c.listing[k].content[x]]
<1> DEFINE S == CachedBelow(c, h)
           base == Forget(CancelRefreshes(c), S)
           new == RemoveObject(c, h)
<1>1. base \in Cache /\ base.listing = c.listing
  BY CancelRefreshesType, ForgetType
<1>2. new = [base EXCEPT !.listing = [k \in Key |-> IF k \in S THEN None
                                                    ELSE Without(c.listing[k], S)]]
  BY DEF RemoveObject
<1>3. new.listing = [k \in Key |-> IF k \in S THEN None ELSE Without(c.listing[k], S)]
  BY <1>1, <1>2 DEF Cache
<1>4. \A k \in Key : c.listing[k] \in Listing \cup {None}
  BY DEF Cache
<1>5. ASSUME NEW k \in Key
      PROVE  /\ new.listing[k] \in Listing \cup {None}
             /\ new.listing[k] # None =>
                  /\ c.listing[k] # None
                  /\ new.listing[k].content =
                       [x \in Object |-> IF x \in S THEN Absent ELSE c.listing[k].content[x]]
  <2> DEFINE left == Without(c.listing[k], S)
  <2>1. new.listing[k] = IF k \in S THEN None ELSE left
    BY <1>3
  <2>2. /\ left \in Listing \cup {None}
        /\ left # None => c.listing[k] # None
        /\ left # None => left.content =
             [x \in Object |-> IF x \in S THEN Absent ELSE c.listing[k].content[x]]
    BY <1>4, WithoutType
  <2> HIDE DEF new, left, S
  <2>3. QED
    BY <2>1, <2>2
<1>6. new \in Cache
  BY <1>1, <1>2, <1>3, <1>5 DEF Cache
<1>7. QED
  BY <1>5, <1>6

LEMMA RemoveHandleType ==
  ASSUME NEW c \in Cache, NEW h \in Object
  PROVE  /\ RemoveHandle(c, h) \in Cache
         /\ RemoveHandle(c, h) \in {c, RemoveObject(c, h)}
BY RemoveObjectType DEF RemoveHandle

LEMMA ClearType ==
  ASSUME NEW c \in Cache
  PROVE  /\ Clear(c) \in Cache
         /\ \A k \in Key : Clear(c).listing[k] = None
<1> DEFINE base == CancelRefreshes(c)
           noListing == [k \in Key |-> None]
           noObject == [h \in Object |-> Absent]
<1>1. EmptyCache.listing = noListing /\ EmptyCache.object = noObject
  BY DEF EmptyCache
<1>2. noListing \in [Key -> Listing \cup {None}] /\ noObject \in Content
  BY DEF Content
<1>3. base \in Cache
  BY CancelRefreshesType
<1>4. Clear(c) = [base EXCEPT !.listing = noListing, !.object = noObject, !.epoch = @ + 1]
  BY <1>1 DEF Clear
<1>5. \A k \in Key : noListing[k] = None
  OBVIOUS
<1> HIDE DEF base, noListing, noObject
<1>6. base.epoch + 1 \in Nat
  BY <1>3 DEF Cache
<1>7. Clear(c) \in Cache /\ Clear(c).listing = noListing
  BY <1>2, <1>3, <1>4, <1>6 DEF Cache
<1>8. QED
  BY <1>5, <1>7

LEMMA FinishCountValidationType ==
  ASSUME NEW c \in Cache, NEW k \in Key, NEW epoch
  PROVE  /\ FinishCountValidation(c, k, epoch) \in Cache
         /\ \A j \in Key : FinishCountValidation(c, k, epoch).listing[j] # None =>
              /\ c.listing[j] # None
              /\ FinishCountValidation(c, k, epoch).listing[j].content
                   = c.listing[j].content
<1> DEFINE new == FinishCountValidation(c, k, epoch)
<1>1. CASE ~RefreshIsCurrent(c, k, epoch)
  BY <1>1 DEF FinishCountValidation
<1>2. CASE RefreshIsCurrent(c, k, epoch)
  <2> DEFINE counted == IF c.listing[k] = None THEN None
                        ELSE [c.listing[k] EXCEPT !.age = "counted"]
  <2>1. counted \in Listing \cup {None}
    BY DEF Cache, Listing
  <2>2. new.listing = [c.listing EXCEPT ![k] = counted]
    BY <1>2 DEF FinishCountValidation, Cache
  <2>3. new \in Cache
    BY <1>2, <2>1, <2>2 DEF FinishCountValidation, Cache
  <2>4. c.listing[k] # None => counted.content = c.listing[k].content
    BY DEF Cache, Listing
  <2>5. QED
    BY <2>2, <2>3, <2>4 DEF Cache
<1>3. QED
  BY <1>1, <1>2

LEMMA FinishRefreshType ==
  ASSUME NEW c \in Cache, NEW k \in Key, NEW epoch, NEW content \in Content \cup {None}
  PROVE  /\ FinishRefresh(c, k, epoch, content) \in Cache
         /\ \/ FinishRefresh(c, k, epoch, content).listing = c.listing
            \/ /\ content # None
               /\ FinishRefresh(c, k, epoch, content).listing
                    = [c.listing EXCEPT ![k] = Loaded(content)]
<1> DEFINE done == [c EXCEPT !.refreshing[k] = None]
<1>1. done \in Cache /\ done.listing = c.listing
  BY DEF Cache
<1>2. CASE ~RefreshIsCurrent(c, k, epoch)
  BY <1>2 DEF FinishRefresh
<1>3. CASE RefreshIsCurrent(c, k, epoch) /\ content = None
  BY <1>1, <1>3 DEF FinishRefresh
<1>4. CASE RefreshIsCurrent(c, k, epoch) /\ content # None
  <2>1. FinishRefresh(c, k, epoch, content) = StoreListingInner(done, k, content)
    BY <1>4 DEF FinishRefresh
  <2>2. content \in Content
    BY <1>4
  <2> HIDE DEF done
  <2>3. QED
    BY <1>1, <1>4, <2>1, <2>2, StoreListingInnerType
<1>5. QED
  BY <1>2, <1>3, <1>4

-----------------------------------------------------------------------------
(* The session.                                                            *)

\* The gate has one holder: the operation that has had the phone's answer and
\* not updated the cache yet, or the refresh that is being read.
Holders ==
  /\ \A c \in Client : client[c].pc = "apply" <=> gate = c
  /\ \A t \in Task : task[t].pc \in {"validate", "scan", "finish"} <=> gate = t

\* What the phone answered is of the kind that was asked for, and the listener
\* works on an object.
Answer(req, got) ==
  /\ req.op # "read"
  /\ req.op = "list" => got \in Content
  /\ req.op = "metadata" => got \in Entry
  /\ req.op = "create_folder" => got \in Content \cup {None}

Answers ==
  /\ \A c \in Client : client[c].pc = "apply" => Answer(client[c].req, client[c].got)
  /\ listener.pc # "idle" => listener.handle \in Object

Gone(x) == x \in used /\ device[x] = Absent

\* The objects form a forest, and handles are not reused.
Forest ==
  /\ Handles(device) \subseteq used /\ Handles(known) \subseteq used
  /\ \A x \in Handles(device) : device[x].parent \in {RootKey} \cup Handles(device)
  /\ \A x \in Handles(known) :
       known[x].parent \in Object /\ device[known[x].parent] = Absent => device[x] = Absent

\* A listing of a directory that is gone may name objects that are gone.
Agrees(k, x, e) ==
  \/ e = Children(known, k)[x]
  \/ e = Children(device, k)[x]
  \/ Gone(k) /\ Gone(x)

Mixed(listing) ==
  \A k \in Key, x \in Object : listing[k] # None => Agrees(k, x, listing[k].content[x])

RemovedAreGone ==
  \A i \in DOMAIN events : events[i].type = "removed" => Gone(events[i].handle)

\* What the phone did for the operation that holds the gate.
Elsewhere(h) == \A x \in Object \ {h} : device[x] = known[x]
Created(key) ==
  \E h \in Object : /\ known[h] = Absent /\ device[h] # Absent
                    /\ device[h].parent = key /\ Elsewhere(h)

Done(req, got) ==
  CASE req.op = "list" ->
         known = device /\ got = Children(device, req.key)
    [] req.op = "metadata" ->
         known = device /\ got = device[req.handle] /\ got # Absent
    [] req.op = "delete" ->
         /\ Gone(req.handle)
         /\ \A x \in Object \ {req.handle} :
              \/ device[x] = known[x]
              \/ /\ Gone(x) /\ known[x] # Absent /\ known[x].parent \in Object
                 /\ Gone(known[x].parent)
    [] req.op = "rename" ->
         /\ device[req.handle] # Absent /\ known[req.handle] # Absent
         /\ device[req.handle].parent = known[req.handle].parent
         /\ Elsewhere(req.handle)
    [] req.op = "move" ->
         /\ device[req.handle] # Absent
         /\ device[req.handle].parent = req.key
         /\ Elsewhere(req.handle)
    [] req.op = "upload" -> Created(req.key)
    [] req.op = "create_folder" ->
         Created(req.key) /\ (got = None \/ got = Children(device, req.key))
    [] OTHER -> FALSE

Scanned(t) ==
  /\ task[t].pc = "scan" => task[t].handles = Handles(Children(device, task[t].key))
  /\ task[t].pc = "finish" /\ task[t].content # None =>
       task[t].content = Children(device, task[t].key)
  /\ task[t].pc # "finish" => task[t].content = None

Semantics ==
  /\ Forest
  /\ Mixed(cache.listing)
  /\ RemovedAreGone
  /\ gate \notin Client => known = device
  /\ \A c \in Client : gate = c => Done(client[c].req, client[c].got)
  /\ \A t \in Task : Scanned(t)

TInv == TypeOK /\ Answers

IInv == TInv /\ Holders /\ (~disturbed => Semantics)

-----------------------------------------------------------------------------
(* Types.                                                                  *)

LEMMA RequestFields ==
  ASSUME NEW req \in Request
  PROVE  /\ req.op \in {"list", "move", "upload", "create_folder"} => req.key \in Key
         /\ req.op \in {"metadata", "delete", "rename", "move"} => req.handle \in Object
         /\ req.op \in {"rename", "upload", "create_folder"} => req.name \in Name
         /\ req.op \in {"list", "metadata", "delete", "rename", "move", "upload",
                        "create_folder", "read"}
BY DEF Request

LEMMA EventFields ==
  ASSUME NEW e \in Event, e.type # "reset"
  PROVE  e.handle \in Object
BY DEF Event

LEMMA ChildrenType ==
  ASSUME NEW dev \in Content, NEW k \in Key
  PROVE  Children(dev, k) \in Content
BY DEF Children, Content

LEMMA DeletedType ==
  ASSUME device \in Content, NEW h \in Object
  PROVE  Deleted(h) \in Content
BY DEF Deleted, Content

LEMMA PutType ==
  ASSUME device \in Content, NEW h \in Object, NEW e \in Entry
  PROVE  Put(h, e) \in Content
BY DEF Put, Content

LEMMA AnnounceType ==
  ASSUME events \in Seq(Event), NEW e \in Event, Announce(e)
  PROVE  events' \in Seq(Event)
BY DEF Announce

LEMMA MutatesType ==
  ASSUME device \in Content, NEW req \in Request, NEW h \in Object, Mutates(req, h)
  PROVE  device' \in Content /\ Echo(req, h) \in Event
<1>1. Echo(req, h) \in Event
  BY DEF Echo, Event
<1>2. CASE req.op = "delete"
  BY <1>1, <1>2, DeletedType DEF Mutates
<1>3. CASE req.op = "rename"
  <2>1. device[h] \in Entry /\ req.name \in Name
    BY <1>3, RequestFields DEF Mutates, Content
  <2>2. [device[h] EXCEPT !.name = req.name] \in Entry
    BY <2>1 DEF Entry
  <2>3. QED
    BY <1>1, <1>3, <2>2 DEF Mutates, Content
<1>4. CASE req.op = "move"
  <2>1. device[h] \in Entry /\ req.key \in Key
    BY <1>4, RequestFields DEF Mutates, Content
  <2>2. [device[h] EXCEPT !.parent = req.key] \in Entry
    BY <2>1 DEF Entry
  <2>3. QED
    BY <1>1, <1>4, <2>2 DEF Mutates, Content
<1>5. CASE req.op \in {"upload", "create_folder"}
  <2>1. [parent |-> req.key, name |-> req.name] \in Entry
    BY <1>5, RequestFields DEF Entry
  <2>2. device' = Put(h, [parent |-> req.key, name |-> req.name])
    BY <1>5 DEF Mutates
  <2>3. QED
    BY <1>1, <2>1, <2>2, PutType
<1>6. QED
  BY <1>2, <1>3, <1>4, <1>5 DEF Mutates

LEMMA UpdatedCases ==
  ASSUME NEW req, NEW got
  PROVE  /\ req.op = "list" => Updated(req, got) = StoreListing(cache, req.key, got)
         /\ req.op = "metadata" => Updated(req, got) = Upsert(cache, req.handle, got)
         /\ req.op = "delete" => Updated(req, got) = RemoveObject(cache, req.handle)
         /\ req.op = "rename" => Updated(req, got) = InvalidateObject(cache, req.handle)
         /\ req.op = "move" =>
              Updated(req, got) = InvalidateDirectory(InvalidateObject(cache, req.handle), req.key)
         /\ req.op = "upload" => Updated(req, got) = InvalidateDirectory(cache, req.key)
         /\ req.op = "create_folder" =>
              Updated(req, got) = IF got = None THEN InvalidateDirectory(cache, req.key)
                                  ELSE StoreListing(cache, req.key, got)
BY DEF Updated

LEMMA UpdatedType ==
  ASSUME cache \in Cache, NEW req \in Request, NEW got, Answer(req, got)
  PROVE  Updated(req, got) \in Cache
<1>1. CASE req.op = "list"
  <2>1. req.key \in Key /\ got \in Content
    BY <1>1, RequestFields DEF Answer
  <2>2. StoreListing(cache, req.key, got) \in Cache
    BY <2>1, StoreListingType
  <2>3. QED
    BY <1>1, <2>2, UpdatedCases
<1>2. CASE req.op = "metadata"
  <2>1. req.handle \in Object /\ got \in Entry
    BY <1>2, RequestFields DEF Answer
  <2>2. QED
    BY <1>2, <2>1, UpdatedCases, UpsertType
<1>3. CASE req.op = "delete"
  BY <1>3, RequestFields, UpdatedCases, RemoveObjectType
<1>4. CASE req.op = "rename"
  BY <1>4, RequestFields, UpdatedCases, InvalidateObjectType
<1>5. CASE req.op = "move"
  <2>1. req.key \in Key /\ InvalidateObject(cache, req.handle) \in Cache
    BY <1>5, RequestFields, InvalidateObjectType
  <2>2. Updated(req, got) = InvalidateDirectory(InvalidateObject(cache, req.handle), req.key)
    BY <1>5, UpdatedCases
  <2>3. QED
    BY <2>1, <2>2, InvalidateDirectoryType, ZenonT(60)
<1>6. CASE req.op \in {"upload", "create_folder"}
  <2>1. req.key \in Key
    BY <1>6, RequestFields
  <2>2. InvalidateDirectory(cache, req.key) \in Cache
    BY <2>1, InvalidateDirectoryType
  <2>3. got \in Content => StoreListing(cache, req.key, got) \in Cache
    BY <2>1, StoreListingType
  <2>4. req.op = "create_folder" => got \in Content \/ got = None
    BY DEF Answer
  <2>5. QED
    BY <1>6, <2>2, <2>3, <2>4, UpdatedCases
<1>7. QED
  BY <1>1, <1>2, <1>3, <1>4, <1>5, <1>6, RequestFields DEF Answer

LEMMA InitTyped == Init => TInv
<1> SUFFICES ASSUME Init PROVE TInv
  OBVIOUS
<1>1. device \in Content
  BY InitialAssumption DEF Init
<1>2. Handles(device) \subseteq Object
  BY DEF Handles
<1>3. cache \in Cache
  BY EmptyType DEF Init
<1>4. NoRequest \in Request
  BY DEF NoRequest, Request
<1>5. TypeOK
  <2>1. IdleClient \in ClientState
    BY <1>4 DEF IdleClient, ClientState
  <2>2. IdleTask \in TaskState
    BY DEF IdleTask, TaskState, Key
  <2>3. IdleListener \in ListenerState
    BY DEF IdleListener, ListenerState
  <2>4. /\ client \in [Client -> ClientState]
        /\ task \in [Task -> TaskState]
    BY <2>1, <2>2 DEF Init
  <2>5. changes \in 0 .. MaxChanges /\ ops \in 0 .. MaxOps
    BY BoundAssumption DEF Init
  <2>6. events \in Seq(Event)
    BY DEF Init
  <2>7. QED
    BY <1>1, <1>2, <1>3, <2>3, <2>4, <2>5, <2>6 DEF Init, TypeOK
<1>6. Answers
  BY DEF Init, Answers, IdleClient, IdleListener
<1>7. QED
  BY <1>5, <1>6 DEF TInv

\* The steps of the phone, of time and of the spawning of refreshes.
LEMMA PhoneTyped ==
  ASSUME TInv, NEW h \in Object, PhoneChanges(h)
  PROVE  TInv'
<1> USE DEF TInv, TypeOK
<1>1. device' \in Content /\ used' \in SUBSET Object
  BY DeletedType, PutType DEF PhoneChanges, Outcomes
<1>2. events' \in Seq(Event)
  BY AnnounceType DEF PhoneChanges, Event
<1>3. changes' \in 0 .. MaxChanges
  BY BoundAssumption DEF PhoneChanges
<1>4. QED
  BY <1>1, <1>2, <1>3 DEF PhoneChanges, Answers

LEMMA ResetTyped ==
  ASSUME TInv, PhoneResets
  PROVE  TInv'
<1> USE DEF TInv, TypeOK
<1>1. events' \in Seq(Event)
  BY DEF PhoneResets, Event
<1>2. QED
  BY <1>1, BoundAssumption DEF PhoneResets, ghost, Answers

LEMMA TimeTyped ==
  ASSUME TInv, NEW k \in Key, Age(k) \/ FullAge(k) \/ \E t \in Task : ServeStale(k, t)
  PROVE  TInv'
<1> USE DEF TInv, TypeOK, phone, budget, ghost
<1>1. cache.listing[k] # None => cache.listing[k] \in Listing
  BY DEF Cache
<1>2. CASE Age(k)
  <2>1. [cache.listing[k] EXCEPT !.age = "stale"] \in Listing
    BY <1>1, <1>2 DEF Age, Listing
  <2>2. cache' \in Cache
    BY <1>2, <2>1 DEF Age, Cache
  <2>3. QED
    BY <1>2, <2>2 DEF Age, Answers
<1>3. CASE FullAge(k)
  <2>1. [cache.listing[k] EXCEPT !.full = FALSE] \in Listing
    BY <1>1, <1>3 DEF FullAge, Listing
  <2>2. cache' \in Cache
    BY <1>3, <2>1 DEF FullAge, Cache
  <2>3. QED
    BY <1>3, <2>2 DEF FullAge, Answers
<1>4. ASSUME NEW t \in Task, ServeStale(k, t) PROVE TInv'
  <2>1. cache' \in Cache
    BY <1>4, BeginRefreshType DEF ServeStale
  <2>2. cache.epoch \in Nat
    BY DEF Cache
  <2>3. QED
    BY <1>4, <2>1, <2>2 DEF ServeStale, IdleTask, TaskState, Answers
<1>5. QED
  BY <1>2, <1>3, <1>4

LEMMA TaskTyped ==
  ASSUME TInv, NEW t \in Task, TaskStep(t)
  PROVE  TInv'
<1> USE DEF TInv, TypeOK, phone, budget, ghost
<1>1. ASSUME NEW updated \in Cache, TaskReturns(t, updated),
             UNCHANGED <<phone, client, listener, budget, ghost>>
      PROVE  TInv'
  <2>1. cache' \in Cache
    BY <1>1, DropTokenType DEF TaskReturns
  <2>2. IdleTask \in TaskState
    BY DEF IdleTask, TaskState, Key
  <2>3. task' \in [Task -> TaskState]
    BY <1>1, <2>2 DEF TaskReturns
  <2>4. QED
    BY <1>1, <2>1, <2>3 DEF TaskReturns, Answers
<1>2. CASE TaskDrops(t)
  BY <1>1, <1>2 DEF TaskDrops
<1>3. CASE TaskOpens(t)
  <2> DEFINE handles == Handles(Children(device, task[t].key))
             pc == IF CanCountValidate(cache, task[t].key, task[t].epoch, Cardinality(handles))
                   THEN "validate" ELSE "scan"
  <2>1. handles \in SUBSET Object /\ pc \in {"validate", "scan"}
    BY DEF Handles
  <2>2. task' = [task EXCEPT ![t].pc = pc, ![t].handles = handles] /\ gate' = t
    BY <1>3 DEF TaskOpens
  <2> HIDE DEF handles, pc
  <2>3. task' \in [Task -> TaskState]
    <3>1. PICK r : r = [task[t] EXCEPT !.pc = pc, !.handles = handles]
      OBVIOUS
    <3>2. r \in TaskState
      BY <2>1, <3>1 DEF TaskState
    <3>3. task' = [task EXCEPT ![t] = r]
      BY <2>2, <3>1
    <3> QED BY <3>2, <3>3
  <2>4. QED
    BY <1>3, <2>2, <2>3 DEF TaskOpens, Answers
<1>4. CASE TaskValidates(t)
  <2>1. FinishCountValidation(cache, task[t].key, task[t].epoch) \in Cache
    BY FinishCountValidationType DEF TaskState
  <2>2. QED
    BY <1>1, <1>4, <2>1 DEF TaskValidates
<1>5. CASE TaskScans(t)
  <2>1. [h \in Object |-> IF h \in task[t].handles THEN device[h] ELSE Absent] \in Content
    BY DEF Content
  <2>2. task' \in [Task -> TaskState]
    <3>1. PICK content \in Content :
            content = [h \in Object |-> IF h \in task[t].handles THEN device[h] ELSE Absent]
      BY <2>1
    <3>2. PICK r : r = [task[t] EXCEPT !.pc = "finish", !.handles = {}, !.content = content]
      OBVIOUS
    <3>3. r \in TaskState
      BY <3>2 DEF TaskState
    <3>4. task' = [task EXCEPT ![t] = r]
      BY <1>5, <3>1, <3>2 DEF TaskScans
    <3> QED BY <3>3, <3>4
  <2>3. QED
    BY <1>5, <2>2 DEF TaskScans, Answers
<1>6. CASE TaskFails(t)
  <2>1. changes' \in 0 .. MaxChanges
    BY <1>6, BoundAssumption DEF TaskFails
  <2>2. task' \in [Task -> TaskState]
    <3>1. PICK r : r = [task[t] EXCEPT !.pc = "finish", !.handles = {}]
      OBVIOUS
    <3>2. r \in TaskState
      BY <3>1 DEF TaskState
    <3>3. task' = [task EXCEPT ![t] = r]
      BY <1>6, <3>1 DEF TaskFails
    <3> QED BY <3>2, <3>3
  <2>3. QED
    BY <1>6, <2>1, <2>2 DEF TaskFails, Answers
<1>7. CASE TaskFinishes(t)
  <2>1. Finished(t) \in Cache
    BY FinishRefreshType DEF Finished, TaskState
  <2>2. QED
    BY <1>1, <1>7, <2>1 DEF TaskFinishes
<1>8. QED
  BY <1>2, <1>3, <1>4, <1>5, <1>6, <1>7 DEF TaskStep

LEMMA ReturnTyped ==
  ASSUME TInv, NEW c \in Client, Return(c), UNCHANGED listener
  PROVE  client' \in [Client -> ClientState] /\ Answers'
<1>1. IdleClient \in ClientState
  BY DEF IdleClient, ClientState, NoRequest, Request
<1>2. client' \in [Client -> ClientState]
  BY <1>1 DEF Return, TInv, TypeOK
<1>3. Answers'
  BY DEF Return, IdleClient, Answers, TInv, TypeOK
<1>4. QED
  BY <1>2, <1>3

LEMMA ProceedTyped ==
  ASSUME TInv, NEW c \in Client, NEW got, Proceed(c, got), Answer(client[c].req, got),
         got \in Content \cup Entry \cup {None}, UNCHANGED listener
  PROVE  client' \in [Client -> ClientState] /\ Answers'
<1>1. client' \in [Client -> ClientState]
  BY DEF Proceed, TInv, TypeOK, ClientState
<1>2. Answers'
  BY DEF Proceed, Answers, TInv, TypeOK, ClientState
<1>3. QED
  BY <1>1, <1>2

LEMMA BeginTyped ==
  ASSUME TInv, NEW c \in Client, NEW req \in Request, Begin(c, req)
  PROVE  TInv'
<1> USE DEF TInv, TypeOK, phone, ghost
<1>1. cache' \in Cache
  BY CancelRefreshesType DEF Begin, CancelledForeground
<1>2. client' \in [Client -> ClientState]
  BY DEF Begin, ClientState
<1>3. ops' \in 0 .. MaxOps
  BY BoundAssumption DEF Begin
<1>4. Answers'
  BY DEF Begin, Answers
<1>5. QED
  BY <1>1, <1>2, <1>3, <1>4 DEF Begin

LEMMA ClientTyped ==
  ASSUME TInv, NEW c \in Client, ClientStep(c)
  PROVE  TInv'
<1> USE DEF TInv, TypeOK, phone, budget, ghost
<1> DEFINE req == client[c].req
<1>1. req \in Request
  BY DEF ClientState
<1>2. CASE AnsweredMeanwhile(c)
  BY <1>2, ReturnTyped DEF AnsweredMeanwhile
<1>3. CASE FetchListing(c)
  <2>1. Children(device, req.key) \in Content /\ req.op = "list"
    BY <1>1, <1>3, RequestFields, ChildrenType DEF FetchListing, Waiting
  <2>2. Answer(req, Children(device, req.key))
    BY <2>1 DEF Answer
  <2>3. client' \in [Client -> ClientState] /\ Answers'
    BY <1>3, <2>1, <2>2, ProceedTyped DEF FetchListing
  <2>4. QED
    BY <1>3, <2>3 DEF FetchListing, Proceed
<1>4. CASE FetchMetadata(c)
  <2>1. device[req.handle] \in Entry /\ req.op = "metadata"
    BY <1>1, <1>4, RequestFields DEF FetchMetadata, Waiting, Content
  <2>2. Answer(req, device[req.handle])
    BY <2>1 DEF Answer
  <2>3. client' \in [Client -> ClientState] /\ Answers'
    BY <1>4, <2>1, <2>2, ProceedTyped DEF FetchMetadata
  <2>4. QED
    BY <1>4, <2>3 DEF FetchMetadata, Proceed
<1>5. CASE ReadBytes(c)
  BY <1>5, ReturnTyped DEF ReadBytes
<1>6. CASE Mutate(c)
  <2>1. PICK h \in Object :
          /\ Waiting(c, {"delete", "rename", "move", "upload", "create_folder"})
          /\ Mutates(req, h)
          /\ \E got \in After(req) : Proceed(c, got)
          /\ used' = used \cup {h}
          /\ Announce(Echo(req, h))
          /\ UNCHANGED <<cache, task, listener, budget, ghost>>
    BY <1>6 DEF Mutate
  <2>2. PICK got \in After(req) : Proceed(c, got)
    BY <2>1
  <2>3. device' \in Content /\ Echo(req, h) \in Event
    BY <1>1, <2>1, MutatesType
  <2>4. got = None \/ (req.op = "create_folder" /\ got = Children(device', req.key))
    BY <2>2 DEF After
  <2>5. got \in Content \cup {None}
    BY <1>1, <2>3, <2>4, RequestFields DEF Children, Content
  <2>6. Answer(req, got)
    BY <2>1, <2>5 DEF Answer, Waiting
  <2>7. client' \in [Client -> ClientState] /\ Answers'
    BY <2>1, <2>2, <2>5, <2>6, ProceedTyped
  <2>8. events' \in Seq(Event)
    BY <2>1, <2>3, AnnounceType
  <2>9. QED
    BY <2>1, <2>2, <2>3, <2>7, <2>8 DEF Proceed
<1>7. CASE Fails(c)
  <2>1. client' \in [Client -> ClientState] /\ Answers'
    BY <1>7, ReturnTyped DEF Fails
  <2>2. /\ device' \in Content /\ used' \in SUBSET Object /\ known' \in Content
        /\ disturbed' \in BOOLEAN /\ changes' \in 0 .. MaxChanges
        /\ events' = events
    <3>1. CASE UNCHANGED <<phone, changes, ghost>>
      BY <3>1
    <3>2. CASE \E h \in Object :
                 /\ changes > 0 /\ changes' = changes - 1
                 /\ Mutates(req, h)
                 /\ used' = used \cup {h}
                 /\ known' = device' /\ disturbed' = TRUE
                 /\ UNCHANGED events
      BY <1>1, <3>2, MutatesType, BoundAssumption
    <3>3. QED
      BY <1>7, <3>1, <3>2 DEF Fails
  <2>3. QED
    BY <1>7, <2>1, <2>2 DEF Fails
<1>8. CASE Apply(c)
  <2>1. Answer(req, client[c].got)
    BY <1>8 DEF Apply, Answers
  <2>2. cache' \in Cache
    BY <1>1, <1>8, <2>1, UpdatedType DEF Apply
  <2>3. QED
    BY <1>8, <2>2, ReturnTyped DEF Apply
<1>9. QED
  BY <1>2, <1>3, <1>4, <1>5, <1>6, <1>7, <1>8 DEF ClientStep

LEMMA ListenerTyped ==
  ASSUME TInv, ListenerStep \/ InvalidateCaches
  PROVE  TInv'
<1> USE DEF TInv, TypeOK, phone, budget, ghost
<1>1. events # <<>> => Head(events) \in Event /\ Tail(events) \in Seq(Event)
  OBVIOUS
<1>2. CASE ObjectRemoved
  <2>1. Head(events).handle \in Object
    BY <1>1, <1>2, EventFields DEF ObjectRemoved, NextIs
  <2>2. cache' \in Cache
    BY <1>2, <2>1, RemoveHandleType DEF ObjectRemoved
  <2>3. QED
    BY <1>1, <1>2, <2>2 DEF ObjectRemoved, NextIs, Answers
<1>3. CASE StoreEvent
  BY <1>1, <1>3, ClearType DEF StoreEvent, NextIs, Answers
<1>4. CASE ObjectChanged
  <2>1. Head(events).handle \in Object
    BY <1>1, <1>4, EventFields DEF ObjectChanged, NextIs
  <2>2. listener' \in ListenerState
    BY <1>4, <2>1 DEF ObjectChanged, ListenerState
  <2>3. Answers'
    BY <1>4, <2>1 DEF ObjectChanged, Answers
  <2>4. QED
    BY <1>1, <1>4, <2>2, <2>3, CancelRefreshesType DEF ObjectChanged, NextIs
<1>5. CASE FetchObject
  <2>1. device[listener.handle] \in Entry \cup {Absent}
    BY <1>5 DEF FetchObject, Answers, Content
  <2>2. listener' \in ListenerState
    BY <1>5, <2>1 DEF FetchObject, ListenerState
  <2>3. Answers'
    BY <1>5 DEF FetchObject, Answers, ListenerState
  <2>4. QED
    BY <1>5, <2>2, <2>3 DEF FetchObject
<1>6. CASE MergeObject
  <2>1. listener.handle \in Object /\ listener.entry \in Entry \cup {Absent}
    BY <1>6 DEF MergeObject, Answers, ListenerState
  <2>2. cache' \in Cache
    BY <1>6, <2>1, ClearType, UpsertType DEF MergeObject
  <2>3. listener' \in ListenerState /\ Answers'
    BY <1>6 DEF MergeObject, IdleListener, ListenerState, Answers
  <2>4. QED
    BY <1>6, <2>2, <2>3 DEF MergeObject
<1>7. CASE InvalidateCaches
  BY <1>7, ClearType, BoundAssumption DEF InvalidateCaches, Answers
<1>8. QED
  BY <1>2, <1>3, <1>4, <1>5, <1>6, <1>7 DEF ListenerStep

LEMMA NextTyped == TInv /\ [Next]_vars => TInv'
<1> SUFFICES ASSUME TInv, [Next]_vars PROVE TInv'
  OBVIOUS
<1>1. CASE \E h \in Object : PhoneChanges(h)
  BY <1>1, PhoneTyped
<1>2. CASE PhoneResets
  BY <1>2, ResetTyped
<1>3. CASE \E k \in Key : Age(k) \/ FullAge(k) \/ \E t \in Task : ServeStale(k, t)
  BY <1>3, TimeTyped
<1>4. CASE \E t \in Task : TaskStep(t)
  BY <1>4, TaskTyped
<1>5. CASE \E c \in Client : ClientStep(c) \/ \E req \in Request : Begin(c, req)
  BY <1>5, ClientTyped, BeginTyped
<1>6. CASE ListenerStep \/ InvalidateCaches
  BY <1>6, ListenerTyped
<1>7. CASE UNCHANGED vars
  BY <1>7 DEF vars, TInv, TypeOK, Answers
<1>8. QED
  BY <1>1, <1>2, <1>3, <1>4, <1>5, <1>6, <1>7 DEF Next

\* Every variable keeps to its type, whatever the phone, the operations, the
\* refreshes and the events do (device.rs).
THEOREM TypeCorrect == Spec => []TypeOK
<1>1. TInv => TypeOK
  BY DEF TInv
<1>2. QED
  BY InitTyped, NextTyped, <1>1, PTL DEF Spec

-----------------------------------------------------------------------------
(* Who holds the gate.                                                     *)

LEMMA InitHolders == Init => Holders
BY HolderAssumption, SentinelAssumption DEF Init, Holders, IdleClient, IdleTask

\* A task that returns was the holder, or nobody was.
LEMMA ReturnHolders ==
  ASSUME TInv, Holders, NEW t \in Task, NEW updated, TaskReturns(t, updated),
         gate \in {None, t}, UNCHANGED client
  PROVE  Holders'
<1> USE HolderAssumption, SentinelAssumption DEF TInv, TypeOK
<1>1. \A u \in Task : task'[u] = IF u = t THEN IdleTask ELSE task[u]
  BY DEF TaskReturns
<1>2. gate' = None
  BY DEF TaskReturns
<1>3. QED
  BY <1>1, <1>2 DEF Holders, IdleTask

\* A task that opens, reads or finishes its listing becomes or stays the holder.
LEMMA HeldByTask ==
  ASSUME TInv, Holders, NEW t \in Task, gate \in {None, t}, gate' = t, UNCHANGED client,
         task'[t].pc \in {"validate", "scan", "finish"},
         \A u \in Task \ {t} : task'[u] = task[u]
  PROVE  Holders'
BY HolderAssumption, SentinelAssumption DEF Holders, TInv, TypeOK

LEMMA TaskHolders ==
  ASSUME TInv, Holders, NEW t \in Task, TaskStep(t)
  PROVE  Holders'
<1>0. task[t].pc \in {"validate", "scan", "finish"} => gate = t
  BY DEF Holders
<1>1. CASE TaskDrops(t)
  BY <1>1, ReturnHolders DEF TaskDrops
<1>2. CASE TaskOpens(t)
  <2> DEFINE handles == Handles(Children(device, task[t].key))
             pc == IF CanCountValidate(cache, task[t].key, task[t].epoch, Cardinality(handles))
                   THEN "validate" ELSE "scan"
  <2>1. task' = [task EXCEPT ![t].pc = pc, ![t].handles = handles]
    BY <1>2 DEF TaskOpens
  <2>2. pc \in {"validate", "scan"}
    OBVIOUS
  <2> HIDE DEF handles, pc
  <2>3. task'[t].pc = pc /\ \A u \in Task \ {t} : task'[u] = task[u]
    BY <2>1 DEF TInv, TypeOK, TaskState
  <2>4. QED
    BY <1>2, <2>2, <2>3, HeldByTask DEF TaskOpens
<1>3. CASE TaskValidates(t)
  BY <1>0, <1>3, ReturnHolders DEF TaskValidates
<1>4. CASE TaskScans(t)
  <2>1. task'[t].pc = "finish" /\ \A u \in Task \ {t} : task'[u] = task[u]
    BY <1>4 DEF TaskScans, TInv, TypeOK, TaskState
  <2>2. QED
    BY <1>0, <1>4, <2>1, HeldByTask DEF TaskScans
<1>5. CASE TaskFails(t)
  <2>1. task'[t].pc = "finish" /\ \A u \in Task \ {t} : task'[u] = task[u]
    BY <1>5 DEF TaskFails, TInv, TypeOK, TaskState
  <2>2. gate \in {None, t}
    BY <1>0, <1>5 DEF TaskFails, CannotScan
  <2>3. QED
    BY <1>5, <2>1, <2>2, HeldByTask DEF TaskFails
<1>6. CASE TaskFinishes(t)
  BY <1>0, <1>6, ReturnHolders DEF TaskFinishes
<1>7. QED
  BY <1>1, <1>2, <1>3, <1>4, <1>5, <1>6 DEF TaskStep

LEMMA ClientHolders ==
  ASSUME TInv, Holders, NEW c \in Client, ClientStep(c)
  PROVE  Holders'
<1> USE HolderAssumption, SentinelAssumption DEF TInv, TypeOK
<1>1. ASSUME Return(c), gate \in {None, c}, gate' = None, UNCHANGED task PROVE Holders'
  BY <1>1 DEF Return, IdleClient, Holders
<1>2. ASSUME NEW got, Proceed(c, got), gate = None, UNCHANGED task PROVE Holders'
  BY <1>2 DEF Proceed, Holders, ClientState
<1>3. CASE AnsweredMeanwhile(c)
  BY <1>1, <1>3 DEF AnsweredMeanwhile, Waiting
<1>4. CASE FetchListing(c)
  BY <1>2, <1>4 DEF FetchListing, Waiting
<1>5. CASE FetchMetadata(c)
  BY <1>2, <1>5 DEF FetchMetadata, Waiting
<1>6. CASE ReadBytes(c)
  BY <1>1, <1>6 DEF ReadBytes, Waiting
<1>7. CASE Mutate(c)
  BY <1>2, <1>7 DEF Mutate, Waiting
<1>8. CASE Fails(c)
  BY <1>1, <1>8 DEF Fails, Waiting
<1>9. CASE Apply(c)
  BY <1>1, <1>9 DEF Apply, Holders
<1>10. QED
  BY <1>3, <1>4, <1>5, <1>6, <1>7, <1>8, <1>9 DEF ClientStep

LEMMA NextHolders == TInv /\ Holders /\ [Next]_vars => Holders'
<1> SUFFICES ASSUME TInv, Holders, [Next]_vars PROVE Holders'
  OBVIOUS
<1>1. ASSUME UNCHANGED <<gate, client, task>> PROVE Holders'
  BY <1>1 DEF Holders
<1>2. CASE \E h \in Object : PhoneChanges(h)
  BY <1>1, <1>2 DEF PhoneChanges
<1>3. CASE PhoneResets
  BY <1>1, <1>3 DEF PhoneResets
<1>4. ASSUME NEW k \in Key, Age(k) \/ FullAge(k) PROVE Holders'
  BY <1>1, <1>4 DEF Age, FullAge
<1>5. ASSUME NEW k \in Key, NEW t \in Task, ServeStale(k, t) PROVE Holders'
  BY <1>5 DEF ServeStale, Holders, IdleTask, TInv, TypeOK, TaskState
<1>6. CASE \E t \in Task : TaskStep(t)
  BY <1>6, TaskHolders
<1>7. CASE \E c \in Client : ClientStep(c)
  BY <1>7, ClientHolders
<1>8. ASSUME NEW c \in Client, NEW req \in Request, Begin(c, req) PROVE Holders'
  BY <1>8 DEF Begin, Holders, TInv, TypeOK, ClientState
<1>9. CASE ListenerStep
  BY <1>1, <1>9 DEF ListenerStep, ObjectRemoved, StoreEvent, ObjectChanged, FetchObject, MergeObject
<1>10. CASE InvalidateCaches
  BY <1>1, <1>10 DEF InvalidateCaches
<1>11. CASE UNCHANGED vars
  BY <1>1, <1>11 DEF vars
<1>12. QED
  BY <1>2, <1>3, <1>4, <1>5, <1>6, <1>7, <1>8, <1>9, <1>10, <1>11 DEF Next

-----------------------------------------------------------------------------
(* What the cache says of the phone.                                       *)

LEMMA ChildAt ==
  ASSUME NEW dev, NEW k, NEW x \in Object
  PROVE  Children(dev, k)[x] = IF dev[x] # Absent /\ dev[x].parent = k THEN dev[x] ELSE Absent
BY DEF Children

LEMMA InitSemantics == Init => Semantics
<1> SUFFICES ASSUME Init PROVE Semantics
  OBVIOUS
<1>1. Forest
  BY InitialAssumption, FolderAssumption DEF Init, Forest, Handles
<1>2. Mixed(cache.listing)
  BY DEF Init, EmptyCache, Mixed
<1>3. RemovedAreGone
  BY DEF Init, RemovedAreGone
<1>4. \A t \in Task : Scanned(t)
  BY DEF Init, Scanned, IdleTask
<1>5. known = device /\ gate \notin Client
  BY HolderAssumption DEF Init
<1>6. QED
  BY <1>1, <1>2, <1>3, <1>4, <1>5 DEF Semantics

\* Steps that leave the phone and the actors alone.
LEMMA OnlyCacheAndEvents ==
  ASSUME Semantics, UNCHANGED <<device, used, known, gate, client, task>>,
         Mixed(cache.listing)', RemovedAreGone'
  PROVE  Semantics'
<1>1. Forest'
  BY DEF Semantics, Forest, Handles
<1>2. \A t \in Task : Scanned(t)'
  BY DEF Semantics, Scanned
<1>3. \A c \in Client : gate' = c => Done(client[c].req, client[c].got)'
  BY DEF Semantics, Done, Gone, Elsewhere, Created
<1>4. QED
  BY <1>1, <1>2, <1>3 DEF Semantics

\* Nothing new comes into the cached listings.
LEMMA MixedKept ==
  ASSUME Mixed(cache.listing), UNCHANGED <<device, used, known>>,
         \A k \in Key : cache'.listing[k] # None =>
           /\ cache.listing[k] # None
           /\ cache'.listing[k].content = cache.listing[k].content
  PROVE  Mixed(cache.listing)'
BY DEF Mixed, Agrees, Gone

LEMMA TailKept ==
  ASSUME events \in Seq(Event), events # <<>>, events' = Tail(events), RemovedAreGone,
         UNCHANGED <<device, used>>
  PROVE  RemovedAreGone'
<1>1. \A i \in DOMAIN events' : events'[i] = events[i + 1] /\ i + 1 \in DOMAIN events
  OBVIOUS
<1>2. QED
  BY <1>1 DEF RemovedAreGone, Gone

LEMMA ResetSemantics ==
  ASSUME TInv, Semantics, PhoneResets
  PROVE  Semantics'
<1>1. RemovedAreGone'
  <2>1. \A i \in DOMAIN events' :
          \/ i \in DOMAIN events /\ events'[i] = events[i]
          \/ events'[i].type = "reset"
    BY DEF PhoneResets, TInv, TypeOK
  <2>2. QED
    BY <2>1 DEF PhoneResets, Semantics, RemovedAreGone, Gone
<1>2. Mixed(cache.listing)'
  BY MixedKept DEF PhoneResets, Semantics, ghost
<1>3. QED
  BY <1>1, <1>2, OnlyCacheAndEvents DEF PhoneResets, ghost

LEMMA TimeSemantics ==
  ASSUME TInv, Semantics, NEW k \in Key, Age(k) \/ FullAge(k)
  PROVE  Semantics'
<1>1. cache.listing[k] \in Listing
  BY DEF Age, FullAge, TInv, TypeOK, Cache
<1>2. \A j \in Key : cache'.listing[j] # None =>
         /\ cache.listing[j] # None
         /\ cache'.listing[j].content = cache.listing[j].content
  BY <1>1 DEF Age, FullAge, TInv, TypeOK, Cache, Listing
<1>3. UNCHANGED <<device, used, known, events, gate, client, task>>
  BY DEF Age, FullAge, phone, ghost
<1>4. Mixed(cache.listing)'
  BY <1>2, <1>3, MixedKept DEF Semantics
<1>5. RemovedAreGone'
  BY <1>3 DEF Semantics, RemovedAreGone, Gone
<1>6. QED
  BY <1>3, <1>4, <1>5, OnlyCacheAndEvents

\* A listing without an object that is gone, and without what was cached below it.
LEMMA GoneBelow ==
  ASSUME TInv, Semantics, NEW h \in Object, Gone(h)
  PROVE  h \in CachedBelow(cache, h) /\ \A x \in CachedBelow(cache, h) : x \in Object /\ Gone(x)
<1> DEFINE T == {x \in Object : Gone(x)}
<1>1. ASSUME NEW f \in T \cap Folder, cache.listing[f] # None,
             NEW x \in Handles(cache.listing[f].content)
      PROVE  x \in T
  <2>1. f \in Object /\ f \in Key /\ f # RootKey /\ device[f] = Absent /\ x \in Object
    BY <1>1, FolderAssumption DEF Handles, Gone, Key
  <2>2. Agrees(f, x, cache.listing[f].content[x]) /\ cache.listing[f].content[x] # Absent
    BY <1>1, <2>1 DEF Semantics, Mixed, Handles
  <2>3. CASE Children(known, f)[x] # Absent
    <3>1. x \in Handles(known) /\ known[x].parent = f
      BY <2>1, <2>3, ChildAt DEF Handles
    <3>2. QED
      BY <2>1, <3>1 DEF Semantics, Forest, Gone
  <2>4. CASE Children(device, f)[x] # Absent
    <3>1. x \in Handles(device) /\ device[x].parent = f
      BY <2>1, <2>4, ChildAt DEF Handles
    <3>2. QED
      BY <2>1, <3>1 DEF Semantics, Forest, Handles
  <2>5. QED
    BY <2>1, <2>2, <2>3, <2>4 DEF Agrees
<1>2. h \in T
  OBVIOUS
<1>3. T \in SUBSET Object
  OBVIOUS
<1>4. \A f \in T \cap Folder :
        cache.listing[f] # None => Handles(cache.listing[f].content) \subseteq T
  BY <1>1
<1> HIDE DEF T
<1>5. h \in CachedBelow(cache, h) /\ CachedBelow(cache, h) \subseteq T
  BY <1>2, <1>3, <1>4, CachedBelowIsLeast
<1>6. QED
  BY <1>5 DEF T

\* Taking an object that is gone out of the cache keeps it right.
LEMMA RemoveKept ==
  ASSUME TInv, Semantics, NEW h \in Object, Gone(h), UNCHANGED <<device, used, known>>,
         cache' = RemoveObject(cache, h)
  PROVE  Mixed(cache.listing)'
<1> DEFINE S == CachedBelow(cache, h)
<1>1. \A k \in Key : cache'.listing[k] # None =>
        /\ cache.listing[k] # None
        /\ cache'.listing[k].content =
             [x \in Object |-> IF x \in S THEN Absent ELSE cache.listing[k].content[x]]
  BY RemoveObjectType DEF TInv, TypeOK
<1>2. \A x \in S : device[x] = Absent
  BY GoneBelow DEF Gone
<1> HIDE DEF S
<1>3. ASSUME NEW k \in Key, NEW x \in Object, cache'.listing[k] # None
      PROVE  Agrees(k, x, cache.listing[k].content[x])'
  <2>1. CASE x \in S
    <3>1. cache'.listing[k].content[x] = Absent
      BY <1>1, <1>3, <2>1
    <3>2. Children(device, k)[x] = Absent
      BY <1>2, <2>1, ChildAt
    <3>3. QED
      BY <3>1, <3>2 DEF Agrees
  <2>2. CASE x \notin S
    <3>1. cache'.listing[k].content[x] = cache.listing[k].content[x] /\ cache.listing[k] # None
      BY <1>1, <1>3, <2>2
    <3>2. QED
      BY <3>1 DEF Agrees, Gone, Semantics, Mixed
  <2>3. QED
    BY <2>1, <2>2
<1>4. QED
  BY <1>3 DEF Mixed

\* An entry that the phone has, or had when the last operation finished, may be merged.
LEMMA UpsertKept ==
  ASSUME TInv, Semantics, NEW h \in Object, NEW entry \in Entry,
         entry \in {device[h], known[h]}, UNCHANGED <<device, used, known>>,
         cache' = Upsert(cache, h, entry)
  PROVE  Mixed(cache.listing)'
<1>1. \A k \in Key : cache'.listing[k] # None =>
        /\ cache.listing[k] # None
        /\ cache'.listing[k].content =
             [x \in Object |-> IF x # h THEN cache.listing[k].content[x]
                               ELSE IF k = entry.parent THEN entry ELSE Absent]
  BY UpsertType DEF TInv, TypeOK
<1>2. entry # Absent
  BY HolderAssumption
<1>3. ASSUME NEW k \in Key, NEW x \in Object, cache'.listing[k] # None
      PROVE  Agrees(k, x, cache.listing[k].content[x])'
  <2>1. CASE x = h
    <3>1. cache'.listing[k].content[x] = IF k = entry.parent THEN entry ELSE Absent
      BY <1>1, <1>3, <2>1, ZenonT(60)
    <3>2. cache'.listing[k].content[x] \in {Children(device, k)[x], Children(known, k)[x]}
      BY <1>2, <2>1, <3>1, ChildAt
    <3>3. QED
      BY <3>2 DEF Agrees
  <2>2. CASE x # h
    <3>1. cache'.listing[k].content[x] = cache.listing[k].content[x] /\ cache.listing[k] # None
      BY <1>1, <1>3, <2>2
    <3>2. QED
      BY <3>1 DEF Agrees, Gone, Semantics, Mixed
  <2>3. QED
    BY <2>1, <2>2
<1>4. QED
  BY <1>3 DEF Mixed

LEMMA ListenerSemantics ==
  ASSUME TInv, Semantics, ~disturbed', ListenerStep \/ InvalidateCaches
  PROVE  Semantics'
<1> USE DEF phone, budget, ghost
<1>0. cache \in Cache /\ events \in Seq(Event) /\ RemovedAreGone /\ Mixed(cache.listing)
  BY DEF TInv, TypeOK, Semantics
<1>1. CASE ObjectRemoved
  <2> DEFINE h == Head(events).handle
  <2>1. h \in Object
    BY <1>0, <1>1, EventFields DEF ObjectRemoved, NextIs
  <2>2. Gone(h)
    <3>1. 1 \in DOMAIN events /\ events[1] = Head(events) /\ events[1].type = "removed"
      BY <1>0, <1>1 DEF ObjectRemoved, NextIs
    <3>2. QED
      BY <1>0, <3>1 DEF RemovedAreGone
  <2>3. UNCHANGED <<device, used, known>> /\ cache' = RemoveHandle(cache, h)
    BY <1>1 DEF ObjectRemoved
  <2> HIDE DEF h
  <2>4. Mixed(cache.listing)'
    <3>1. CASE cache' = cache
      BY <1>0, <2>3, <3>1, MixedKept
    <3>2. CASE cache' = RemoveObject(cache, h)
      BY <2>1, <2>2, <2>3, <3>2, RemoveKept
    <3>3. QED
      BY <1>0, <2>1, <2>3, <3>1, <3>2, RemoveHandleType
  <2>5. RemovedAreGone'
    BY <1>0, <1>1, TailKept DEF ObjectRemoved, NextIs
  <2>6. QED
    BY <1>1, <2>4, <2>5, OnlyCacheAndEvents DEF ObjectRemoved
<1>2. CASE StoreEvent
  <2>1. Mixed(cache.listing)'
    BY <1>0, <1>2, ClearType DEF StoreEvent, Mixed
  <2>2. RemovedAreGone'
    BY <1>0, <1>2, TailKept DEF StoreEvent, NextIs
  <2>3. QED
    BY <1>2, <2>1, <2>2, OnlyCacheAndEvents DEF StoreEvent
<1>3. CASE ObjectChanged
  <2>1. cache'.listing = cache.listing
    BY <1>0, <1>3, CancelRefreshesType DEF ObjectChanged
  <2>2. Mixed(cache.listing)'
    BY <1>0, <1>3, <2>1, MixedKept DEF ObjectChanged
  <2>3. RemovedAreGone'
    BY <1>0, <1>3, TailKept DEF ObjectChanged, NextIs
  <2>4. QED
    BY <1>3, <2>2, <2>3, OnlyCacheAndEvents DEF ObjectChanged
<1>4. CASE FetchObject
  <2>1. Mixed(cache.listing)'
    BY <1>0, <1>4, MixedKept DEF FetchObject
  <2>2. RemovedAreGone'
    BY <1>0, <1>4 DEF FetchObject, RemovedAreGone, Gone
  <2>3. QED
    BY <1>4, <2>1, <2>2, OnlyCacheAndEvents DEF FetchObject
<1>5. CASE MergeObject
  <2>1. listener.handle \in Object /\ listener.entry \in Entry \cup {Absent}
    BY <1>5 DEF MergeObject, Answers, TInv, TypeOK, ListenerState
  <2>2. Mixed(cache.listing)'
    <3>1. CASE listener.entry = Absent
      BY <1>0, <1>5, <3>1, ClearType DEF MergeObject, Mixed
    <3>2. CASE listener.entry # Absent
      <4>1. listener.entry \in {device[listener.handle], known[listener.handle]}
        BY <1>5, <3>2 DEF MergeObject
      <4>2. cache' = Upsert(cache, listener.handle, listener.entry)
        BY <1>5, <3>2 DEF MergeObject
      <4>3. UNCHANGED <<device, used, known>>
        BY <1>5 DEF MergeObject
      <4>4. QED
        BY <2>1, <3>2, <4>1, <4>2, <4>3, UpsertKept
    <3>3. QED
      BY <3>1, <3>2
  <2>3. RemovedAreGone'
    BY <1>0, <1>5 DEF MergeObject, RemovedAreGone, Gone
  <2>4. QED
    BY <1>5, <2>2, <2>3, OnlyCacheAndEvents DEF MergeObject
<1>6. CASE InvalidateCaches
  <2>1. Mixed(cache.listing)'
    BY <1>0, <1>6, ClearType DEF InvalidateCaches, Mixed
  <2>2. RemovedAreGone'
    BY <1>0, <1>6 DEF InvalidateCaches, RemovedAreGone, Gone
  <2>3. QED
    BY <1>6, <2>1, <2>2, OnlyCacheAndEvents DEF InvalidateCaches
<1>7. QED
  BY <1>1, <1>2, <1>3, <1>4, <1>5, <1>6 DEF ListenerStep

\* A refresh publishes what the phone holds: nothing else changes the phone while
\* the refresh holds the gate.
LEMMA TaskSemantics ==
  ASSUME TInv, Holders, Semantics, NEW t \in Task, TaskStep(t)
  PROVE  Semantics'
<1> USE DEF phone, budget, ghost
<1>1. /\ gate \in {None, t}
      /\ UNCHANGED <<device, used, events, known, client>>
      /\ gate' \in {None, t}
  BY DEF TaskStep, TaskDrops, TaskOpens, TaskValidates, TaskScans, TaskFails, TaskFinishes,
         TaskReturns, CannotScan, Holders
<1>2. known = device /\ gate \notin Client /\ gate' \notin Client
  BY <1>1, HolderAssumption DEF Semantics
<1>3. \A u \in Task \ {t} : task'[u] = task[u]
  BY DEF TaskStep, TaskDrops, TaskOpens, TaskValidates, TaskScans, TaskFails, TaskFinishes,
         TaskReturns, TInv, TypeOK
<1>4. cache \in Cache /\ task[t] \in TaskState /\ task[t].key \in Key
  BY DEF TInv, TypeOK, TaskState
<1>5. Mixed(cache.listing)'
  <2>1. CASE cache'.listing = cache.listing
    BY <1>1, <2>1, MixedKept DEF Semantics
  <2>2. CASE TaskValidates(t)
    <3> DEFINE counted == FinishCountValidation(cache, task[t].key, task[t].epoch)
    <3>1. /\ counted \in Cache
          /\ \A j \in Key : counted.listing[j] # None =>
               cache.listing[j] # None /\ counted.listing[j].content = cache.listing[j].content
      BY <1>4, FinishCountValidationType
    <3>2. cache' = DropToken(counted, t)
      BY <2>2 DEF TaskValidates, TaskReturns
    <3> HIDE DEF counted
    <3>3. cache'.listing = counted.listing
      BY <3>1, <3>2, DropTokenType
    <3>4. QED
      BY <1>1, <3>1, <3>3, MixedKept DEF Semantics
  <2>3. CASE TaskFinishes(t)
    <3>1. /\ Finished(t) \in Cache
          /\ \/ Finished(t).listing = cache.listing
             \/ /\ task[t].content # None
                /\ Finished(t).listing
                     = [cache.listing EXCEPT ![task[t].key] = Loaded(task[t].content)]
      BY <1>4, FinishRefreshType DEF Finished, TaskState
    <3>2. cache'.listing = Finished(t).listing
      BY <2>3, <3>1, DropTokenType DEF TaskFinishes, TaskReturns
    <3>3. CASE Finished(t).listing = cache.listing
      BY <2>1, <3>2, <3>3
    <3>4. CASE /\ task[t].content # None
               /\ cache'.listing
                    = [cache.listing EXCEPT ![task[t].key] = Loaded(task[t].content)]
      <4>1. task[t].content = Children(device, task[t].key)
        BY <2>3, <3>4 DEF TaskFinishes, Semantics, Scanned
      <4>2. Loaded(task[t].content).content = Children(device, task[t].key)
        BY <4>1 DEF Loaded
      <4>3. \A k \in Key : cache'.listing[k] =
              IF k = task[t].key THEN Loaded(task[t].content) ELSE cache.listing[k]
        BY <3>4 DEF TInv, TypeOK, Cache
      <4>4. QED
        BY <1>1, <4>2, <4>3 DEF Semantics, Mixed, Agrees, Gone
    <3>5. QED
      BY <3>1, <3>2, <3>3, <3>4
  <2>4. CASE TaskDrops(t)
    BY <1>4, <2>1, <2>4, DropTokenType DEF TaskDrops, TaskReturns
  <2>5. CASE TaskOpens(t) \/ TaskScans(t) \/ TaskFails(t)
    BY <2>1, <2>5 DEF TaskOpens, TaskScans, TaskFails
  <2>6. QED
    BY <2>2, <2>3, <2>4, <2>5 DEF TaskStep
<1>6. Scanned(t)'
  <2>1. CASE TaskDrops(t) \/ TaskValidates(t) \/ TaskFinishes(t)
    <3>1. task'[t] = IdleTask
      BY <2>1 DEF TaskDrops, TaskValidates, TaskFinishes, TaskReturns, TInv, TypeOK
    <3>2. QED
      BY <3>1 DEF Scanned, IdleTask
  <2>2. CASE TaskOpens(t)
    <3> DEFINE handles == Handles(Children(device, task[t].key))
               pc == IF CanCountValidate(cache, task[t].key, task[t].epoch, Cardinality(handles))
                     THEN "validate" ELSE "scan"
    <3>1. task' = [task EXCEPT ![t].pc = pc, ![t].handles = handles] /\ task[t].pc = "queued"
      BY <2>2 DEF TaskOpens
    <3>2. pc \in {"validate", "scan"}
      OBVIOUS
    <3>3. task[t].content = None
      BY <3>1 DEF Semantics, Scanned
    <3> HIDE DEF pc
    <3>4. /\ task'[t].pc = pc /\ task'[t].handles = handles /\ task'[t].key = task[t].key
          /\ task'[t].content = None
      BY <1>4, <3>1, <3>3 DEF TInv, TypeOK, TaskState
    <3>5. QED
      BY <1>1, <3>2, <3>4 DEF Scanned
  <2>3. CASE TaskScans(t)
    <3> DEFINE content == [h \in Object |-> IF h \in task[t].handles THEN device[h] ELSE Absent]
    <3>1. /\ task'[t].pc = "finish" /\ task'[t].key = task[t].key
          /\ task'[t].content = content
      BY <1>4, <2>3 DEF TaskScans, TInv, TypeOK, TaskState
    <3>2. content = Children(device, task[t].key)
      <4>1. task[t].handles = Handles(Children(device, task[t].key))
        BY <2>3 DEF TaskScans, Semantics, Scanned
      <4>2. \A h \in Object : h \in task[t].handles <=> device[h] # Absent /\ device[h].parent = task[t].key
        BY <4>1, ChildAt DEF Handles
      <4>3. QED
        BY <4>2 DEF Children
    <3>3. QED
      BY <1>1, <3>1, <3>2 DEF Scanned
  <2>4. CASE TaskFails(t)
    <3>1. task'[t].pc = "finish" /\ task'[t].content = task[t].content
      BY <1>4, <2>4 DEF TaskFails, TInv, TypeOK, TaskState
    <3>2. task[t].content = None
      BY <2>4 DEF TaskFails, CannotScan, Semantics, Scanned
    <3>3. QED
      BY <3>1, <3>2 DEF Scanned
  <2>5. QED
    BY <2>1, <2>2, <2>3, <2>4 DEF TaskStep
<1>7. \A u \in Task : Scanned(u)'
  BY <1>1, <1>3, <1>6 DEF Semantics, Scanned
<1>8. Forest' /\ RemovedAreGone'
  BY <1>1 DEF Semantics, Forest, RemovedAreGone, Gone, Handles
<1>9. QED
  BY <1>1, <1>2, <1>5, <1>7, <1>8 DEF Semantics

\* Below(device, h) holds h, what is in a folder below h, and nothing else.
LEMMA BelowStep ==
  ASSUME NEW h \in Object, NEW x \in Object
  PROVE  /\ h \in Below(device, h)
         /\ x \in Below(device, h) =>
              x = h \/ (device[x] # Absent /\ device[x].parent \in Below(device, h))
         /\ device[x] # Absent /\ device[x].parent \in Below(device, h) => x \in Below(device, h)
<1> DEFINE B == Below(device, h)
           Closed(S) == h \in S /\ \A y \in Object :
                          device[y] # Absent /\ device[y].parent \in S => y \in S
<1>1. B = {y \in Object : \A S \in SUBSET Object : Closed(S) => y \in S}
  BY DEF Below
<1> HIDE DEF B
<1>2. h \in B
  BY <1>1
<1>3. ASSUME NEW y \in Object, device[y] # Absent, device[y].parent \in B
      PROVE  y \in B
  <2>1. ASSUME NEW S \in SUBSET Object, Closed(S) PROVE y \in S
    BY <1>1, <1>3, <2>1
  <2>2. QED
    BY <1>1, <2>1
<1>4. ASSUME x \in B, x # h, ~(device[x] # Absent /\ device[x].parent \in B)
      PROVE  FALSE
  <2> DEFINE S == B \ {x}
  <2>1. S \in SUBSET Object /\ h \in S
    BY <1>1, <1>2, <1>4
  <2>2. \A y \in Object : device[y] # Absent /\ device[y].parent \in S => y \in S
    BY <1>3, <1>4
  <2>3. x \in S
    BY <1>1, <1>4, <2>1, <2>2
  <2>4. QED
    BY <2>3
<1>5. QED
  BY <1>2, <1>3, <1>4 DEF B

LEMMA DeletedAt ==
  ASSUME NEW h \in Object, NEW x \in Object
  PROVE  Deleted(h)[x] = IF x \in Below(device, h) THEN Absent ELSE device[x]
BY DEF Deleted

\* What a mutation leaves of the phone: its handle h changes in one way or another,
\* and only a deletion takes other objects with it.
LEMMA MutationEffect ==
  ASSUME TInv, NEW req \in Request, NEW h \in Object, Mutates(req, h)
  PROVE  /\ req.op \in {"delete", "rename", "move", "upload", "create_folder"}
         /\ req.op = "delete" =>
              \A x \in Object : device'[x] = IF x \in Below(device, h) THEN Absent ELSE device[x]
         /\ req.op # "delete" =>
              device'[h] # Absent /\ \A x \in Object \ {h} : device'[x] = device[x]
         /\ req.op \in {"delete", "rename", "move"} => h = req.handle /\ device[h] # Absent
         /\ req.op = "rename" => device'[h].parent = device[h].parent
         /\ req.op \in {"move", "upload", "create_folder"} =>
              device'[h].parent = req.key /\ req.key \in {RootKey} \cup Handles(device)
         /\ req.op \in {"upload", "create_folder"} => h \notin used
<1>1. device \in Content /\ device' \in Content
  BY MutatesType DEF TInv, TypeOK
<1>2. CASE req.op = "delete"
  <2>1. h = req.handle /\ device[h] # Absent /\ device' = Deleted(h)
    BY <1>2 DEF Mutates
  <2>2. QED
    BY <1>2, <2>1, DeletedAt
<1>3. CASE req.op = "rename"
  <2>1. /\ h = req.handle /\ device[h] # Absent
        /\ device' = [device EXCEPT ![h].name = req.name]
    BY <1>3 DEF Mutates
  <2>2. device[h] \in Entry /\ device'[h] = [device[h] EXCEPT !.name = req.name]
    BY <1>1, <2>1 DEF Content
  <2>3. device'[h] \in Entry /\ device'[h].parent = device[h].parent
    BY <1>3, <2>2, RequestFields DEF Entry
  <2>4. \A x \in Object \ {h} : device'[x] = device[x]
    BY <1>1, <2>1 DEF Content
  <2>5. QED
    BY <1>3, <2>1, <2>3, <2>4, HolderAssumption
<1>4. CASE req.op = "move"
  <2>1. /\ h = req.handle /\ device[h] # Absent /\ IsDirectory(req.key)
        /\ device' = [device EXCEPT ![h].parent = req.key]
    BY <1>4 DEF Mutates
  <2>2. device[h] \in Entry /\ device'[h] = [device[h] EXCEPT !.parent = req.key]
    BY <1>1, <2>1 DEF Content
  <2>3. device'[h] \in Entry /\ device'[h].parent = req.key
    BY <1>4, <2>2, RequestFields DEF Entry
  <2>4. \A x \in Object \ {h} : device'[x] = device[x]
    BY <1>1, <2>1 DEF Content
  <2>5. QED
    BY <1>4, <2>1, <2>3, <2>4, HolderAssumption DEF IsDirectory
<1>5. CASE req.op \in {"upload", "create_folder"}
  <2>1. /\ h \notin used /\ IsDirectory(req.key)
        /\ device' = Put(h, [parent |-> req.key, name |-> req.name])
    BY <1>5 DEF Mutates
  <2>2. device'[h] = [parent |-> req.key, name |-> req.name]
    BY <1>1, <2>1 DEF Put, Content
  <2>3. device'[h] \in Entry /\ device'[h].parent = req.key
    BY <1>5, <2>2, RequestFields DEF Entry
  <2>4. \A x \in Object \ {h} : device'[x] = device[x]
    BY <1>1, <2>1 DEF Put, Content
  <2>5. QED
    BY <1>5, <2>1, <2>3, <2>4, HolderAssumption DEF IsDirectory
<1>6. QED
  BY <1>2, <1>3, <1>4, <1>5 DEF Mutates

\* The phone after a mutation: still a forest, and what is gone stays gone.
LEMMA MutationForest ==
  ASSUME TInv, Forest, known = device, NEW req \in Request, NEW h \in Object,
         Mutates(req, h), used' = used \cup {h}, UNCHANGED known
  PROVE  /\ Forest'
         /\ \A x : Gone(x) => Gone(x)'
         /\ req.op = "delete" => \A x \in Below(device, h) : Gone(x)'
<1>1. Handles(device') \subseteq used' /\ Handles(known') \subseteq used'
  BY MutationEffect DEF Forest, Handles
<1>2. ASSUME NEW x \in Handles(device')
      PROVE  device'[x].parent \in {RootKey} \cup Handles(device')
  <2>1. CASE req.op = "delete"
    <3>1. x \in Handles(device) /\ x \notin Below(device, h) /\ device'[x] = device[x]
      BY <1>2, <2>1, MutationEffect DEF Handles
    <3>2. device[x].parent \in {RootKey} \cup Handles(device)
      BY <3>1 DEF Forest
    <3>3. device[x].parent \notin Below(device, h)
      BY <3>1, BelowStep DEF Handles
    <3>4. QED
      BY <2>1, <3>1, <3>2, <3>3, MutationEffect DEF Handles
  <2>2. CASE req.op # "delete"
    <3>1. \A y \in Handles(device) : y \in Handles(device')
      BY <2>2, MutationEffect DEF Handles
    <3>2. CASE x # h \/ req.op = "rename"
      <4>1. x \in Handles(device) /\ device'[x].parent = device[x].parent
        BY <1>2, <2>2, <3>2, MutationEffect DEF Handles
      <4>2. QED
        BY <3>1, <4>1 DEF Forest
    <3>3. CASE x = h /\ req.op # "rename"
      BY <2>2, <3>1, <3>3, MutationEffect
    <3>4. QED
      BY <3>2, <3>3
  <2>3. QED
    BY <2>1, <2>2
<1>3. ASSUME NEW x \in Handles(known'), known'[x].parent \in Object,
             device'[known'[x].parent] = Absent
      PROVE  device'[x] = Absent
  <2> DEFINE p == device[x].parent
  <2>1. x \in Handles(device) /\ p \in Handles(device) /\ device'[p] = Absent
    BY <1>3, FolderAssumption DEF Forest, Handles
  <2>2. req.op = "delete" /\ p \in Below(device, h)
    BY <2>1, MutationEffect DEF Handles
  <2>3. x \in Below(device, h)
    BY <2>1, <2>2, BelowStep DEF Handles
  <2>4. QED
    BY <2>1, <2>2, <2>3, MutationEffect DEF Handles
<1>4. Forest'
  BY <1>1, <1>2, <1>3 DEF Forest
<1>5. ASSUME NEW x, Gone(x) PROVE Gone(x)'
  <2>1. x \in Object /\ x \in used /\ device[x] = Absent
    BY <1>5 DEF Gone, TInv, TypeOK
  <2>2. device'[x] = Absent
    BY <2>1, MutationEffect
  <2>3. QED
    BY <2>1, <2>2 DEF Gone
<1>6. ASSUME req.op = "delete", NEW x \in Below(device, h) PROVE Gone(x)'
  <2>1. x \in Object /\ device'[x] = Absent
    BY <1>6, MutationEffect DEF Below
  <2>2. x = h \/ device[x] # Absent
    BY <1>6, <2>1, BelowStep
  <2>3. x \in used'
    BY <2>1, <2>2 DEF Forest, Handles
  <2>4. QED
    BY <2>1, <2>3 DEF Gone
<1>7. QED
  BY <1>4, <1>5, <1>6

\* What the operation that holds the gate has done.
LEMMA MutationDone ==
  ASSUME TInv, Forest, known = device, NEW req \in Request, NEW h \in Object,
         Mutates(req, h), used' = used \cup {h}, UNCHANGED known,
         NEW got, got = None \/ (req.op = "create_folder" /\ got = Children(device', req.key))
  PROVE  Done(req, got)'
<1>1. CASE req.op = "delete"
  <2>1. h = req.handle /\ \A x \in Below(device, h) : Gone(x)'
    BY <1>1, MutationEffect, MutationForest
  <2>2. Gone(h)'
    BY <2>1, BelowStep
  <2>3. ASSUME NEW x \in Object \ {h}, device'[x] # known[x]
        PROVE  /\ Gone(x)' /\ known[x] # Absent /\ known[x].parent \in Object
               /\ Gone(known[x].parent)'
    <3>1. x \in Below(device, h)
      BY <1>1, <2>3, MutationEffect
    <3>2. device[x] # Absent /\ device[x].parent \in Below(device, h)
      BY <2>3, <3>1, BelowStep
    <3>3. QED
      BY <2>1, <3>1, <3>2 DEF Below
  <2>4. QED
    BY <1>1, <2>1, <2>2, <2>3 DEF Done
<1>2. CASE req.op = "rename"
  BY <1>2, MutationEffect DEF Done, Elsewhere
<1>3. CASE req.op = "move"
  BY <1>3, MutationEffect DEF Done, Elsewhere
<1>4. CASE req.op \in {"upload", "create_folder"}
  <2>1. known[h] = Absent
    BY <1>4, MutationEffect DEF Forest, Handles
  <2>2. Created(req.key)'
    BY <1>4, <2>1, MutationEffect DEF Created, Elsewhere
  <2>3. QED
    BY <1>4, <2>2 DEF Done
<1>5. QED
  BY <1>1, <1>2, <1>3, <1>4, MutationEffect

LEMMA MutateSemantics ==
  ASSUME TInv, Holders, Semantics, NEW c \in Client, Mutate(c)
  PROVE  Semantics'
<1> USE DEF ghost, budget
<1>0. PICK req \in Request : req = client[c].req
  BY DEF TInv, TypeOK, ClientState
<1>1. PICK h \in Object :
        /\ Waiting(c, {"delete", "rename", "move", "upload", "create_folder"})
        /\ Mutates(req, h)
        /\ \E got \in After(req) : Proceed(c, got)
        /\ used' = used \cup {h}
        /\ Announce(Echo(req, h))
        /\ UNCHANGED <<cache, task, listener, budget, ghost>>
  BY <1>0 DEF Mutate
<1>2. PICK got \in After(req) : Proceed(c, got)
  BY <1>1
<1>3. client[c] \in ClientState
  BY DEF TInv, TypeOK, ClientState
<1>4. gate = None /\ gate' = c /\ known = device /\ known' = known
  BY <1>1, <1>2, HolderAssumption DEF Waiting, Proceed, Semantics
<1>5. got = None \/ (req.op = "create_folder" /\ got = Children(device', req.key))
  BY <1>2 DEF After
<1>6. client'[c].req = req /\ client'[c].got = got
  BY <1>0, <1>2, <1>3 DEF Proceed, TInv, TypeOK, ClientState
<1>7. /\ Forest'
      /\ \A x : Gone(x) => Gone(x)'
      /\ req.op = "delete" => \A x \in Below(device, h) : Gone(x)'
  BY <1>1, <1>4, MutationForest DEF Semantics
<1>8. Done(req, got)'
  BY <1>1, <1>4, <1>5, MutationDone DEF Semantics
<1>9. Mixed(cache.listing)'
  BY <1>1, <1>4, <1>7 DEF Semantics, Mixed, Agrees
<1>10. RemovedAreGone'
  <2>1. Echo(req, h).type = "removed" => Gone(Echo(req, h).handle)'
    <3>1. Echo(req, h).type = "removed" => req.op = "delete" /\ Echo(req, h).handle = h
      BY DEF Echo
    <3>2. h \in Below(device, h)
      BY BelowStep
    <3>3. QED
      BY <1>7, <3>1, <3>2
  <2>2. ASSUME NEW i \in DOMAIN events'
        PROVE  (i \in DOMAIN events /\ events'[i] = events[i]) \/ events'[i] = Echo(req, h)
    BY <1>1, <2>2 DEF Announce, TInv, TypeOK
  <2>3. QED
    BY <1>7, <2>1, <2>2 DEF RemovedAreGone, Semantics
<1>11. \A t \in Task : Scanned(t)'
  <2>1. ASSUME NEW t \in Task PROVE task[t].pc \notin {"scan", "finish"}
    BY <1>4, SentinelAssumption DEF Holders
  <2>2. QED
    BY <1>1, <2>1 DEF Semantics, Scanned
<1>12. \A d \in Client : gate' = d => Done(client[d].req, client[d].got)'
  BY <1>4, <1>6, <1>8
<1>13. QED
  BY <1>4, <1>7, <1>9, <1>10, <1>11, <1>12 DEF Semantics

\* Updating the cache after a successful operation makes it right for the phone as it
\* is now.
LEMMA ApplyMixed ==
  ASSUME TInv, Semantics, NEW req \in Request, NEW got, Answer(req, got), Done(req, got),
         UNCHANGED <<device, used>>, known' = device, cache' = Updated(req, got)
  PROVE  Mixed(cache.listing)'
<1>0. cache \in Cache /\ Mixed(cache.listing)
  BY DEF TInv, TypeOK, Semantics
<1> SUFFICES ASSUME NEW k \in Key, NEW x \in Object, cache'.listing[k] # None
             PROVE  \/ cache'.listing[k].content[x] = Children(device, k)[x]
                    \/ Gone(k) /\ Gone(x)
  BY DEF Mixed, Agrees, Gone
<1>1. ASSUME NEW j \in Key, NEW content \in Content, content = Children(device, j),
             cache' = StoreListing(cache, j, content),
             k # j /\ cache.listing[k] # None =>
               \/ cache.listing[k].content[x] = Children(device, k)[x]
               \/ Gone(k) /\ Gone(x)
      PROVE  \/ cache'.listing[k].content[x] = Children(device, k)[x]
             \/ Gone(k) /\ Gone(x)
  <2>1. cache'.listing = [cache.listing EXCEPT ![j] = Loaded(content)]
    BY <1>0, <1>1, StoreListingType
  <2>2. cache'.listing[k] = IF k = j THEN Loaded(content) ELSE cache.listing[k]
    BY <1>0, <2>1 DEF Cache
  <2>3. Loaded(content).content = Children(device, j)
    BY <1>1 DEF Loaded
  <2>4. QED
    BY <1>1, <2>2, <2>3
<1>2. cache.listing[k] # None => Agrees(k, x, cache.listing[k].content[x])
  BY <1>0 DEF Mixed
<1>3. CASE req.op = "list"
  <2>1. known = device /\ got = Children(device, req.key) /\ got \in Content /\ req.key \in Key
    BY <1>3, RequestFields DEF Done, Answer
  <2>2. cache' = StoreListing(cache, req.key, got)
    BY <1>3, UpdatedCases
  <2>3. cache.listing[k] # None =>
          cache.listing[k].content[x] = Children(device, k)[x] \/ (Gone(k) /\ Gone(x))
    BY <1>2, <2>1 DEF Agrees
  <2>4. QED
    BY <1>1, <2>1, <2>2, <2>3
<1>4. CASE req.op = "metadata"
  <2>1. req.handle \in Object /\ known = device /\ got = device[req.handle] /\ got \in Entry
    BY <1>4, RequestFields DEF Done, Answer
  <2>2. cache' = Upsert(cache, req.handle, got)
    BY <1>4, UpdatedCases
  <2>3. Mixed(cache.listing)'
    BY <2>1, <2>2, UpsertKept
  <2>4. Agrees(k, x, cache.listing[k].content[x])'
    BY <2>3 DEF Mixed
  <2>5. QED
    BY <2>4 DEF Agrees, Gone
<1>5. CASE req.op = "delete"
  <2> DEFINE S == CachedBelow(cache, req.handle)
  <2>1. req.handle \in Object /\ Gone(req.handle) /\ cache' = RemoveObject(cache, req.handle)
    BY <1>5, RequestFields, UpdatedCases DEF Done
  <2>2. /\ cache.listing[k] # None
        /\ cache'.listing[k].content =
             [y \in Object |-> IF y \in S THEN Absent ELSE cache.listing[k].content[y]]
    BY <1>0, <2>1, RemoveObjectType
  <2>3. req.handle \in S /\ \A y \in S : device[y] = Absent
    BY <2>1, GoneBelow DEF Gone
  <2> HIDE DEF S
  <2>4. CASE x \in S
    <3>1. cache'.listing[k].content[x] = Absent
      BY <2>2, <2>4
    <3>2. Children(device, k)[x] = Absent
      BY <2>3, <2>4, ChildAt
    <3>3. QED
      BY <3>1, <3>2
  <2>5. CASE x \notin S
    <3>1. cache'.listing[k].content[x] = cache.listing[k].content[x] /\ x # req.handle
      BY <2>2, <2>3, <2>5
    <3>2. \/ device[x] = known[x]
          \/ Gone(x) /\ known[x] # Absent /\ Gone(known[x].parent)
      BY <1>5, <3>1 DEF Done
    <3>3. \/ Children(known, k)[x] = Children(device, k)[x]
          \/ Gone(k) /\ Gone(x)
      BY <3>2, ChildAt DEF Gone
    <3>4. QED
      BY <1>2, <2>2, <3>1, <3>3 DEF Agrees
  <2>6. QED
    BY <2>4, <2>5
<1>6. CASE req.op = "rename"
  <2> DEFINE h == req.handle
  <2>1. h \in Object /\ cache' = InvalidateObject(cache, h)
    BY <1>6, RequestFields, UpdatedCases
  <2>2. /\ cache.listing[k] # None /\ cache'.listing[k] = cache.listing[k]
        /\ cache.listing[k].content[h] = Absent
    BY <1>0, <2>1, InvalidateObjectType
  <2>3. /\ device[h] # Absent /\ known[h] # Absent /\ device[h].parent = known[h].parent
        /\ Elsewhere(h)
    BY <1>6 DEF Done
  <2> HIDE DEF h
  <2>4. CASE x = h
    BY <1>2, <2>2, <2>3, <2>4, ChildAt DEF Agrees
  <2>5. CASE x # h
    BY <1>2, <2>2, <2>3, <2>5, ChildAt DEF Agrees, Elsewhere
  <2>6. QED
    BY <2>4, <2>5
<1>7. CASE req.op = "move"
  <2> DEFINE h == req.handle
  <2>1. /\ h \in Object /\ req.key \in Key
        /\ cache' = InvalidateDirectory(InvalidateObject(cache, h), req.key)
    BY <1>7, RequestFields, UpdatedCases
  <2>2. InvalidateObject(cache, h) \in Cache
    BY <1>0, <2>1, InvalidateObjectType
  <2>3. cache'.listing = [InvalidateObject(cache, h).listing EXCEPT ![req.key] = None]
    BY <2>1, <2>2, InvalidateDirectoryType
  <2>4. k # req.key /\ InvalidateObject(cache, h).listing[k] = cache'.listing[k]
    BY <2>2, <2>3 DEF Cache
  <2>5. /\ cache.listing[k] # None /\ cache'.listing[k] = cache.listing[k]
        /\ cache.listing[k].content[h] = Absent
    BY <1>0, <2>1, <2>4, InvalidateObjectType
  <2>6. device[h] # Absent /\ device[h].parent = req.key /\ Elsewhere(h)
    BY <1>7 DEF Done
  <2> HIDE DEF h
  <2>7. CASE x = h
    BY <2>4, <2>5, <2>6, <2>7, ChildAt
  <2>8. CASE x # h
    BY <1>2, <2>5, <2>6, <2>8, ChildAt DEF Agrees, Elsewhere
  <2>9. QED
    BY <2>7, <2>8
<1>8. CASE req.op \in {"upload", "create_folder"}
  <2>1. req.key \in Key
    BY <1>8, RequestFields
  <2>2. k # req.key /\ cache.listing[k] # None =>
          cache.listing[k].content[x] = Children(device, k)[x] \/ (Gone(k) /\ Gone(x))
    <3>1. PICK h \in Object : /\ known[h] = Absent /\ device[h] # Absent
                              /\ device[h].parent = req.key /\ Elsewhere(h)
      BY <1>8 DEF Done, Created
    <3>2. k # req.key => Children(known, k)[x] = Children(device, k)[x]
      BY <3>1, ChildAt DEF Elsewhere
    <3>3. QED
      BY <1>2, <3>2 DEF Agrees
  <2>3. CASE cache' = InvalidateDirectory(cache, req.key)
    <3>1. cache'.listing = [cache.listing EXCEPT ![req.key] = None]
      BY <1>0, <2>1, <2>3, InvalidateDirectoryType
    <3>2. k # req.key /\ cache'.listing[k] = cache.listing[k]
      BY <1>0, <3>1 DEF Cache
    <3>3. QED
      BY <2>2, <3>2
  <2>4. CASE /\ cache' = StoreListing(cache, req.key, got) /\ got = Children(device, req.key)
             /\ got \in Content
    BY <1>1, <2>1, <2>2, <2>4
  <2>5. QED
    BY <1>8, <2>3, <2>4, UpdatedCases DEF Done, Answer
<1>9. QED
  BY <1>3, <1>4, <1>5, <1>6, <1>7, <1>8 DEF Done

LEMMA ClientSemantics ==
  ASSUME TInv, Holders, Semantics, NEW c \in Client, ClientStep(c), ~disturbed'
  PROVE  Semantics'
<1> USE DEF phone, budget, ghost
<1>1. ASSUME Return(c), gate = None, UNCHANGED <<phone, cache, gate, task, known>>
      PROVE  Semantics'
  <2>1. Forest' /\ RemovedAreGone' /\ Mixed(cache.listing)'
    BY <1>1, MixedKept DEF Semantics, Forest, RemovedAreGone, Gone, Handles
  <2>2. \A t \in Task : Scanned(t)'
    BY <1>1 DEF Semantics, Scanned
  <2>3. gate' \notin Client /\ known' = device'
    BY <1>1, HolderAssumption DEF Semantics
  <2>4. QED
    BY <2>1, <2>2, <2>3 DEF Semantics
<1>2. ASSUME NEW got, Proceed(c, got), gate = None, UNCHANGED <<phone, cache, task, known>>,
             Done(client[c].req, got)
      PROVE  Semantics'
  <2>1. Forest' /\ RemovedAreGone' /\ Mixed(cache.listing)'
    BY <1>2, MixedKept DEF Semantics, Forest, RemovedAreGone, Gone, Handles
  <2>2. \A t \in Task : Scanned(t)'
    BY <1>2 DEF Semantics, Scanned
  <2>3. gate' = c /\ client'[c].req = client[c].req /\ client'[c].got = got
    BY <1>2 DEF Proceed, TInv, TypeOK, ClientState
  <2>4. Done(client[c].req, client[c].got)'
    BY <1>2, <2>3 DEF Done, Gone, Elsewhere, Created
  <2>5. QED
    BY <2>1, <2>2, <2>3, <2>4 DEF Semantics
<1>3. CASE AnsweredMeanwhile(c)
  BY <1>1, <1>3 DEF AnsweredMeanwhile, Waiting
<1>4. gate = None => known = device
  BY HolderAssumption DEF Semantics
<1>5. CASE FetchListing(c)
  <2>1. Done(client[c].req, Children(device, client[c].req.key)) /\ gate = None
    BY <1>4, <1>5 DEF FetchListing, Waiting, Done
  <2>2. QED
    BY <1>2, <1>5, <2>1 DEF FetchListing
<1>6. CASE FetchMetadata(c)
  <2>1. Done(client[c].req, device[client[c].req.handle]) /\ gate = None
    BY <1>4, <1>6 DEF FetchMetadata, Waiting, Done
  <2>2. QED
    BY <1>2, <1>6, <2>1 DEF FetchMetadata
<1>7. CASE ReadBytes(c)
  BY <1>1, <1>7 DEF ReadBytes, Waiting
<1>8. CASE Mutate(c)
  BY <1>8, MutateSemantics
<1>9. CASE Fails(c)
  <2>1. UNCHANGED <<phone, changes, ghost>>
    BY <1>9 DEF Fails
  <2>2. QED
    BY <1>1, <1>9, <2>1 DEF Fails, Waiting
<1>10. CASE Apply(c)
  <2> DEFINE req == client[c].req
             got == client[c].got
  <2>1. /\ gate = c /\ gate' = None /\ Return(c)
        /\ UNCHANGED <<device, used, events, task>> /\ known' = device
        /\ cache' = Updated(req, got)
    BY <1>10 DEF Apply, Holders
  <2>2. req \in Request /\ Answer(req, got) /\ Done(req, got)
    BY <1>10, <2>1 DEF Apply, TInv, TypeOK, ClientState, Answers, Semantics
  <2> HIDE DEF req, got
  <2>3. Mixed(cache.listing)'
    BY <2>1, <2>2, ApplyMixed
  <2>4. Forest'
    BY <2>1, FolderAssumption DEF Semantics, Forest, Handles
  <2>5. RemovedAreGone' /\ \A t \in Task : Scanned(t)'
    BY <2>1 DEF Semantics, RemovedAreGone, Gone, Scanned
  <2>6. gate' \notin Client /\ known' = device'
    BY <2>1, HolderAssumption
  <2>7. QED
    BY <2>3, <2>4, <2>5, <2>6 DEF Semantics
<1>11. QED
  BY <1>3, <1>5, <1>6, <1>7, <1>8, <1>9, <1>10 DEF ClientStep

LEMMA NextSemantics ==
  ASSUME TInv, Holders, ~disturbed => Semantics, [Next]_vars
  PROVE  ~disturbed' => Semantics'
<1> SUFFICES ASSUME ~disturbed' PROVE Semantics'
  OBVIOUS
<1>1. Semantics
  BY ZenonT(60)
     DEF Next, vars, PhoneChanges, PhoneResets, Age, FullAge, ServeStale, TaskStep, TaskDrops,
         TaskOpens, TaskValidates, TaskScans, TaskFails, TaskFinishes, ClientStep,
         AnsweredMeanwhile, FetchListing, FetchMetadata, ReadBytes, Mutate, Fails, Apply, Begin,
         ListenerStep, ObjectRemoved, StoreEvent, ObjectChanged, FetchObject, MergeObject,
         InvalidateCaches, ghost, TInv, TypeOK
<1>2. CASE \E h \in Object : PhoneChanges(h)
  BY <1>2 DEF PhoneChanges
<1>3. CASE PhoneResets
  BY <1>1, <1>3, ResetSemantics
<1>4. ASSUME NEW k \in Key, Age(k) \/ FullAge(k) PROVE Semantics'
  BY <1>1, <1>4, TimeSemantics
<1>5. ASSUME NEW k \in Key, NEW t \in Task, ServeStale(k, t) PROVE Semantics'
  <2>1. UNCHANGED <<device, used, known, events, gate, client>>
    BY <1>5 DEF ServeStale, phone, ghost
  <2>2. cache'.listing = cache.listing
    BY <1>5, BeginRefreshType DEF ServeStale, TInv, TypeOK
  <2>3. Forest' /\ RemovedAreGone' /\ Mixed(cache.listing)'
    BY <1>1, <2>1, <2>2, MixedKept DEF Semantics, Forest, RemovedAreGone, Gone, Handles
  <2>4. \A u \in Task : Scanned(u)'
    BY <1>1, <1>5, <2>1, SMTT(30)
    DEF ServeStale, Semantics, Scanned, IdleTask, TInv, TypeOK, TaskState
  <2>5. \A c \in Client : gate' = c => Done(client[c].req, client[c].got)'
    BY <1>1, <2>1 DEF Semantics, Done, Gone, Elsewhere, Created
  <2>6. QED
    BY <1>1, <2>1, <2>3, <2>4, <2>5 DEF Semantics
<1>6. CASE \E t \in Task : TaskStep(t)
  BY <1>1, <1>6, TaskSemantics
<1>7. CASE \E c \in Client : ClientStep(c)
  BY <1>1, <1>7, ClientSemantics
<1>8. ASSUME NEW c \in Client, NEW req \in Request, Begin(c, req) PROVE Semantics'
  <2>1. UNCHANGED <<device, used, known, events, gate, task>>
    BY <1>8 DEF Begin, phone, ghost
  <2>2. cache'.listing = cache.listing
    BY <1>8, CancelRefreshesType DEF Begin, CancelledForeground, TInv, TypeOK
  <2>3. Forest' /\ RemovedAreGone' /\ Mixed(cache.listing)' /\ \A t \in Task : Scanned(t)'
    BY <1>1, <2>1, <2>2, MixedKept, SMTT(30)
    DEF Semantics, Forest, RemovedAreGone, Gone, Scanned, Handles
  <2>4. ASSUME NEW d \in Client, gate' = d PROVE Done(client[d].req, client[d].got)'
    <3>1. client'[d] = client[d]
      BY <1>8, <2>1, <2>4 DEF Begin, Holders, TInv, TypeOK
    <3>2. QED
      BY <1>1, <2>1, <2>4, <3>1 DEF Semantics, Done, Gone, Elsewhere, Created
  <2>5. QED
    BY <1>1, <2>1, <2>3, <2>4 DEF Semantics
<1>9. CASE ListenerStep \/ InvalidateCaches
  BY <1>1, <1>9, ListenerSemantics
<1>10. CASE UNCHANGED vars
  <2>1. Mixed(cache.listing)' /\ RemovedAreGone'
    BY <1>1, <1>10, MixedKept DEF vars, Semantics, RemovedAreGone, Gone
  <2>2. QED
    BY <1>1, <1>10, <2>1, OnlyCacheAndEvents DEF vars
<1>11. QED
  BY <1>2, <1>3, <1>4, <1>5, <1>6, <1>7, <1>8, <1>9, <1>10 DEF Next

LEMMA Invariance == Spec => []IInv
<1>1. Init => IInv
  BY InitTyped, InitHolders, InitSemantics DEF IInv
<1>2. IInv /\ [Next]_vars => IInv'
  BY NextTyped, NextHolders, NextSemantics DEF IInv
<1>3. QED
  BY <1>1, <1>2, PTL DEF Spec

\* Whatever uploads, deletions, renames, moves, refreshes, count validations and events
\* overlap, for any number of operations, refreshes and objects: the cached listing of a
\* directory the phone has is what the phone would answer (device.rs list .. upload_file).
THEOREM CoherentAlways == Spec => []Coherent
<1>1. IInv => Coherent
  <2> SUFFICES ASSUME IInv, ~disturbed, known = device, NEW k \in Key,
                      cache.listing[k] # None, IsDirectory(k)
               PROVE  cache.listing[k].content = Children(device, k)
    BY DEF Coherent
  <2>1. ~Gone(k)
    BY FolderAssumption DEF IsDirectory, Gone, Handles, IInv, TInv, TypeOK
  <2>2. \A x \in Object : cache.listing[k].content[x] = Children(device, k)[x]
    BY <2>1 DEF IInv, Semantics, Mixed, Agrees
  <2>3. cache.listing[k].content \in Content
    BY DEF IInv, TInv, TypeOK, Cache, Listing
  <2>4. cache.listing[k].content \in [Object -> Entry \cup {Absent}]
    BY <2>3 DEF Content
  <2>5. Children(device, k) = [x \in Object |-> Children(device, k)[x]]
    BY DEF Children
  <2>6. QED
    BY <2>2, <2>4, <2>5
<1>2. QED
  BY <1>1, Invariance, PTL

\* The gate is exclusive: an operation that has had the phone's answer and not yet
\* updated the cache, or a refresh that has opened its listing, is its only holder
\* (device.rs acquire .. the permit's drop).
THEOREM GateIsExclusive == Spec => []Holders
<1>1. IInv => Holders
  BY DEF IInv
<1>2. QED
  BY <1>1, Invariance, PTL
=============================================================================
