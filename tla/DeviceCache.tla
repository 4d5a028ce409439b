---------------------------- MODULE DeviceCache ----------------------------
(***************************************************************************)
(* The per-device metadata cache (crates/mtpdrive-core/src/device.rs,      *)
(* struct DeviceCache): one operator per method, from a cache to a cache.  *)
(*                                                                         *)
(* One storage.  A listing is a partial map from handles to entries; its   *)
(* two time stamps are kept as what the code asks of them: `fresh` (loaded *)
(* at most DIRECTORY_CACHE_TTL ago) and `full` (fully loaded less than     *)
(* DIRECTORY_FULL_REFRESH_INTERVAL ago).  A refresh token is named by the  *)
(* task that owns it.                                                      *)
(***************************************************************************)
EXTENDS Naturals, FiniteSets

CONSTANTS
  Object,      \* MTP object handles
  Folder,      \* those of folders
  RootKey,     \* the listing key of the storage's root
  Name,        \* what an entry says of an object besides its parent
  Task,        \* background refresh tasks
  Absent, None \* no entry; no listing, no refresh, no holder

ASSUME FolderAssumption == Folder \subseteq Object /\ RootKey \notin Object
ASSUME SentinelAssumption == None \notin Task

Key     == {RootKey} \cup Folder
Entry   == [parent : Key, name : Name]
Content == [Object -> Entry \cup {Absent}]
Listing == [content : Content, age : {"loaded", "counted", "stale"}, full : BOOLEAN]
Cache   == [listing    : [Key -> Listing \cup {None}],
            object     : Content,
            refreshing : [Key -> [task : Task, epoch : Nat] \cup {None}],
            epoch      : Nat,
            cancelled  : SUBSET Task]

Handles(content) == {h \in Object : content[h] # Absent}
Loaded(content)  == [content |-> content, age |-> "loaded", full |-> TRUE]

EmptyCache ==
  [listing    |-> [k \in Key |-> None],
   object     |-> [h \in Object |-> Absent],
   refreshing |-> [k \in Key |-> None],
   epoch      |-> 0,
   cancelled  |-> {}]

-----------------------------------------------------------------------------
(* Refresh tokens.                                                         *)

\* begin_refresh, when no refresh of k is registered: a new token for task t.
BeginRefresh(cache, k, t) ==
  [cache EXCEPT !.refreshing[k] = [task |-> t, epoch |-> cache.epoch]]

\* The task has returned; its token is dropped with it.
DropToken(cache, t) == [cache EXCEPT !.cancelled = @ \ {t}]

CancelRefresh(cache, k) ==
  [cache EXCEPT
     !.refreshing[k] = None,
     !.cancelled = @ \cup {t \in Task : /\ cache.refreshing[k] # None
                                        /\ cache.refreshing[k].task = t}]

CancelRefreshes(cache) ==
  [cache EXCEPT
     !.refreshing = [k \in Key |-> None],
     !.cancelled = @ \cup {t \in Task : \E k \in Key :
                             /\ cache.refreshing[k] # None
                             /\ cache.refreshing[k].task = t}]

\* refresh_is_current: the test is on the token registered for k, whoever owns it.
RefreshIsCurrent(cache, k, epoch) ==
  /\ cache.epoch = epoch
  /\ cache.refreshing[k] # None
  /\ cache.refreshing[k].epoch = epoch
  /\ cache.refreshing[k].task \notin cache.cancelled

-----------------------------------------------------------------------------
(* Loading and merging.                                                    *)

\* store_listing_inner: replace k's listing; forget what it no longer holds.
StoreListingInner(cache, k, content) ==
  LET previous == IF cache.listing[k] = None THEN {}
                  ELSE Handles(cache.listing[k].content)
  IN  [cache EXCEPT
         !.listing[k] = Loaded(content),
         !.object = [h \in Object |->
                       IF content[h] # Absent THEN content[h]
                       ELSE IF h \in previous THEN Absent
                       ELSE cache.object[h]]]

StoreListing(cache, k, content) ==
  StoreListingInner(CancelRefresh(cache, k), k, content)

\* A listing without the handles S; touched, if that takes something away.
Without(listing, S) ==
  IF listing = None \/ Handles(listing.content) \cap S = {} THEN listing
  ELSE Loaded([h \in Object |-> IF h \in S THEN Absent ELSE listing.content[h]])

With(listing, h, entry) ==
  IF listing = None THEN None
  ELSE Loaded([listing.content EXCEPT ![h] = entry])

\* upsert_object: take h out of every listing, then put it in its parent's.
Upsert(cache, h, entry) ==
  [CancelRefreshes(cache) EXCEPT
     !.listing = [k \in Key |->
                    IF k = entry.parent
                    THEN With(Without(cache.listing[k], {h}), h, entry)
                    ELSE Without(cache.listing[k], {h})],
     !.object[h] = entry]

-----------------------------------------------------------------------------
(* Invalidation.                                                           *)

\* The handles the `pending` loop visits: h and, through cached listings
\* alone, everything below it.
CachedBelow(cache, h) ==
  {x \in Object : \A S \in SUBSET Object :
     /\ h \in S
     /\ \A f \in S \cap Folder :
          cache.listing[f] # None => Handles(cache.listing[f].content) \subseteq S
     => x \in S}

Forget(cache, S) ==
  [cache EXCEPT !.object = [x \in Object |-> IF x \in S THEN Absent ELSE cache.object[x]]]

InvalidateDirectory(cache, k) ==
  [CancelRefresh(cache, k) EXCEPT !.listing[k] = None]

\* invalidate_object drops every listing that names one of the visited handles.
InvalidateObject(cache, h) ==
  LET S == CachedBelow(cache, h)
      Names(l) == l # None /\ Handles(l.content) \cap S # {}
  IN  [Forget(CancelRefreshes(cache), S) EXCEPT
         !.listing = [k \in Key |-> IF k \in S \/ Names(cache.listing[k]) THEN None
                                    ELSE cache.listing[k]]]

\* remove_object keeps those listings, and takes the handles out of them.
RemoveObject(cache, h) ==
  LET S == CachedBelow(cache, h)
  IN  [Forget(CancelRefreshes(cache), S) EXCEPT
         !.listing = [k \in Key |-> IF k \in S THEN None
                                    ELSE Without(cache.listing[k], S)]]

\* remove_handle: nothing at all happens for a handle the cache does not hold.
RemoveHandle(cache, h) ==
  IF \/ cache.object[h] # Absent
     \/ \E k \in Key : cache.listing[k] # None /\ cache.listing[k].content[h] # Absent
  THEN RemoveObject(cache, h)
  ELSE cache

ClearBackwards(cache) ==  \* mutant: wrapping_sub for wrapping_add
  [CancelRefreshes(cache) EXCEPT
     !.listing = EmptyCache.listing, !.object = EmptyCache.object, !.epoch = @ - 1]

Clear(cache) ==
  [CancelRefreshes(cache) EXCEPT
     !.listing = EmptyCache.listing, !.object = EmptyCache.object, !.epoch = @ + 1]

-----------------------------------------------------------------------------
(* The end of a background refresh.                                        *)

CountNeverSuspected(cache, k, epoch, count) ==  \* mutant: no periodic full scan
  /\ RefreshIsCurrent(cache, k, epoch)
  /\ cache.listing[k] # None
  /\ Cardinality(Handles(cache.listing[k].content)) = count

CanCountValidate(cache, k, epoch, count) ==
  /\ RefreshIsCurrent(cache, k, epoch)
  /\ cache.listing[k] # None
  /\ Cardinality(Handles(cache.listing[k].content)) = count
  /\ cache.listing[k].full

FinishCountValidation(cache, k, epoch) ==
  IF ~RefreshIsCurrent(cache, k, epoch) THEN cache
  ELSE [cache EXCEPT !.refreshing[k] = None,
                     !.listing[k] = IF @ = None THEN None ELSE [@ EXCEPT !.age = "counted"]]

\* finish_refresh; content is None when the enumeration failed.
FinishRefresh(cache, k, epoch, content) ==
  IF ~RefreshIsCurrent(cache, k, epoch) THEN cache
  ELSE LET done == [cache EXCEPT !.refreshing[k] = None]
       IN  IF content = None THEN done ELSE StoreListingInner(done, k, content)
=============================================================================
