----------------------------- MODULE LocalCache -----------------------------
(***************************************************************************)
(* The in-process cache of package localcachew (v2/localcachew/cache.go).  *)
(*                                                                         *)
(* One global map under the RWMutex c.mu.  An operation that finds no      *)
(* cache creates it (and its sweeper).  SetKV reads the clock before it    *)
(* takes the lock, Get after it gave the lock back, and the background     *)
(* sweeper before it takes the lock: between the two, anybody may run.     *)
(*                                                                         *)
(* Each of Clients is a goroutine that calls the package's functions.      *)
(* Time is a number that grows (the program reads the wall clock, which is *)
(* taken not to be set back).  The first access creates the cache in one   *)
(* step: whoever sees globalCache set is taken to see it whole.            *)
(***************************************************************************)
EXTENDS Integers, FiniteSets

CONSTANTS
    CacheKeys, Values, Clients,
    TTLs,           \* what WithTTL is given; 0 and below: no expiration
    MaxTime         \* bound: how far time goes

ASSUME CacheAssumption == TTLs \subseteq Int /\ MaxTime \in Nat

VARIABLES
    now,            \* the clock
    created,        \* initOnce was done
    items,          \* the global map
    client,         \* what each goroutine is in the middle of
    sweeper,        \* where the cleanup goroutine is
    sweepNow,       \* the time it read
    stopClosed,     \* the channel stopCleanup is closed
    crashed         \* the process panicked

cacheVars == <<now, created, items, client, sweeper, sweepNow, stopClosed, crashed>>

NoItem == [value |-> "nothing", until |-> 0]
Item   == [value : Values, until : Nat]

(* Item.Expiration 0 means it never expires. *)
Expired(item, time) == item.until > 0 /\ time > item.until
(* Fault: an item is swept at its expiration, when Get still finds it. *)
ToSweepEarly(time) == {k \in CacheKeys : items[k].until > 0 /\ time >= items[k].until}

(* What deleteExpired removes. *)
ToSweep(time) == {k \in CacheKeys : items[k].until > 0 /\ time > items[k].until}

Idle == [op |-> "idle"]

CacheInit ==
    /\ now = 1
    /\ created = FALSE
    /\ items = [k \in CacheKeys |-> NoItem]
    /\ client = [c \in Clients |-> Idle]
    /\ sweeper = "off" /\ sweepNow = 0
    /\ stopClosed = FALSE
    /\ crashed = FALSE

Tick ==
    /\ now < MaxTime
    /\ now' = now + 1
    /\ UNCHANGED <<created, items, client, sweeper, sweepNow, stopClosed, crashed>>

(* Init: only the first call, or the first access without one (with the     *)
(* default interval), does anything.                                        *)
Create(withSweeper) ==
    /\ created' = TRUE
    /\ sweeper' = IF created THEN sweeper ELSE IF withSweeper THEN "select" ELSE "off"

InitCall(interval) ==
    /\ ~crashed
    /\ Create(interval > 0)
    /\ UNCHANGED <<now, items, client, sweepNow, stopClosed, crashed>>

(* SetKV, Delete and Clear, up to the lock.  SetKV fixes the expiration     *)
(* here ...                                                                 *)
BeginWrite(c, keys, item) ==
    /\ ~crashed
    /\ client[c] = Idle
    /\ Create(TRUE)
    /\ client' = [client EXCEPT ![c] = [op |-> "write", keys |-> keys, item |-> item]]
    /\ UNCHANGED <<now, items, sweepNow, stopClosed, crashed>>

Expiration(ttl) == IF ttl > 0 THEN now + ttl ELSE 0
SetKV(c, k, v, ttl) == BeginWrite(c, {k}, [value |-> v, until |-> Expiration(ttl)])
Delete(c, k) == BeginWrite(c, {k}, NoItem)
Clear(c) == BeginWrite(c, CacheKeys, NoItem)

(* ... and the map is written whenever the lock is obtained. *)
EndWrite(c) ==
    /\ ~crashed
    /\ client[c].op = "write"
    /\ items' = [k \in CacheKeys |-> IF k \in client[c].keys THEN client[c].item ELSE items[k]]
    /\ client' = [client EXCEPT ![c] = Idle]
    /\ UNCHANGED <<now, created, sweeper, sweepNow, stopClosed, crashed>>

(* Get copies the item under the read lock ... *)
BeginGet(c, k) ==
    /\ ~crashed
    /\ client[c] = Idle
    /\ Create(TRUE)
    /\ client' = [client EXCEPT ![c] = [op |-> "get", keys |-> {k}, item |-> items[k]]]
    /\ UNCHANGED <<now, items, sweepNow, stopClosed, crashed>>

(* ... and judges it by the clock afterwards.  IsKeyExists is Get. *)
EndGet(c) ==
    /\ ~crashed
    /\ client[c].op = "get"
    /\ client' = [client EXCEPT ![c] = Idle]
    /\ UNCHANGED <<now, created, items, sweeper, sweepNow, stopClosed, crashed>>
(* Closing a closed channel panics. *)
StopCleanup ==
    /\ ~crashed
    /\ created
    /\ stopClosed' = TRUE
    /\ crashed' = stopClosed
    /\ UNCHANGED <<now, created, items, client, sweeper, sweepNow>>

(* The cleanup goroutine: a tick of its ticker makes it read the clock ...  *)
(* Fault: the clock is read once, before the loop. *)
BeginSweepOldTime ==
    /\ ~crashed
    /\ sweeper = "select"
    /\ sweepNow' = IF sweepNow = 0 THEN now ELSE sweepNow
    /\ sweeper' = "lock"
    /\ UNCHANGED <<now, created, items, client, stopClosed, crashed>>

BeginSweep ==
    /\ ~crashed
    /\ sweeper = "select"
    /\ sweepNow' = now
    /\ sweeper' = "lock"
    /\ UNCHANGED <<now, created, items, client, stopClosed, crashed>>

(* ... and delete what had expired then, once it has the lock. *)
EndSweep ==
    /\ ~crashed
    /\ sweeper = "lock"
    /\ items' = [k \in CacheKeys |-> IF k \in ToSweep(sweepNow) THEN NoItem ELSE items[k]]
    /\ sweeper' = "select"
    /\ UNCHANGED <<now, created, client, sweepNow, stopClosed, crashed>>

StopSweeper ==
    /\ ~crashed
    /\ sweeper = "select" /\ stopClosed
    /\ sweeper' = "off"
    /\ UNCHANGED <<now, created, items, client, sweepNow, stopClosed, crashed>>

(* Nothing runs after a panic. *)
Crashed == crashed /\ UNCHANGED cacheVars

CacheNext ==
    \/ Tick
    \/ \E interval \in {0, 1} : InitCall(interval)
    \/ \E c \in Clients, k \in CacheKeys :
          BeginGet(c, k) \/ Delete(c, k) \/ \E v \in Values, ttl \in TTLs : SetKV(c, k, v, ttl)
    \/ \E c \in Clients : Clear(c) \/ EndWrite(c) \/ EndGet(c)
    \/ StopCleanup
    \/ BeginSweep \/ EndSweep \/ StopSweeper
    \/ Crashed

CacheSpec == CacheInit /\ [][CacheNext]_cacheVars

(* Time passes, the ticker ticks, the lock is fair, and a select with two   *)
(* ready channels takes each of them sometimes.                             *)
CacheFairness == WF_cacheVars(created /\ Tick) /\ SF_cacheVars(BeginSweep) /\ WF_cacheVars(EndSweep) /\ SF_cacheVars(StopSweeper)

-----------------------------------------------------------------------------
(* Properties. *)

(* The entry a Get would find now, and the write each user is in.           *)
Found     == [k \in CacheKeys |-> IF Expired(items[k], now) THEN NoItem ELSE items[k]]
Requested == [c \in Clients |-> IF client[c].op = "get" THEN Idle ELSE client[c]]

(* Users see a map whose entries change when a SetKV, Delete or Clear of    *)
(* theirs does it, or vanish by expiring: the sweeper, however late it gets *)
(* the lock, removes nothing that Get would still find.                     *)
Store == INSTANCE TtlStore
            WITH StoreKeys <- CacheKeys, StoreItems <- Item, Users <- Clients,
                 NoRequest <- Idle, clock <- now, content <- Found, request <- Requested
ImplementsStore == Store!StoreInit /\ [][Store!StoreNext]_(Store!storeVars)

(* While the sweeper runs, an item does not stay in the map once it expired.*)
ExpiredItemsGo ==
    \A k \in CacheKeys :
        (sweeper # "off" /\ Expired(items[k], now)) ~> (~Expired(items[k], now) \/ stopClosed)

-----------------------------------------------------------------------------
(* The inductive invariant. *)

Requests == [op : {"get", "write"}, keys : SUBSET CacheKeys, item : Item \cup {NoItem}]

(* The map and the goroutines in the middle of an operation have the shape  *)
(* of their Go counterparts; the time the sweeper read is past.             *)
CacheInv ==
    /\ now \in Nat /\ sweepNow \in Nat /\ sweepNow <= now
    /\ items \in [CacheKeys -> Item \cup {NoItem}]
    /\ client \in [Clients -> Requests \cup {Idle}]
=============================================================================
