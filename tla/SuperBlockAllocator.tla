------------------------ MODULE SuperBlockAllocator ------------------------
(***************************************************************************)
(* The ID allocator service: the replicas of id-allocator-service serving  *)
(* one partition out of a backing store.                                   *)
(*                                                                         *)
(* A replica keeps, per partition, an active and a background super block  *)
(* and at most one store reservation in flight: an asynchronous prefetch,  *)
(* or a synchronous fetch made by a caller that holds the allocator's      *)
(* mutex.  The store keeps one counter per bucket.  One call of            *)
(* allocate_block() is one action, except for the store reservation it may *)
(* wait for, which other replicas interleave with.                         *)
(*                                                                         *)
(* A super block is its range: every ID in next .. range_end-1 is still to *)
(* be carved.  IDs are numbers composed from bucket and counter as in      *)
(* id_format.h, so blocks of two buckets could in principle overlap.       *)
(***************************************************************************)
EXTENDS Naturals, FiniteSets

CONSTANTS
    Replicas,    \* the service's processes
    Fragile,     \* bound: the processes that may die and start again
    MaxBuckets,  \* bound on num_buckets over Configs
    Configs,     \* the partition configurations an administrator may create
    IdLimit,     \* 2^53, the first ID that is not a safe JavaScript integer
    StoreKind,   \* "datastore" (shared, durable) or "memory" (one process)
    MaxCreates,  \* bound: how often the partition is created
    None         \* no partition configuration

Buckets == 0 .. MaxBuckets - 1

(* validate(): what create_partition requires of a configuration.          *)
(* bucket_size is max_bucket_value(), 2^bucket_size_bits.                  *)
Valid(c) ==
    /\ c.num_buckets \in Nat \ {0}
    /\ c.bucket_size \in Nat \ {0}
    /\ c.block_size \in Nat \ {0}
    /\ c.super_block_size \in Nat \ {0}
    /\ c.super_block_size % c.block_size = 0
    /\ c.num_buckets * c.bucket_size <= IdLimit

ASSUME ConfigAssumption ==
    /\ MaxBuckets \in Nat
    /\ IdLimit \in Nat
    /\ None \notin Configs
    /\ \A c \in Configs : Valid(c) /\ c.num_buckets <= MaxBuckets

ASSUME StoreAssumption ==
    /\ StoreKind \in {"datastore", "memory"}
    /\ StoreKind = "memory" => Cardinality(Replicas) = 1

VARIABLES
    saved,       \* the partition entity in the store, or None
    counter,     \* the store's bucket counters
    loaded,      \* per replica: the configuration in its partition table
    active,      \* per replica: active_
    background,  \* per replica: background_
    fetch,       \* per replica: the reservation in flight, see FetchStates
    bucket,      \* per replica: the bucket that reservation was aimed at
    fetched,     \* per replica: the super block in pending_fetch_ when ready
    erasing,     \* per replica: delete_partition waits for the prefetch
    creates,     \* how often save_partition stored the partition
    granted,     \* the IDs returned to clients by all replicas
    grants,      \* how many blocks were returned
    lost         \* the IDs reserved in the store that nobody can return

storeVars   == <<saved, counter, creates>>
replicaVars == <<loaded, active, background, fetch, bucket, fetched, erasing>>
historyVars == <<granted, grants, lost>>
vars == <<storeVars, replicaVars, historyVars>>

(* "running": the std::async task has not finished; "ready" and "failed":  *)
(* it has, and nobody called get() yet; "sync": a caller inside            *)
(* allocate_block() is waiting for the store with the mutex held.          *)
FetchStates == {"none", "running", "ready", "failed", "sync"}

SuperBlock == [range_start : Nat, range_end : Nat, next : Nat]
EmptyBlock == [range_start |-> 0, range_end |-> 0, next |-> 0]

remaining(sb) == IF sb.next < sb.range_end THEN sb.range_end - sb.next ELSE 0
is_empty(sb)  == sb.range_start = sb.range_end

(* The IDs a super block can still hand out.                               *)
IdsOf(sb) == sb.next .. sb.range_end - 1

compose_id(c, b, n) == b * c.bucket_size + n

TypeOK ==
    /\ saved \in Configs \cup {None}
    /\ counter \in [Buckets -> Nat]
    /\ loaded \in [Replicas -> Configs \cup {None}]
    /\ active \in [Replicas -> SuperBlock]
    /\ background \in [Replicas -> SuperBlock]
    /\ fetch \in [Replicas -> FetchStates]
    /\ bucket \in [Replicas -> Buckets \cup {0}]
    /\ fetched \in [Replicas -> SuperBlock]
    /\ erasing \in [Replicas -> BOOLEAN]
    /\ creates \in Nat
    /\ granted \subseteq Nat
    /\ grants \in Nat
    /\ lost \subseteq Nat

Init ==
    /\ saved = None
    /\ counter = [b \in Buckets |-> 0]
    /\ loaded = [r \in Replicas |-> None]
    /\ active = [r \in Replicas |-> EmptyBlock]
    /\ background = [r \in Replicas |-> EmptyBlock]
    /\ fetch = [r \in Replicas |-> "none"]
    /\ bucket = [r \in Replicas |-> 0]
    /\ fetched = [r \in Replicas |-> EmptyBlock]
    /\ erasing = [r \in Replicas |-> FALSE]
    /\ creates = 0
    /\ granted = {}
    /\ grants = 0
    /\ lost = {}

-----------------------------------------------------------------------------
(* The store.                                                              *)

(* The buckets select() may return: the only one there is, or the one of   *)
(* two distinct candidates whose count is not larger.                      *)
Selectable(c) ==
    IF c.num_buckets = 1
    THEN {0}
    ELSE {x \in 0 .. c.num_buckets - 1 :
            \E y \in 0 .. c.num_buckets - 1 :
                y # x /\ counter[x] <= counter[y]}

(* get_bucket_counts() may fail: not asked for one bucket, and only the    *)
(* Datastore is behind a network.                                          *)
SelectMayFail(c) == StoreKind = "datastore" /\ c.num_buckets > 1

(* Mutant: the rollover check looks only at where the reservation starts.  *)
HasRoomForOne(c, b) == counter[b] <= c.bucket_size

(* BlockStore::allocate has room: the rollover check.                      *)
HasRoom(c, b) == counter[b] + c.super_block_size <= c.bucket_size

(* The super block fetch_super_block_from() composes from the reservation. *)
Reservation(c, b) ==
    [range_start |-> compose_id(c, b, counter[b]),
     range_end   |-> compose_id(c, b, counter[b] + c.super_block_size),
     next        |-> compose_id(c, b, counter[b])]

(* Mutant: the store advances by a client's block, not by a super block.   *)
BumpByBlock(c, b) == counter' = [counter EXCEPT ![b] = @ + c.block_size]

Bump(c, b) == counter' = [counter EXCEPT ![b] = @ + c.super_block_size]

(* MemoryStore::allocate needs the partition entry; DatastoreStore only    *)
(* looks at the bucket entity.                                             *)
StoreKnows == StoreKind = "memory" => saved # None

AllocateOk(c, b) ==
    /\ StoreKnows
    /\ HasRoom(c, b)
    /\ Bump(c, b)
    /\ UNCHANGED lost

(* allocate() returns an error: the bucket rolled over, the partition is   *)
(* gone, the Datastore did not answer before the commit, or the commit was *)
(* applied and its answer lost.                                            *)
AllocateError(c, b) ==
    \/ /\ ~StoreKnows \/ ~HasRoom(c, b) \/ StoreKind = "datastore"
       /\ UNCHANGED <<counter, lost>>
    \/ /\ StoreKind = "datastore"
       /\ HasRoom(c, b)
       /\ Bump(c, b)
       /\ lost' = lost \cup IdsOf(Reservation(c, b))

(* save_partition() and delete_partition().  MemoryStore drops the         *)
(* counters with the partition, DatastoreStore deletes only the entity.    *)
SavePartition(c) ==
    /\ saved = None
    /\ saved' = c
    /\ creates' = creates + 1

RemovePartition ==
    /\ saved' = None
    /\ counter' = IF StoreKind = "memory" THEN [b \in Buckets |-> 0] ELSE counter

-----------------------------------------------------------------------------
(* SuperBlockAllocator.                                                    *)

(* A thread may enter allocate_block() of replica r: the partition table   *)
(* is not being changed, the partition is there, the mutex is free.        *)
CanCall(r) == loaded[r] # None /\ ~erasing[r] /\ fetch[r] # "sync"

(* try_complete_prefetch(): the background super block after it.           *)
Harvested(r) == IF fetch[r] = "ready" THEN fetched[r] ELSE background[r]

CanServe(r, sb) == remaining(sb) >= loaded[r].block_size

(* Mutant: a prefetch starts although the background super block is full.  *)
PrefetchUnconditionally(r, sb, bg, pending) ==
    IF ~pending /\ remaining(sb) <= loaded[r].super_block_size \div 2
    THEN /\ fetch' = [fetch EXCEPT ![r] = "running"]
         /\ \E b \in Selectable(loaded[r]) :
              bucket' = [bucket EXCEPT ![r] = b]
    ELSE /\ fetch' = [fetch EXCEPT ![r] = IF pending THEN "running" ELSE "none"]
         /\ bucket' = [bucket EXCEPT ![r] = IF pending THEN @ ELSE 0]

(* maybe_start_prefetch() with active super block sb and background bg;    *)
(* pending says that an earlier prefetch is still running.                 *)
maybe_start_prefetch(r, sb, bg, pending) ==
    LET wanted == /\ ~pending
                  /\ remaining(sb) <= loaded[r].super_block_size \div 2
                  /\ is_empty(bg)
    IN  \/ /\ wanted
           /\ fetch' = [fetch EXCEPT ![r] = "running"]
           /\ \E b \in Selectable(loaded[r]) :
                bucket' = [bucket EXCEPT ![r] = b]
        \/ /\ ~wanted \/ SelectMayFail(loaded[r])
           /\ fetch' = [fetch EXCEPT ![r] = IF pending THEN "running" ELSE "none"]
           /\ bucket' = [bucket EXCEPT ![r] = IF pending THEN @ ELSE 0]

(* Carve a block from sb, which becomes the active super block, let bg be  *)
(* the background, start a prefetch if one is due, and return the block.   *)
Serve(r, sb, bg, pending) ==
    LET carved == [sb EXCEPT !.next = @ + loaded[r].block_size]
    IN  /\ CanServe(r, sb)
        /\ active' = [active EXCEPT ![r] = carved]
        /\ background' = [background EXCEPT ![r] = bg]
        /\ fetched' = [fetched EXCEPT ![r] = EmptyBlock]
        /\ maybe_start_prefetch(r, carved, bg, pending)
        /\ granted' = granted \cup (sb.next .. carved.next - 1)
        /\ grants' = grants + 1
        /\ UNCHANGED <<loaded, erasing>>

(* allocate_block(), step 2: the active super block has a block left.      *)
CarveActive(r) ==
    /\ CanCall(r)
    /\ Serve(r, active[r], Harvested(r), fetch[r] = "running")
    /\ UNCHANGED <<storeVars, lost>>

(* Steps 3 and 4: the active super block is used up; serve from the        *)
(* background one, or from the prefetch the caller waited for.             *)
PromoteBackground(r) ==
    /\ CanCall(r)
    /\ ~CanServe(r, active[r])
    /\ ~is_empty(Harvested(r))
    /\ Serve(r, Harvested(r), EmptyBlock, fetch[r] = "running")
    /\ UNCHANGED <<storeVars, lost>>

BothExhausted(r) ==
    /\ ~CanServe(r, active[r])
    /\ is_empty(Harvested(r))

(* The caller gets an error and the replica has no reservation in flight.  *)
ReplyError(r) ==
    /\ fetch' = [fetch EXCEPT ![r] = "none"]
    /\ bucket' = [bucket EXCEPT ![r] = 0]
    /\ UNCHANGED <<loaded, active, background, fetched, erasing, granted, grants>>

(* Step 4: the prefetch the caller waited for failed.                      *)
AwaitFailedPrefetch(r) ==
    /\ CanCall(r)
    /\ BothExhausted(r)
    /\ fetch[r] = "failed"
    /\ ReplyError(r)
    /\ UNCHANGED <<storeVars, lost>>

(* Step 5: nothing in flight (a failed prefetch was harvested); select a   *)
(* bucket and start a synchronous fetch.                                   *)
StartSyncFetch(r) ==
    /\ CanCall(r)
    /\ BothExhausted(r)
    /\ fetch[r] \in {"none", "failed"}
    /\ \/ /\ fetch' = [fetch EXCEPT ![r] = "sync"]
          /\ \E b \in Selectable(loaded[r]) :
               bucket' = [bucket EXCEPT ![r] = b]
          /\ UNCHANGED <<loaded, active, background, fetched, erasing,
                         granted, grants>>
       \/ SelectMayFail(loaded[r]) /\ ReplyError(r)
    /\ UNCHANGED <<storeVars, lost>>

(* The synchronous fetch returns and the caller is served from it.         *)
FinishSyncFetch(r) ==
    LET c == loaded[r]
        b == bucket[r]
    IN  /\ fetch[r] = "sync"
        /\ \/ /\ AllocateOk(c, b)
              /\ Serve(r, Reservation(c, b), EmptyBlock, FALSE)
           \/ /\ AllocateError(c, b)
              /\ ReplyError(r)
        /\ UNCHANGED <<saved, creates>>

(* The std::async task of a prefetch reserves its super block.             *)
FinishPrefetch(r) ==
    LET c == loaded[r]
        b == bucket[r]
    IN  /\ fetch[r] = "running"
        /\ \/ /\ AllocateOk(c, b)
              /\ fetched' = [fetched EXCEPT ![r] = Reservation(c, b)]
              /\ fetch' = [fetch EXCEPT ![r] = "ready"]
           \/ /\ AllocateError(c, b)
              /\ fetch' = [fetch EXCEPT ![r] = "failed"]
              /\ UNCHANGED fetched
        /\ bucket' = [bucket EXCEPT ![r] = 0]
        /\ UNCHANGED <<saved, creates, loaded, active, background, erasing,
                       granted, grants>>

-----------------------------------------------------------------------------
(* PartitionManager and process restarts.                                  *)

(* create_partition(): refused while the replica or the store knows the    *)
(* partition.  The Datastore may store it and lose the answer: then this   *)
(* replica does not load it.                                               *)
CreatePartition(r, c) ==
    /\ loaded[r] = None
    /\ creates < MaxCreates
    /\ SavePartition(c)
    /\ \/ loaded' = [loaded EXCEPT ![r] = c]
       \/ StoreKind = "datastore" /\ UNCHANGED loaded
    /\ UNCHANGED <<counter, active, background, fetch, bucket, fetched,
                   erasing, historyVars>>

(* delete_partition(), up to the store's answer; no caller is inside       *)
(* allocate_block().  If the answer is lost the partition is not erased    *)
(* from the table.                                                         *)
DeletePartition(r) ==
    /\ ~erasing[r]
    /\ fetch[r] # "sync"
    /\ saved # None \/ loaded[r] # None
    /\ RemovePartition
    /\ \/ erasing' = [erasing EXCEPT ![r] = loaded[r] # None]
       \/ StoreKind = "datastore" /\ UNCHANGED erasing
    /\ UNCHANGED <<creates, loaded, active, background, fetch, bucket, fetched,
                   historyVars>>

(* The IDs replica r holds and has not returned.                           *)
Held(r) == IdsOf(active[r]) \cup IdsOf(background[r]) \cup IdsOf(fetched[r])

(* The replica's allocator is destroyed.                                   *)
Drop(r) ==
    /\ active' = [active EXCEPT ![r] = EmptyBlock]
    /\ background' = [background EXCEPT ![r] = EmptyBlock]
    /\ fetched' = [fetched EXCEPT ![r] = EmptyBlock]
    /\ fetch' = [fetch EXCEPT ![r] = "none"]
    /\ bucket' = [bucket EXCEPT ![r] = 0]
    /\ erasing' = [erasing EXCEPT ![r] = FALSE]
    /\ UNCHANGED <<granted, grants>>

(* partitions_.erase(): the destructor of pending_fetch_ waits for the     *)
(* asynchronous task.                                                      *)
ErasePartition(r) ==
    /\ erasing[r]
    /\ fetch[r] # "running"
    /\ Drop(r)
    /\ loaded' = [loaded EXCEPT ![r] = None]
    /\ lost' = lost \cup Held(r)
    /\ UNCHANGED storeVars

(* The process dies and starts again: initialize() loads what the store    *)
(* lists.  A reservation in flight may or may not have been applied.  A    *)
(* MemoryStore dies with the process.                                      *)
Restart(r) ==
    LET inFlight == fetch[r] \in {"running", "sync"}
    IN  /\ r \in Fragile
        /\ Drop(r)
        /\ \/ /\ StoreKind = "datastore"
              /\ loaded' = [loaded EXCEPT ![r] = saved]
              /\ \/ /\ lost' = lost \cup Held(r)
                    /\ UNCHANGED counter
                 \/ /\ inFlight /\ HasRoom(loaded[r], bucket[r])
                    /\ lost' = lost \cup Held(r)
                                 \cup IdsOf(Reservation(loaded[r], bucket[r]))
                    /\ Bump(loaded[r], bucket[r])
              /\ UNCHANGED saved
           \/ /\ StoreKind = "memory"
              /\ loaded' = [loaded EXCEPT ![r] = None]
              /\ saved' = None
              /\ counter' = [b \in Buckets |-> 0]
              /\ lost' = lost \cup Held(r)
        /\ UNCHANGED creates

ReplicaStep(r) ==
    \/ CarveActive(r)
    \/ PromoteBackground(r)
    \/ AwaitFailedPrefetch(r)
    \/ StartSyncFetch(r)
    \/ FinishSyncFetch(r)
    \/ FinishPrefetch(r)
    \/ \E c \in Configs : CreatePartition(r, c)
    \/ DeletePartition(r)
    \/ ErasePartition(r)
    \/ Restart(r)

Next == \E r \in Replicas : ReplicaStep(r)

Spec == Init /\ [][Next]_vars

-----------------------------------------------------------------------------
(* Correctness.                                                            *)

(* Every configuration the partition is ever created with lays out IDs in  *)
(* the same way (same bucket_size_bits).                                   *)
OneLayout == \A c, d \in Configs : c.bucket_size = d.bucket_size

(* The IDs below the store's counters.                                     *)
IdSpan == (CHOOSE c \in Configs : TRUE).bucket_size
Reserved ==
    UNION {(b * IdSpan) .. (b * IdSpan + counter[b] - 1) : b \in Buckets}

(* The memory a replica keeps agrees with itself: nothing is left of a     *)
(* partition that is not loaded, a prefetch is only in flight while the    *)
(* background slot is free, so harvesting it overwrites nothing, and a     *)
(* background super block is whole, so it can serve when it is promoted.   *)
CoherentAt(r) ==
    /\ loaded[r] = None =>
          /\ ~erasing[r] /\ fetch[r] = "none"
          /\ active[r] = EmptyBlock /\ background[r] = EmptyBlock
    /\ fetch[r] # "ready" => fetched[r] = EmptyBlock
    /\ fetch[r] \in {"running", "ready", "sync"} => is_empty(background[r])
    /\ fetch[r] \in {"running", "sync"} => bucket[r] < loaded[r].num_buckets
    /\ ~is_empty(background[r]) => CanServe(r, background[r])
    /\ fetch[r] = "ready" => CanServe(r, fetched[r])

Coherent == TypeOK /\ \A r \in Replicas : CoherentAt(r)

(* No ID is in two places: in two super blocks of the replicas, or in one  *)
(* and already returned or lost.  This is what makes concurrent replicas,  *)
(* prefetches, crashes and lost commit answers harmless.                   *)
NoSharedIds ==
    /\ \A r \in Replicas :
        /\ IdsOf(active[r]) \cap IdsOf(background[r]) = {}
        /\ IdsOf(active[r]) \cap IdsOf(fetched[r]) = {}
        /\ IdsOf(background[r]) \cap IdsOf(fetched[r]) = {}
        /\ Held(r) \cap granted = {}
        /\ Held(r) \cap lost = {}
        /\ \A q \in Replicas \ {r} : Held(r) \cap Held(q) = {}
    /\ granted \cap lost = {}

(* Every ID reserved in the store was returned, is held by a replica, or   *)
(* was lost to a crash, a deletion or a lost commit answer: no replica     *)
(* silently drops a super block it fetched.                                *)
Conservation ==
    granted \cup lost \cup UNION {Held(r) : r \in Replicas} = Reserved

(* The strengthening that makes NoSharedIds inductive: whatever is held,   *)
(* returned or lost lies below the store's counters, so the next           *)
(* reservation, which starts at a counter, is fresh.                       *)
BelowCounters ==
    /\ granted \cup lost \subseteq Reserved
    /\ \A r \in Replicas : Held(r) \subseteq Reserved
    /\ \A b \in Buckets : counter[b] <= IdSpan

AllocatorInv == Coherent /\ NoSharedIds /\ BelowCounters

(* IDs stay below 2^53: a bucket never runs into the reserved bits.        *)
IdsFit == \A i \in granted : i < IdLimit

(* Its strengthening: no super block reaches beyond the limit either.      *)
RangesFit ==
    /\ IdsFit
    /\ \A r \in Replicas :
        /\ active[r].range_end <= IdLimit
        /\ background[r].range_end <= IdLimit
        /\ fetched[r].range_end <= IdLimit

(* Within the partition every ID is returned at most once                  *)
(* (id-allocator/PRD.md:18): the replicas together implement BlockServer.  *)
Server == INSTANCE BlockServer WITH Ids <- 0 .. IdLimit - 1
NoReissue == Server!BlockSpec
=============================================================================
