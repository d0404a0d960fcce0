--------------------- MODULE SuperBlockAllocatorProofs ---------------------
(***************************************************************************)
(* Proofs about SuperBlockAllocator, for every set of replicas, every set  *)
(* of valid configurations and every bound.                                *)
(***************************************************************************)
EXTENDS SuperBlockAllocator, TLAPS, Integers

-----------------------------------------------------------------------------
(* Facts about configurations and super blocks.                            *)

(* validate() accepts only super blocks that hold at least one block.      *)
LEMMA SuperHoldsBlock ==
    ASSUME NEW c \in Configs
    PROVE  c.block_size <= c.super_block_size
<1>1. ASSUME NEW a \in Nat \ {0}, NEW b \in Nat \ {0}, a % b = 0
      PROVE  b <= a
  BY <1>1, SMT
<1>2. QED
  BY <1>1, ConfigAssumption DEF Valid

(* The bucket select() returns is one of the configuration's.              *)
LEMMA SelectableBuckets ==
    ASSUME NEW c \in Configs, NEW b \in Selectable(c)
    PROVE  b \in Buckets /\ b < c.num_buckets
BY ConfigAssumption DEF Selectable, Valid, Buckets

(* The super block of a reservation is well formed and holds exactly       *)
(* super_block_size IDs.                                                   *)
LEMMA ReservationShape ==
    ASSUME TypeOK, NEW c \in Configs, NEW b \in Buckets
    PROVE  /\ Reservation(c, b) \in SuperBlock
           /\ remaining(Reservation(c, b)) = c.super_block_size
           /\ ~is_empty(Reservation(c, b))
<1>1. b \in Nat /\ c.bucket_size \in Nat /\ c.super_block_size \in Nat \ {0}
      /\ counter[b] \in Nat
  BY ConfigAssumption DEF Valid, TypeOK, Buckets
<1>2. b * c.bucket_size \in Nat
  BY <1>1
<1>3. QED
  BY <1>1, <1>2 DEF Reservation, compose_id, SuperBlock, remaining, is_empty

-----------------------------------------------------------------------------
(* Coherence.                                                              *)

(* A replica none of whose variables change stays coherent.                *)
LEMMA CoherentFrame ==
    ASSUME NEW q \in Replicas, CoherentAt(q),
           loaded'[q] = loaded[q], active'[q] = active[q],
           background'[q] = background[q], fetch'[q] = fetch[q],
           bucket'[q] = bucket[q], fetched'[q] = fetched[q],
           erasing'[q] = erasing[q]
    PROVE  CoherentAt(q)'
BY DEF CoherentAt, CanServe, is_empty, remaining

(* Serving a block from a super block sb keeps the replica coherent.       *)
LEMMA ServeCoherent ==
    ASSUME TypeOK, NEW r \in Replicas, loaded[r] # None,
           NEW sb \in SuperBlock, NEW bg \in SuperBlock, NEW pending \in BOOLEAN,
           ~is_empty(bg) => CanServe(r, bg) /\ ~pending,
           pending => fetch[r] = "running" /\ bucket[r] < loaded[r].num_buckets,
           Serve(r, sb, bg, pending)
    PROVE  /\ active' \in [Replicas -> SuperBlock]
           /\ background' \in [Replicas -> SuperBlock]
           /\ fetched' \in [Replicas -> SuperBlock]
           /\ fetch' \in [Replicas -> FetchStates]
           /\ bucket' \in [Replicas -> Buckets \cup {0}]
           /\ granted' \subseteq Nat
           /\ grants' \in Nat
           /\ CoherentAt(r)'
           /\ \A q \in Replicas \ {r} :
                /\ loaded'[q] = loaded[q] /\ active'[q] = active[q]
                /\ background'[q] = background[q] /\ fetch'[q] = fetch[q]
                /\ bucket'[q] = bucket[q] /\ fetched'[q] = fetched[q]
                /\ erasing'[q] = erasing[q]
<1> DEFINE c == loaded[r]
           carved == [sb EXCEPT !.next = @ + c.block_size]
<1>1. c \in Configs /\ c.block_size \in Nat /\ c.num_buckets \in Nat
  BY ConfigAssumption DEF TypeOK, Valid
<1>2. carved \in SuperBlock /\ carved.next \in Nat
  BY <1>1 DEF SuperBlock
<1>3. EmptyBlock \in SuperBlock /\ is_empty(EmptyBlock)
  BY DEF EmptyBlock, SuperBlock, is_empty
<1>4. /\ active' = [active EXCEPT ![r] = carved]
      /\ background' = [background EXCEPT ![r] = bg]
      /\ fetched' = [fetched EXCEPT ![r] = EmptyBlock]
      /\ granted' = granted \cup (sb.next .. carved.next - 1)
      /\ grants' = grants + 1
      /\ loaded' = loaded /\ erasing' = erasing
      /\ maybe_start_prefetch(r, carved, bg, pending)
  BY DEF Serve
<1>5. \/ /\ ~pending /\ is_empty(bg)
         /\ fetch' = [fetch EXCEPT ![r] = "running"]
         /\ \E b \in Selectable(c) : bucket' = [bucket EXCEPT ![r] = b]
      \/ /\ fetch' = [fetch EXCEPT ![r] = IF pending THEN "running" ELSE "none"]
         /\ bucket' = [bucket EXCEPT ![r] = IF pending THEN @ ELSE 0]
  BY <1>4 DEF maybe_start_prefetch
<1>6. /\ fetch' \in [Replicas -> FetchStates]
      /\ bucket' \in [Replicas -> Buckets \cup {0}]
      /\ fetch'[r] \in {"running", "none"}
      /\ fetch'[r] = "running" =>
            bucket'[r] < c.num_buckets /\ is_empty(bg)
      /\ \A q \in Replicas \ {r} : fetch'[q] = fetch[q] /\ bucket'[q] = bucket[q]
  BY <1>1, <1>5, SelectableBuckets DEF TypeOK, FetchStates
<1>7. sb.next .. carved.next - 1 \subseteq Nat
  BY <1>2 DEF SuperBlock
<1>8. CoherentAt(r)'
  BY <1>3, <1>4, <1>6 DEF CoherentAt, CanServe, TypeOK
<1>9. /\ active' \in [Replicas -> SuperBlock]
      /\ background' \in [Replicas -> SuperBlock]
      /\ fetched' \in [Replicas -> SuperBlock]
  BY <1>2, <1>3, <1>4 DEF TypeOK
<1>10. granted' \subseteq Nat /\ grants' \in Nat
  BY <1>4, <1>7 DEF TypeOK
<1>11. \A q \in Replicas \ {r} :
         /\ loaded'[q] = loaded[q] /\ active'[q] = active[q]
         /\ background'[q] = background[q] /\ fetched'[q] = fetched[q]
         /\ erasing'[q] = erasing[q]
  BY <1>4 DEF TypeOK
<1>12. QED
  BY <1>6, <1>8, <1>9, <1>10, <1>11

(* Every step keeps the specification coherent.                            *)
LEMMA CoherentStep ==
    ASSUME Coherent, [Next]_vars
    PROVE  Coherent'
<1> USE DEF Coherent
<1>1. TypeOK /\ \A r \in Replicas : CoherentAt(r)
  OBVIOUS
<1>2. EmptyBlock \in SuperBlock /\ is_empty(EmptyBlock) /\ IdsOf(EmptyBlock) = {}
  BY DEF EmptyBlock, SuperBlock, is_empty, IdsOf
<1>3. \A c \in Configs :
         /\ c.block_size \in Nat \ {0} /\ c.super_block_size \in Nat \ {0}
         /\ c.num_buckets \in Nat \ {0} /\ c.bucket_size \in Nat \ {0}
         /\ c.num_buckets <= MaxBuckets
  BY ConfigAssumption DEF Valid
<1>4. CASE UNCHANGED vars
  <2>1. TypeOK'
    BY <1>1, <1>4 DEF vars, storeVars, replicaVars, historyVars, TypeOK
  <2>2. ASSUME NEW q \in Replicas PROVE CoherentAt(q)'
    BY <1>1, <1>4, CoherentFrame DEF vars, storeVars, replicaVars, historyVars
  <2>3. QED
    BY <2>1, <2>2
<1> SUFFICES ASSUME NEW r \in Replicas, ReplicaStep(r)
             PROVE  Coherent'
  BY <1>4 DEF Next
<1> DEFINE Frame ==
      \A q \in Replicas \ {r} :
         /\ loaded'[q] = loaded[q] /\ active'[q] = active[q]
         /\ background'[q] = background[q] /\ fetch'[q] = fetch[q]
         /\ bucket'[q] = bucket[q] /\ fetched'[q] = fetched[q]
         /\ erasing'[q] = erasing[q]
<1> SUFFICES TypeOK' /\ CoherentAt(r)' /\ Frame
  BY <1>1, CoherentFrame
<1>5. CanCall(r) => /\ loaded[r] \in Configs
                    /\ ~erasing[r]
                    /\ fetch[r] \in FetchStates \ {"sync"}
  BY <1>1 DEF CanCall, TypeOK
<1>6. /\ Harvested(r) \in SuperBlock
      /\ ~is_empty(Harvested(r)) =>
            CanServe(r, Harvested(r)) /\ fetch[r] # "running"
  BY <1>1 DEF Harvested, TypeOK, CoherentAt
<1>7. CASE CarveActive(r)
  <2>1. active[r] \in SuperBlock
    BY <1>1 DEF TypeOK
  <2>2. Serve(r, active[r], Harvested(r), fetch[r] = "running")
        /\ CanCall(r) /\ UNCHANGED <<storeVars, lost>>
    BY <1>7 DEF CarveActive
  <2>3. fetch[r] = "running" => bucket[r] < loaded[r].num_buckets
    BY <1>1 DEF CoherentAt
  <2> HIDE DEF Frame
  <2>4. /\ active' \in [Replicas -> SuperBlock]
        /\ background' \in [Replicas -> SuperBlock]
        /\ fetched' \in [Replicas -> SuperBlock]
        /\ fetch' \in [Replicas -> FetchStates]
        /\ bucket' \in [Replicas -> Buckets \cup {0}]
        /\ granted' \subseteq Nat
        /\ grants' \in Nat
        /\ CoherentAt(r)'
        /\ Frame
    BY <1>1, <1>5, <1>6, <2>1, <2>2, <2>3, ServeCoherent DEF Frame, CanCall
  <2>5. loaded' = loaded /\ erasing' = erasing
    BY <2>2 DEF Serve
  <2>6. QED
    BY <1>1, <2>2, <2>4, <2>5 DEF TypeOK, storeVars
<1>8. CASE PromoteBackground(r)
  <2>1. Serve(r, Harvested(r), EmptyBlock, fetch[r] = "running")
        /\ CanCall(r) /\ UNCHANGED <<storeVars, lost>>
        /\ ~is_empty(Harvested(r))
    BY <1>8 DEF PromoteBackground
  <2> HIDE DEF Frame
  <2>2. /\ active' \in [Replicas -> SuperBlock]
        /\ background' \in [Replicas -> SuperBlock]
        /\ fetched' \in [Replicas -> SuperBlock]
        /\ fetch' \in [Replicas -> FetchStates]
        /\ bucket' \in [Replicas -> Buckets \cup {0}]
        /\ granted' \subseteq Nat
        /\ grants' \in Nat
        /\ CoherentAt(r)'
        /\ Frame
    BY <1>1, <1>2, <1>5, <1>6, <2>1, ServeCoherent DEF Frame, CanCall
  <2>3. loaded' = loaded /\ erasing' = erasing
    BY <2>1 DEF Serve
  <2>4. QED
    BY <1>1, <2>1, <2>2, <2>3 DEF TypeOK, storeVars
<1>9. ASSUME ReplyError(r), UNCHANGED <<saved, creates>>,
             CanCall(r) \/ fetch[r] = "sync", fetch[r] # "ready",
             counter' \in [Buckets -> Nat], lost' \subseteq Nat
      PROVE  TypeOK' /\ CoherentAt(r)' /\ Frame
  BY <1>1, <1>9 DEF ReplyError, TypeOK, CoherentAt, FetchStates, CanServe, CanCall
<1>10. CASE AwaitFailedPrefetch(r)
  BY <1>1, <1>9, <1>10 DEF AwaitFailedPrefetch, storeVars, TypeOK
<1>11. CASE StartSyncFetch(r)
  <2>1. CanCall(r) /\ BothExhausted(r) /\ fetch[r] \in {"none", "failed"}
        /\ UNCHANGED <<storeVars, lost>>
    BY <1>11 DEF StartSyncFetch
  <2>2. CASE ReplyError(r)
    BY <1>1, <1>9, <2>1, <2>2 DEF storeVars, TypeOK
  <2>3. ASSUME NEW b \in Selectable(loaded[r]),
               fetch' = [fetch EXCEPT ![r] = "sync"],
               bucket' = [bucket EXCEPT ![r] = b],
               UNCHANGED <<loaded, active, background, fetched, erasing,
                           granted, grants>>
        PROVE  TypeOK' /\ CoherentAt(r)' /\ Frame
    <3>1. b \in Buckets /\ b < loaded[r].num_buckets
      BY <1>5, <2>1, <2>3, SelectableBuckets
    <3>2. is_empty(background[r])
      BY <2>1 DEF BothExhausted, Harvested
    <3>3. QED
      BY <1>1, <2>1, <2>3, <3>1, <3>2
         DEF TypeOK, CoherentAt, FetchStates, CanServe, is_empty, CanCall, storeVars
  <2>4. QED
    BY <1>11, <2>2, <2>3 DEF StartSyncFetch
<1>12. ASSUME fetch[r] \in {"running", "sync"}
       PROVE  loaded[r] \in Configs /\ bucket[r] \in Buckets
  BY <1>1, <1>3, <1>12, ConfigAssumption DEF TypeOK, CoherentAt, Buckets
<1>13. ASSUME NEW c \in Configs, NEW b \in Buckets
       PROVE  /\ Bump(c, b) => counter' \in [Buckets -> Nat]
              /\ IdsOf(Reservation(c, b)) \subseteq Nat
              /\ AllocateOk(c, b) \/ AllocateError(c, b) =>
                    counter' \in [Buckets -> Nat] /\ lost' \subseteq Nat
  <2>1. Reservation(c, b) \in SuperBlock
    BY <1>1, ReservationShape
  <2>2. IdsOf(Reservation(c, b)) \subseteq Nat
    BY <2>1 DEF SuperBlock, IdsOf
  <2>3. Bump(c, b) => counter' \in [Buckets -> Nat]
    BY <1>1, <1>3 DEF Bump, TypeOK
  <2>4. QED
    BY <1>1, <2>2, <2>3 DEF AllocateOk, AllocateError, TypeOK
<1>14. CASE FinishSyncFetch(r)
  <2> DEFINE c == loaded[r]
             b == bucket[r]
  <2>1. /\ fetch[r] = "sync" /\ UNCHANGED <<saved, creates>>
        /\ \/ AllocateOk(c, b) /\ Serve(r, Reservation(c, b), EmptyBlock, FALSE)
           \/ AllocateError(c, b) /\ ReplyError(r)
    BY <1>14 DEF FinishSyncFetch
  <2>2. c \in Configs /\ b \in Buckets
    BY <1>12, <2>1
  <2>3. counter' \in [Buckets -> Nat] /\ lost' \subseteq Nat
    BY <1>13, <2>1, <2>2
  <2>4. CASE AllocateError(c, b) /\ ReplyError(r)
    BY <1>9, <2>1, <2>3, <2>4
  <2>5. CASE AllocateOk(c, b) /\ Serve(r, Reservation(c, b), EmptyBlock, FALSE)
    <3>1. Reservation(c, b) \in SuperBlock /\ loaded[r] # None
      BY <1>1, <2>2, ReservationShape, ConfigAssumption
    <3> HIDE DEF Frame
    <3>2. /\ active' \in [Replicas -> SuperBlock]
          /\ background' \in [Replicas -> SuperBlock]
          /\ fetched' \in [Replicas -> SuperBlock]
          /\ fetch' \in [Replicas -> FetchStates]
          /\ bucket' \in [Replicas -> Buckets \cup {0}]
          /\ granted' \subseteq Nat
          /\ grants' \in Nat
          /\ CoherentAt(r)'
          /\ Frame
      BY <1>1, <1>2, <2>5, <3>1, ServeCoherent DEF Frame
    <3>3. loaded' = loaded /\ erasing' = erasing
      BY <2>5 DEF Serve
    <3>4. QED
      BY <1>1, <2>1, <2>3, <3>2, <3>3 DEF TypeOK
  <2>6. QED
    BY <2>1, <2>4, <2>5
<1>15. CASE FinishPrefetch(r)
  <2> DEFINE c == loaded[r]
             b == bucket[r]
  <2>1. c \in Configs /\ b \in Buckets /\ fetch[r] = "running"
        /\ fetched[r] = EmptyBlock
    BY <1>1, <1>12, <1>15 DEF FinishPrefetch, CoherentAt
  <2>2. counter' \in [Buckets -> Nat] /\ lost' \subseteq Nat
    BY <1>13, <1>15, <2>1 DEF FinishPrefetch
  <2>3. /\ Reservation(c, b) \in SuperBlock
        /\ CanServe(r, Reservation(c, b))
    BY <1>1, <2>1, ReservationShape, SuperHoldsBlock DEF CanServe
  <2> HIDE DEF c, b
  <2>4. /\ bucket' = [bucket EXCEPT ![r] = 0]
        /\ UNCHANGED <<saved, creates, loaded, active, background, erasing,
                       granted, grants>>
        /\ \/ /\ fetched' = [fetched EXCEPT ![r] = Reservation(c, b)]
              /\ fetch' = [fetch EXCEPT ![r] = "ready"]
           \/ /\ fetch' = [fetch EXCEPT ![r] = "failed"]
              /\ UNCHANGED fetched
    BY <1>15 DEF FinishPrefetch, c, b
  <2>5. TypeOK' /\ Frame
    BY <1>1, <2>2, <2>3, <2>4 DEF TypeOK, FetchStates
  <2>6. CoherentAt(r)'
    BY <1>1, <2>1, <2>3, <2>4 DEF TypeOK, CoherentAt, CanServe
  <2>7. QED
    BY <2>5, <2>6
<1>16. ASSUME NEW c \in Configs, CreatePartition(r, c)
       PROVE  TypeOK' /\ CoherentAt(r)' /\ Frame
  BY <1>1, <1>2, <1>16
     DEF CreatePartition, SavePartition, historyVars, TypeOK, CoherentAt, CanServe
<1>17. CASE DeletePartition(r)
  BY <1>1, <1>17
     DEF DeletePartition, RemovePartition, historyVars, TypeOK, CoherentAt, CanServe
<1>18. ASSUME Drop(r)
       PROVE  /\ active' \in [Replicas -> SuperBlock]
              /\ background' \in [Replicas -> SuperBlock]
              /\ fetched' \in [Replicas -> SuperBlock]
              /\ fetch' \in [Replicas -> FetchStates]
              /\ bucket' \in [Replicas -> Buckets \cup {0}]
              /\ erasing' \in [Replicas -> BOOLEAN]
              /\ UNCHANGED <<granted, grants>>
              /\ CoherentAt(r)'
              /\ \A q \in Replicas \ {r} :
                   /\ active'[q] = active[q] /\ background'[q] = background[q]
                   /\ fetch'[q] = fetch[q] /\ bucket'[q] = bucket[q]
                   /\ fetched'[q] = fetched[q] /\ erasing'[q] = erasing[q]
  BY <1>1, <1>2, <1>18 DEF Drop, TypeOK, CoherentAt, FetchStates
<1>19. Held(r) \subseteq Nat
  BY <1>1 DEF Held, IdsOf, TypeOK, SuperBlock
<1>20. CASE ErasePartition(r)
  <2> HIDE DEF Frame
  <2>1. Drop(r) /\ loaded' = [loaded EXCEPT ![r] = None]
        /\ lost' = lost \cup Held(r) /\ UNCHANGED storeVars
    BY <1>20 DEF ErasePartition
  <2>2. TypeOK'
    BY <1>1, <1>18, <1>19, <2>1 DEF TypeOK, storeVars
  <2>3. CoherentAt(r)' /\ Frame
    BY <1>1, <1>18, <2>1 DEF TypeOK, Frame
  <2>4. QED
    BY <2>2, <2>3
<1>21. CASE Restart(r)
  <2> HIDE DEF Frame
  <2>1. Drop(r) /\ UNCHANGED creates
    BY <1>21 DEF Restart
  <2>2. /\ saved' \in Configs \cup {None}
        /\ loaded' \in [Replicas -> Configs \cup {None}]
        /\ \A q \in Replicas \ {r} : loaded'[q] = loaded[q]
    BY <1>1, <1>21 DEF Restart, TypeOK
  <2>3. counter' \in [Buckets -> Nat] /\ lost' \subseteq Nat
    <3>1. counter \in [Buckets -> Nat] /\ lost \subseteq Nat
          /\ [b \in Buckets |-> 0] \in [Buckets -> Nat]
      BY <1>1 DEF TypeOK
    <3>2. CASE /\ counter' = counter \/ counter' = [b \in Buckets |-> 0]
               /\ lost' = lost \cup Held(r)
      BY <1>19, <3>1, <3>2
    <3>3. CASE /\ fetch[r] \in {"running", "sync"}
               /\ lost' = lost \cup Held(r)
                            \cup IdsOf(Reservation(loaded[r], bucket[r]))
               /\ Bump(loaded[r], bucket[r])
      BY <1>12, <1>13, <1>19, <3>1, <3>3
    <3>4. QED
      BY <1>21, <3>2, <3>3 DEF Restart
  <2>4. TypeOK'
    BY <1>1, <1>18, <2>1, <2>2, <2>3 DEF TypeOK
  <2>5. CoherentAt(r)' /\ Frame
    BY <1>18, <2>1, <2>2 DEF Frame
  <2>6. QED
    BY <2>4, <2>5
<1>22. QED
  BY <1>7, <1>8, <1>10, <1>11, <1>14, <1>15, <1>16, <1>17, <1>20, <1>21
     DEF ReplicaStep

(* Coherence of every replica, for every set of replicas and every set of  *)
(* valid configurations, with either store: a finished prefetch never      *)
(* overwrites a background super block, and a promoted one can serve.      *)
THEOREM Coherence == Spec => []Coherent
<1>1. Init => Coherent
  BY ConfigAssumption
     DEF Init, Coherent, TypeOK, CoherentAt, EmptyBlock, SuperBlock, FetchStates,
         is_empty
<1>2. Coherent /\ [Next]_vars => Coherent'
  BY CoherentStep
<1>3. QED
  BY <1>1, <1>2, PTL DEF Spec

-----------------------------------------------------------------------------
(* Reservations are fresh.                                                 *)

(* Under one ID layout every configuration has the same bucket size.       *)
LEMMA SpanOf ==
    ASSUME OneLayout, NEW c \in Configs
    PROVE  c.bucket_size = IdSpan /\ IdSpan \in Nat \ {0}
BY ConfigAssumption DEF OneLayout, IdSpan, Valid

(* Bucket x ends before a later bucket y begins.                           *)
LEMMA BucketsApart ==
    ASSUME NEW x \in Nat, NEW y \in Nat, NEW s \in Nat, x < y
    PROVE  x * s + s <= y * s
<1>1. PICK d \in Nat : y = x + 1 + d
  <2>1. y - x - 1 \in Nat
    OBVIOUS
  <2>2. QED
    BY <2>1
<1>2. y * s = x * s + s + d * s
  BY <1>1, SMT
<1>3. d * s \in Nat /\ x * s \in Nat
  BY SMT
<1>4. QED
  BY <1>2, <1>3

(* Under one ID layout a reservation takes IDs nobody reserved before, and *)
(* they are the only ones it adds.                                         *)
LEMMA ReservationFresh ==
    ASSUME TypeOK, OneLayout, NEW c \in Configs, NEW b \in Buckets,
           \A x \in Buckets : counter[x] <= IdSpan,
           HasRoom(c, b)
    PROVE  /\ IdsOf(Reservation(c, b)) \cap Reserved = {}
           /\ Bump(c, b) =>
                /\ Reserved' = Reserved \cup IdsOf(Reservation(c, b))
                /\ \A x \in Buckets : counter'[x] <= IdSpan
<1> DEFINE n == counter[b]
           m == c.super_block_size
           start(x) == x * IdSpan
<1>1. /\ IdSpan \in Nat \ {0} /\ c.bucket_size = IdSpan
      /\ m \in Nat \ {0} /\ n \in Nat /\ n + m <= IdSpan /\ b \in Nat
  BY SpanOf, ConfigAssumption DEF Valid, TypeOK, HasRoom, Buckets
<1>2. \A x \in Buckets : x \in Nat /\ start(x) \in Nat /\ counter[x] \in Nat
  BY <1>1 DEF TypeOK, Buckets
<1>3. IdsOf(Reservation(c, b)) = (start(b) + n) .. (start(b) + n + m - 1)
  BY <1>1, <1>2 DEF IdsOf, Reservation, compose_id
<1>4. \A x \in Buckets : x # b =>
         start(x) + IdSpan <= start(b) \/ start(b) + IdSpan <= start(x)
  BY <1>1, <1>2, BucketsApart
<1> HIDE DEF n, m, start
<1>5. Reserved = UNION {start(x) .. (start(x) + counter[x] - 1) : x \in Buckets}
  BY DEF Reserved, start
<1>6. IdsOf(Reservation(c, b)) \cap Reserved = {}
  <2> SUFFICES ASSUME NEW i \in IdsOf(Reservation(c, b)), i \in Reserved
               PROVE  FALSE
    OBVIOUS
  <2>1. PICK x \in Buckets : i \in start(x) .. (start(x) + counter[x] - 1)
    BY <1>5
  <2>2. /\ counter[x] <= IdSpan /\ counter[x] \in Nat
        /\ start(x) \in Nat /\ start(b) \in Nat
    BY <1>2
  <2>3. i \in Nat /\ start(b) + n <= i /\ i < start(b) + n + m
    BY <1>1, <1>3, <2>2
  <2>4. start(x) <= i /\ i < start(x) + counter[x]
    BY <2>1, <2>2, <2>3
  <2>5. CASE x = b
    BY <1>1, <2>2, <2>3, <2>4, <2>5 DEF n
  <2>6. CASE x # b
    <3>1. start(x) + IdSpan <= start(b) \/ start(b) + IdSpan <= start(x)
      BY <1>4, <2>6
    <3>2. QED
      BY <1>1, <2>2, <2>3, <2>4, <3>1
  <2>7. QED
    BY <2>5, <2>6
<1>7. ASSUME Bump(c, b)
      PROVE  /\ Reserved' = Reserved \cup IdsOf(Reservation(c, b))
             /\ \A x \in Buckets : counter'[x] <= IdSpan
  <2>1. /\ counter'[b] = n + m
        /\ \A x \in Buckets \ {b} : counter'[x] = counter[x]
    BY <1>7 DEF Bump, TypeOK, n, m
  <2>2. \A x \in Buckets : counter'[x] <= IdSpan
    BY <1>1, <2>1
  <2>3. Reserved' = UNION {start(x) .. (start(x) + counter'[x] - 1) : x \in Buckets}
    BY DEF Reserved, start
  <2>4. start(b) .. (start(b) + counter'[b] - 1)
        = (start(b) .. (start(b) + n - 1)) \cup IdsOf(Reservation(c, b))
    BY <1>1, <1>2, <1>3, <2>1
  <2>5. ASSUME NEW i PROVE i \in Reserved' <=> i \in Reserved \cup IdsOf(Reservation(c, b))
    <3>1. i \in Reserved' <=> \E x \in Buckets : i \in start(x) .. (start(x) + counter'[x] - 1)
      BY <2>3
    <3>2. i \in Reserved <=> \E x \in Buckets : i \in start(x) .. (start(x) + counter[x] - 1)
      BY <1>5
    <3>3. start(b) .. (start(b) + counter[b] - 1) = start(b) .. (start(b) + n - 1)
      BY DEF n
    <3>4. QED
      BY <2>1, <2>4, <3>1, <3>2, <3>3
  <2>6. QED
    BY <2>2, <2>5
<1>8. QED
  BY <1>6, <1>7

-----------------------------------------------------------------------------
(* No ID in two places.                                                    *)

(* A step of replica r that only moves IDs: those of r and the fresh IDs N *)
(* go to its super blocks, to the granted IDs G or to the lost IDs L.      *)
Moves(r, G, L, N) ==
    /\ \A q \in Replicas \ {r} :
        /\ active'[q] = active[q]
        /\ background'[q] = background[q]
        /\ fetched'[q] = fetched[q]
    /\ granted' = granted \cup G
    /\ lost' = lost \cup L
    /\ (IdsOf(active[r]))' \cap (IdsOf(background[r]))' = {}
    /\ (IdsOf(active[r]))' \cap (IdsOf(fetched[r]))' = {}
    /\ (IdsOf(background[r]))' \cap (IdsOf(fetched[r]))' = {}
    /\ Held(r)' \cap G = {}
    /\ Held(r)' \cap L = {}
    /\ G \cap L = {}
    /\ Held(r)' \cup G \cup L \subseteq Held(r) \cup N
    /\ N \cap Reserved = {}
    /\ Reserved' = Reserved \cup N
    /\ \A b \in Buckets : counter'[b] <= IdSpan

(* A step that only moves IDs between the places of one replica, or takes  *)
(* fresh ones from the store, keeps every ID in a single place.            *)
LEMMA MovesKeep ==
    ASSUME NoSharedIds, BelowCounters, NEW r \in Replicas,
           NEW G, NEW L, NEW N, Moves(r, G, L, N)
    PROVE  NoSharedIds' /\ BelowCounters' /\ G \cap granted = {}
<1>1. \A q \in Replicas \ {r} :
        /\ (IdsOf(active[q]))' = IdsOf(active[q])
        /\ (IdsOf(background[q]))' = IdsOf(background[q])
        /\ (IdsOf(fetched[q]))' = IdsOf(fetched[q])
        /\ Held(q)' = Held(q)
  BY DEF Moves, IdsOf, Held
<1>2. Held(r) \subseteq Reserved /\ granted \subseteq Reserved /\ lost \subseteq Reserved
      /\ \A q \in Replicas : Held(q) \subseteq Reserved
  BY DEF BelowCounters
<1>3. Held(r) \cap granted = {} /\ Held(r) \cap lost = {} /\ granted \cap lost = {}
  BY DEF NoSharedIds
<1>4. G \cap granted = {} /\ L \cap granted = {} /\ G \cap lost = {} /\ L \cap lost = {}
      /\ Held(r)' \cap granted = {} /\ Held(r)' \cap lost = {}
  BY <1>2, <1>3 DEF Moves
<1>5. granted' \cap lost' = {}
  BY <1>3, <1>4 DEF Moves
<1>6. Held(r)' \cap granted' = {} /\ Held(r)' \cap lost' = {}
  BY <1>4 DEF Moves
<1>7. ASSUME NEW q \in Replicas \ {r}
      PROVE  Held(q)' \cap Held(r)' = {} /\ Held(q)' \cap granted' = {}
             /\ Held(q)' \cap lost' = {}
  <2>1. Held(q) \cap Held(r) = {} /\ Held(q) \cap granted = {} /\ Held(q) \cap lost = {}
    BY DEF NoSharedIds
  <2>2. QED
    BY <1>1, <1>2, <2>1 DEF Moves
<1>8. NoSharedIds'
  BY <1>1, <1>5, <1>6, <1>7 DEF NoSharedIds, Moves
<1>9. BelowCounters'
  BY <1>1, <1>2 DEF BelowCounters, Moves
<1>10. QED
  BY <1>4, <1>8, <1>9

(* Serving moves the IDs of sb: a block G of them is granted, the rest     *)
(* stays active.                                                           *)
Serves(r, sb, bg, G) ==
    /\ G # {}
    /\ \E lo, hi \in Nat : G = lo .. hi /\ lo <= hi /\ hi < sb.range_end
    /\ granted' = granted \cup G
    /\ grants' = grants + 1
    /\ (IdsOf(active[r]))' = IdsOf(sb) \ G
    /\ (IdsOf(background[r]))' = IdsOf(bg)
    /\ (IdsOf(fetched[r]))' = {}
    /\ \A q \in Replicas \ {r} :
        /\ active'[q] = active[q]
        /\ background'[q] = background[q]
        /\ fetched'[q] = fetched[q]

(* What Serve() does to the three super blocks of the replica: the block   *)
(* returned is a non-empty range of IDs of sb, which keeps the rest.       *)
LEMMA ServeMoves ==
    ASSUME TypeOK, NEW r \in Replicas, loaded[r] # None,
           NEW sb \in SuperBlock, NEW bg \in SuperBlock, NEW pending \in BOOLEAN,
           Serve(r, sb, bg, pending)
    PROVE  \E G \in SUBSET IdsOf(sb) : Serves(r, sb, bg, G)
<1> DEFINE k == loaded[r].block_size
           carved == [sb EXCEPT !.next = @ + k]
           G == sb.next .. sb.next + k - 1
<1>1. k \in Nat \ {0}
  BY ConfigAssumption DEF TypeOK, Valid
<1>2. /\ sb.next \in Nat /\ sb.range_end \in Nat
      /\ carved.next = sb.next + k /\ carved.range_end = sb.range_end
  BY <1>1 DEF SuperBlock
<1>3. sb.next + k <= sb.range_end
  BY <1>1, <1>2 DEF Serve, CanServe, remaining
<1>4. /\ G \subseteq IdsOf(sb)
      /\ G # {}
      /\ IdsOf(carved) = IdsOf(sb) \ G
  <2>1. sb.next \in G
    BY <1>1, <1>2
  <2>2. QED
    BY <1>1, <1>2, <1>3, <2>1 DEF IdsOf
<1>5. /\ active' = [active EXCEPT ![r] = carved]
      /\ background' = [background EXCEPT ![r] = bg]
      /\ fetched' = [fetched EXCEPT ![r] = EmptyBlock]
      /\ granted' = granted \cup (sb.next .. carved.next - 1)
      /\ grants' = grants + 1
  BY DEF Serve
<1>6. IdsOf(EmptyBlock) = {}
  BY DEF IdsOf, EmptyBlock
<1>7. granted' = granted \cup G
  <2> HIDE DEF carved
  <2>1. (sb.next .. carved.next - 1) = G
    BY <1>1, <1>2
  <2> HIDE DEF G
  <2>2. QED
    BY <1>5, <2>1
<1>8. \E lo, hi \in Nat : G = lo .. hi /\ lo <= hi /\ hi < sb.range_end
  <2>1. sb.next + k - 1 \in Nat
    BY <1>1, <1>2
  <2>2. QED
    BY <1>1, <1>2, <1>3, <2>1
<1> HIDE DEF carved, G
<1>9. /\ active'[r] = carved /\ background'[r] = bg /\ fetched'[r] = EmptyBlock
      /\ \A q \in Replicas \ {r} :
           /\ active'[q] = active[q]
           /\ background'[q] = background[q]
           /\ fetched'[q] = fetched[q]
  BY <1>5 DEF TypeOK
<1>10. /\ (IdsOf(active[r]))' = IdsOf(carved)
       /\ (IdsOf(background[r]))' = IdsOf(bg)
       /\ (IdsOf(fetched[r]))' = IdsOf(EmptyBlock)
  BY <1>9 DEF IdsOf
<1>11. G \in SUBSET IdsOf(sb)
  BY <1>4
<1> USE <1>11
<1> WITNESS G \in SUBSET IdsOf(sb)
<1>12. (IdsOf(active[r]))' = IdsOf(sb) \ G /\ (IdsOf(fetched[r]))' = {}
  BY <1>4, <1>6, <1>10
<1>13. QED
  BY <1>4, <1>5, <1>7, <1>8, <1>9, <1>10, <1>12 DEF Serves

-----------------------------------------------------------------------------
(* IDs stay below the limit, with either store and any mix of layouts.     *)

(* A reservation that passed the rollover check ends below the limit.      *)
LEMMA ReservationFits ==
    ASSUME TypeOK, NEW c \in Configs, NEW b \in Buckets, b < c.num_buckets,
           HasRoom(c, b)
    PROVE  Reservation(c, b).range_end <= IdLimit
<1>1. /\ b \in Nat /\ c.num_buckets \in Nat /\ c.bucket_size \in Nat
      /\ c.super_block_size \in Nat /\ counter[b] \in Nat /\ IdLimit \in Nat
      /\ c.num_buckets * c.bucket_size <= IdLimit
  BY ConfigAssumption DEF Valid, TypeOK, Buckets
<1>2. b * c.bucket_size + c.bucket_size <= c.num_buckets * c.bucket_size
  BY <1>1, BucketsApart
<1>3. b * c.bucket_size \in Nat /\ c.num_buckets * c.bucket_size \in Nat
  BY <1>1
<1>4. counter[b] + c.super_block_size <= c.bucket_size
  BY DEF HasRoom
<1>5. Reservation(c, b).range_end = b * c.bucket_size + (counter[b] + c.super_block_size)
  BY DEF Reservation, compose_id
<1>6. QED
  BY <1>1, <1>2, <1>3, <1>4, <1>5

(* Serving from a super block that fits keeps everything fitting.          *)
LEMMA ServeFits ==
    ASSUME TypeOK, RangesFit, NEW r \in Replicas, loaded[r] # None,
           NEW sb \in SuperBlock, NEW bg \in SuperBlock, NEW pending \in BOOLEAN,
           sb.range_end <= IdLimit, bg.range_end <= IdLimit,
           Serve(r, sb, bg, pending)
    PROVE  RangesFit'
<1>1. PICK G \in SUBSET IdsOf(sb) : Serves(r, sb, bg, G)
  BY ServeMoves
<1>2. \A i \in G : i < IdLimit
  BY ConfigAssumption DEF IdsOf, SuperBlock
<1>3. IdsFit'
  BY <1>1, <1>2 DEF IdsFit, RangesFit, Serves
<1>4. EmptyBlock.range_end <= IdLimit
  BY ConfigAssumption DEF EmptyBlock
<1>5. /\ active' = [active EXCEPT ![r] = [sb EXCEPT !.next = @ + loaded[r].block_size]]
      /\ background' = [background EXCEPT ![r] = bg]
      /\ fetched' = [fetched EXCEPT ![r] = EmptyBlock]
  BY DEF Serve
<1>6. [sb EXCEPT !.next = @ + loaded[r].block_size].range_end = sb.range_end
  BY DEF SuperBlock
<1> DEFINE carved == [sb EXCEPT !.next = @ + loaded[r].block_size]
<1> HIDE DEF carved
<1>7. active' = [active EXCEPT ![r] = carved] /\ carved.range_end = sb.range_end
  BY <1>5, <1>6 DEF carved
<1>8. QED
  BY <1>3, <1>4, <1>5, <1>7 DEF RangesFit, TypeOK

(* Every step keeps all super blocks and all returned IDs below the limit. *)
LEMMA FitStep ==
    ASSUME Coherent, RangesFit, [Next]_vars
    PROVE  RangesFit'
<1>1. TypeOK /\ \A r \in Replicas : CoherentAt(r)
  BY DEF Coherent
<1>2. CASE UNCHANGED <<active, background, fetched, granted>>
  BY <1>2 DEF RangesFit, IdsFit
<1>3. CASE UNCHANGED vars
  BY <1>2, <1>3 DEF vars, replicaVars, historyVars
<1> SUFFICES ASSUME NEW r \in Replicas, ReplicaStep(r) PROVE RangesFit'
  BY <1>3 DEF Next
<1>4. EmptyBlock \in SuperBlock /\ EmptyBlock.range_end <= IdLimit
  BY ConfigAssumption DEF EmptyBlock, SuperBlock
<1>5. /\ active[r] \in SuperBlock /\ active[r].range_end <= IdLimit
      /\ Harvested(r) \in SuperBlock /\ Harvested(r).range_end <= IdLimit
      /\ (fetch[r] = "running") \in BOOLEAN
  BY <1>1 DEF TypeOK, RangesFit, Harvested
<1>6. CASE CarveActive(r)
  BY <1>1, <1>5, <1>6, ServeFits DEF CarveActive, CanCall
<1>7. CASE PromoteBackground(r)
  BY <1>1, <1>4, <1>5, <1>7, ServeFits DEF PromoteBackground, CanCall
<1>8. ASSUME fetch[r] \in {"running", "sync"}
      PROVE  /\ loaded[r] \in Configs /\ loaded[r] # None
             /\ bucket[r] \in Buckets
             /\ bucket[r] < loaded[r].num_buckets
  BY <1>1, <1>8, ConfigAssumption DEF TypeOK, CoherentAt, Buckets, Valid
<1>9. CASE AwaitFailedPrefetch(r)
  BY <1>2, <1>9 DEF AwaitFailedPrefetch, ReplyError
<1>10. CASE StartSyncFetch(r)
  BY <1>2, <1>10 DEF StartSyncFetch, ReplyError
<1>11. CASE FinishSyncFetch(r)
  <2>1. CASE ReplyError(r)
    BY <1>2, <2>1 DEF ReplyError
  <2>2. CASE /\ AllocateOk(loaded[r], bucket[r])
             /\ Serve(r, Reservation(loaded[r], bucket[r]), EmptyBlock, FALSE)
    <3>1. fetch[r] \in {"running", "sync"}
      BY <1>11 DEF FinishSyncFetch
    <3>2. HasRoom(loaded[r], bucket[r])
      BY <2>2 DEF AllocateOk
    <3>3. QED
      BY <1>1, <1>4, <1>8, <2>2, <3>1, <3>2, ReservationFits, ReservationShape, ServeFits
  <2>3. QED
    BY <1>11, <2>1, <2>2 DEF FinishSyncFetch
<1>12. CASE FinishPrefetch(r)
  <2>1. CASE UNCHANGED fetched
    BY <1>2, <1>12, <2>1 DEF FinishPrefetch
  <2>2. CASE /\ AllocateOk(loaded[r], bucket[r])
             /\ fetched' = [fetched EXCEPT ![r] = Reservation(loaded[r], bucket[r])]
    <3>1. fetch[r] \in {"running", "sync"} /\ UNCHANGED <<active, background, granted>>
      BY <1>12 DEF FinishPrefetch
    <3>2. HasRoom(loaded[r], bucket[r])
      BY <2>2 DEF AllocateOk
    <3>3. Reservation(loaded[r], bucket[r]).range_end <= IdLimit
      BY <1>1, <1>8, <3>1, <3>2, ReservationFits
    <3>4. QED
      BY <1>1, <2>2, <3>1, <3>3 DEF RangesFit, IdsFit, TypeOK
  <2>3. QED
    BY <1>12, <2>1, <2>2 DEF FinishPrefetch
<1>13. CASE \E c \in Configs : CreatePartition(r, c)
  BY <1>2, <1>13 DEF CreatePartition, SavePartition, historyVars
<1>14. CASE DeletePartition(r)
  BY <1>2, <1>14 DEF DeletePartition, RemovePartition, historyVars
<1>15. CASE Drop(r)
  BY <1>1, <1>4, <1>15 DEF Drop, RangesFit, IdsFit, TypeOK
<1>16. QED
  BY <1>6, <1>7, <1>9, <1>10, <1>11, <1>12, <1>13, <1>14, <1>15
     DEF ReplicaStep, ErasePartition, Restart

(* Every ID returned is a safe JavaScript integer: the rollover check of   *)
(* the stores keeps each bucket inside its share of the ID space.          *)
THEOREM IdsAreSafeIntegers == Spec => []IdsFit
<1>1. Init => Coherent /\ RangesFit
  BY ConfigAssumption
     DEF Init, Coherent, TypeOK, CoherentAt, EmptyBlock, SuperBlock, FetchStates,
         is_empty, RangesFit, IdsFit
<1>2. Coherent /\ RangesFit /\ [Next]_vars => Coherent' /\ RangesFit'
  BY CoherentStep, FitStep
<1>3. RangesFit => IdsFit
  BY DEF RangesFit
<1>4. QED
  BY <1>1, <1>2, <1>3, PTL DEF Spec

-----------------------------------------------------------------------------
(* Uniqueness, for replicas on a durable store and one ID layout.          *)

(* What a step does to the IDs, and to what clients see.                   *)
StepEffect(r) ==
    \E G, L, N \in SUBSET Nat :
        /\ Moves(r, G, L, N)
        /\ \/ G = {} /\ grants' = grants
           \/ /\ grants' = grants + 1
              /\ G # {}
              /\ \E lo, hi \in 0 .. IdLimit - 1 : G = lo .. hi

(* A caller is served from a super block the replica held, or from a       *)
(* reservation N.                                                          *)
LEMMA ServeEffect ==
    ASSUME TypeOK, NoSharedIds, NEW r \in Replicas, loaded[r] # None,
           NEW sb \in SuperBlock, NEW bg \in SuperBlock, NEW pending \in BOOLEAN,
           sb.range_end <= IdLimit, NEW N \in SUBSET Nat,
           IdsOf(sb) \cup IdsOf(bg) \subseteq Held(r) \cup N,
           IdsOf(sb) \cap IdsOf(bg) = {},
           Serve(r, sb, bg, pending), lost' = lost,
           N \cap Reserved = {}, Reserved' = Reserved \cup N,
           \A b \in Buckets : counter'[b] <= IdSpan
    PROVE  StepEffect(r)
<1>1. PICK G \in SUBSET IdsOf(sb) : Serves(r, sb, bg, G)
  BY ServeMoves
<1>2. G \in SUBSET Nat
  BY DEF IdsOf, SuperBlock
<1>3. PICK lo \in Nat, hi \in Nat : G = lo .. hi /\ lo <= hi /\ hi < sb.range_end
  BY <1>1 DEF Serves
<1>4. lo \in 0 .. IdLimit - 1 /\ hi \in 0 .. IdLimit - 1
  BY <1>3, ConfigAssumption DEF SuperBlock
<1>5. Held(r)' = (IdsOf(sb) \ G) \cup IdsOf(bg)
  BY <1>1 DEF Held, Serves
<1>6. Moves(r, G, {}, N)
  BY <1>1, <1>5 DEF Moves, Serves
<1>7. QED
  BY <1>1, <1>2, <1>3, <1>4, <1>6 DEF StepEffect, Serves

(* Every step of a replica has such an effect, one case per action.        *)
LEMMA StepMoves ==
    ASSUME StoreKind = "datastore", OneLayout,
           AllocatorInv, RangesFit, NEW r \in Replicas, ReplicaStep(r)
    PROVE  StepEffect(r)
<1>1. /\ TypeOK /\ CoherentAt(r) /\ NoSharedIds /\ BelowCounters
      /\ \A b \in Buckets : counter[b] <= IdSpan
  BY DEF AllocatorInv, Coherent, BelowCounters
<1>2. EmptyBlock \in SuperBlock /\ IdsOf(EmptyBlock) = {}
      /\ EmptyBlock.range_end <= IdLimit
  BY ConfigAssumption DEF EmptyBlock, SuperBlock, IdsOf
<1>3. ASSUME UNCHANGED <<active, background, fetched, granted, grants, lost, counter>>
      PROVE  StepEffect(r)
  <2>1. /\ Reserved' = Reserved
        /\ Held(r)' = Held(r)
        /\ \A b \in Buckets : counter'[b] <= IdSpan
    BY <1>1, <1>3 DEF Reserved, Held, IdsOf
  <2>2. Moves(r, {}, {}, {})
    BY <1>1, <1>3, <2>1 DEF Moves, NoSharedIds, IdsOf
  <2>3. QED
    BY <1>3, <2>2 DEF StepEffect
<1>4. /\ active[r] \in SuperBlock /\ active[r].range_end <= IdLimit
      /\ Harvested(r) \in SuperBlock /\ Harvested(r).range_end <= IdLimit
      /\ IdsOf(active[r]) \cup IdsOf(Harvested(r)) \subseteq Held(r)
      /\ IdsOf(active[r]) \cap IdsOf(Harvested(r)) = {}
      /\ (fetch[r] = "running") \in BOOLEAN
  BY <1>1 DEF TypeOK, RangesFit, Harvested, Held, NoSharedIds
<1>5. UNCHANGED counter => Reserved' = Reserved
  BY DEF Reserved
<1>6. CASE CarveActive(r)
  <2>1. /\ Serve(r, active[r], Harvested(r), fetch[r] = "running")
        /\ loaded[r] # None /\ UNCHANGED <<counter, lost>>
    BY <1>6 DEF CarveActive, CanCall, storeVars
  <2>2. QED
    BY <1>1, <1>4, <1>5, <2>1, ServeEffect
<1>7. CASE PromoteBackground(r)
  <2>1. /\ Serve(r, Harvested(r), EmptyBlock, fetch[r] = "running")
        /\ loaded[r] # None /\ UNCHANGED <<counter, lost>>
    BY <1>7 DEF PromoteBackground, CanCall, storeVars
  <2>2. IdsOf(Harvested(r)) \cup IdsOf(EmptyBlock) \subseteq Held(r) \cup {}
        /\ IdsOf(Harvested(r)) \cap IdsOf(EmptyBlock) = {}
    BY <1>2, <1>4
  <2>3. QED
    BY <1>1, <1>2, <1>4, <1>5, <2>1, <2>2, ServeEffect
<1>8. CASE AwaitFailedPrefetch(r)
  BY <1>3, <1>8 DEF AwaitFailedPrefetch, ReplyError, storeVars
<1>9. CASE StartSyncFetch(r)
  BY <1>3, <1>9 DEF StartSyncFetch, ReplyError, storeVars
<1>10. ASSUME fetch[r] \in {"running", "sync"}
       PROVE  /\ loaded[r] \in Configs /\ loaded[r] # None
              /\ bucket[r] \in Buckets
              /\ bucket[r] < loaded[r].num_buckets
  BY <1>1, <1>10, ConfigAssumption DEF TypeOK, CoherentAt, Buckets, Valid
<1> DEFINE c == loaded[r]
           b == bucket[r]
           N == IdsOf(Reservation(c, b))
<1>11. ASSUME fetch[r] \in {"running", "sync"}, HasRoom(c, b)
       PROVE  /\ Reservation(c, b) \in SuperBlock
              /\ Reservation(c, b).range_end <= IdLimit
              /\ N \in SUBSET Nat
              /\ N \cap Reserved = {}
              /\ N \cap Held(r) = {}
              /\ Bump(c, b) => /\ Reserved' = Reserved \cup N
                               /\ \A x \in Buckets : counter'[x] <= IdSpan
  <2>1. Reservation(c, b) \in SuperBlock
    BY <1>1, <1>10, <1>11, ReservationShape
  <2>2. Reservation(c, b).range_end <= IdLimit
    BY <1>1, <1>10, <1>11, ReservationFits
  <2>3. N \in SUBSET Nat
    BY <2>1 DEF IdsOf, SuperBlock
  <2>4. /\ N \cap Reserved = {}
        /\ Bump(c, b) => /\ Reserved' = Reserved \cup N
                         /\ \A x \in Buckets : counter'[x] <= IdSpan
    BY <1>1, <1>10, <1>11, ReservationFresh
  <2>5. Held(r) \subseteq Reserved
    BY <1>1 DEF BelowCounters
  <2> HIDE DEF N
  <2>6. QED
    BY <2>1, <2>2, <2>3, <2>4, <2>5
<1>12. ASSUME fetch[r] \in {"running", "sync"}, AllocateError(c, b),
              UNCHANGED <<active, background, fetched, granted, grants>>
       PROVE  StepEffect(r)
  <2>1. CASE UNCHANGED <<counter, lost>>
    BY <1>3, <1>12, <2>1
  <2>2. CASE HasRoom(c, b) /\ Bump(c, b) /\ lost' = lost \cup N
    <3>1. /\ N \in SUBSET Nat /\ N \cap Reserved = {} /\ N \cap Held(r) = {}
          /\ Reserved' = Reserved \cup N
          /\ \A x \in Buckets : counter'[x] <= IdSpan
      BY <1>11, <1>12, <2>2
    <3> HIDE DEF N
    <3>2. Held(r)' = Held(r)
      BY <1>12 DEF Held, IdsOf
    <3>3. Moves(r, {}, N, N)
      BY <1>1, <1>12, <2>2, <3>1, <3>2 DEF Moves, NoSharedIds, IdsOf
    <3>4. QED
      BY <1>12, <3>1, <3>3 DEF StepEffect
  <2>3. QED
    BY <1>12, <2>1, <2>2 DEF AllocateError
<1>13. CASE FinishSyncFetch(r)
  <2>1. fetch[r] \in {"running", "sync"}
    BY <1>13 DEF FinishSyncFetch
  <2>2. CASE AllocateError(c, b) /\ ReplyError(r)
    BY <1>12, <2>1, <2>2 DEF ReplyError
  <2>3. CASE AllocateOk(c, b) /\ Serve(r, Reservation(c, b), EmptyBlock, FALSE)
    <3>1. HasRoom(c, b) /\ Bump(c, b) /\ lost' = lost
      BY <2>3 DEF AllocateOk
    <3>2. /\ N \in SUBSET Nat /\ N \cap Reserved = {}
          /\ Reserved' = Reserved \cup N
          /\ \A x \in Buckets : counter'[x] <= IdSpan
          /\ Reservation(c, b) \in SuperBlock
          /\ Reservation(c, b).range_end <= IdLimit
      BY <1>11, <2>1, <3>1
    <3>3. /\ IdsOf(Reservation(c, b)) \cup IdsOf(EmptyBlock) \subseteq Held(r) \cup N
          /\ IdsOf(Reservation(c, b)) \cap IdsOf(EmptyBlock) = {}
      BY <1>2
    <3>4. loaded[r] # None
      BY <1>10, <2>1
    <3>5. QED
      BY <1>1, <1>2, <2>3, <3>1, <3>2, <3>3, <3>4, ServeEffect
  <2>4. QED
    BY <1>13, <2>2, <2>3 DEF FinishSyncFetch
<1>14. CASE FinishPrefetch(r)
  <2>1. /\ fetch[r] \in {"running", "sync"} /\ fetch[r] = "running"
        /\ UNCHANGED <<active, background, granted, grants>>
    BY <1>14 DEF FinishPrefetch
  <2>2. CASE AllocateError(c, b) /\ UNCHANGED fetched
    BY <1>12, <2>1, <2>2
  <2>3. CASE AllocateOk(c, b) /\ fetched' = [fetched EXCEPT ![r] = Reservation(c, b)]
    <3>1. HasRoom(c, b) /\ Bump(c, b) /\ lost' = lost
      BY <2>3 DEF AllocateOk
    <3>2. /\ N \in SUBSET Nat /\ N \cap Reserved = {} /\ N \cap Held(r) = {}
          /\ Reserved' = Reserved \cup N
          /\ \A x \in Buckets : counter'[x] <= IdSpan
      BY <1>11, <2>1, <3>1
    <3>3. fetched'[r] = Reservation(c, b)
          /\ \A q \in Replicas \ {r} : fetched'[q] = fetched[q]
      BY <1>1, <2>3 DEF TypeOK
    <3>4. (IdsOf(fetched[r]))' = N
      BY <3>3 DEF IdsOf
    <3> HIDE DEF N
    <3>5. (IdsOf(active[r]))' = IdsOf(active[r])
          /\ (IdsOf(background[r]))' = IdsOf(background[r])
      BY <2>1 DEF IdsOf
    <3>6. Moves(r, {}, {}, N)
      BY <1>1, <2>1, <3>1, <3>2, <3>3, <3>4, <3>5 DEF Moves, NoSharedIds, Held
    <3>7. QED
      BY <2>1, <3>2, <3>6 DEF StepEffect
  <2>4. QED
    BY <1>14, <2>2, <2>3 DEF FinishPrefetch
<1>15. CASE \E d \in Configs : CreatePartition(r, d)
  BY <1>3, <1>15 DEF CreatePartition, SavePartition, historyVars
<1>16. CASE DeletePartition(r)
  BY <1>3, <1>16 DEF DeletePartition, RemovePartition, historyVars
<1>17. ASSUME Drop(r), NEW M \in SUBSET Nat, M \cap Reserved = {},
              lost' = lost \cup (Held(r) \cup M), Reserved' = Reserved \cup M,
              \A x \in Buckets : counter'[x] <= IdSpan
       PROVE  StepEffect(r)
  <2>1. /\ active'[r] = EmptyBlock /\ background'[r] = EmptyBlock
        /\ fetched'[r] = EmptyBlock /\ UNCHANGED <<granted, grants>>
        /\ \A q \in Replicas \ {r} : /\ active'[q] = active[q]
                                     /\ background'[q] = background[q]
                                     /\ fetched'[q] = fetched[q]
    BY <1>1, <1>17 DEF Drop, TypeOK
  <2>2. /\ (IdsOf(active[r]))' = {} /\ (IdsOf(background[r]))' = {}
        /\ (IdsOf(fetched[r]))' = {} /\ Held(r)' = {}
    BY <1>2, <2>1 DEF Held, IdsOf
  <2>3. Held(r) \cup M \in SUBSET Nat
    <3>1. \A sb \in SuperBlock : IdsOf(sb) \subseteq Nat
      BY DEF IdsOf, SuperBlock
    <3>2. active[r] \in SuperBlock /\ background[r] \in SuperBlock
          /\ fetched[r] \in SuperBlock
      BY <1>1 DEF TypeOK
    <3>3. Held(r) \subseteq Nat
      BY <3>1, <3>2 DEF Held
    <3>4. QED
      BY <1>17, <3>3
  <2>4. Moves(r, {}, Held(r) \cup M, M)
    BY <1>17, <2>1, <2>2 DEF Moves
  <2>5. QED
    BY <1>17, <2>1, <2>3, <2>4 DEF StepEffect
<1>18. ASSUME Drop(r), UNCHANGED counter, lost' = lost \cup Held(r)
       PROVE  StepEffect(r)
  <2>1. lost' = lost \cup (Held(r) \cup {}) /\ Reserved' = Reserved \cup {}
        /\ \A x \in Buckets : counter'[x] <= IdSpan
        /\ {} \in SUBSET Nat /\ {} \cap Reserved = {}
    BY <1>1, <1>5, <1>18
  <2>2. QED
    BY <1>17, <1>18, <2>1, Zenon
<1>19. CASE ErasePartition(r)
  BY <1>18, <1>19 DEF ErasePartition, storeVars
<1>20. CASE Restart(r)
  <2>1. CASE /\ fetch[r] \in {"running", "sync"} /\ HasRoom(c, b)
             /\ lost' = lost \cup Held(r) \cup N /\ Bump(c, b) /\ Drop(r)
    <3>1. /\ N \in SUBSET Nat /\ N \cap Reserved = {}
          /\ Reserved' = Reserved \cup N
          /\ \A x \in Buckets : counter'[x] <= IdSpan
      BY <1>11, <2>1
    <3> HIDE DEF N
    <3>2. lost' = lost \cup (Held(r) \cup N)
      BY <2>1
    <3>3. QED
      BY <1>17, <2>1, <3>1, <3>2
  <2>2. CASE Drop(r) /\ UNCHANGED counter /\ lost' = lost \cup Held(r)
    BY <1>18, <2>2
  <2>3. QED
    BY <1>20, <2>1, <2>2 DEF Restart
<1>21. QED
  BY <1>6, <1>7, <1>8, <1>9, <1>13, <1>14, <1>15, <1>16, <1>19, <1>20
     DEF ReplicaStep

(* The initial states satisfy the invariants.                              *)
LEMMA AllocatorInit ==
    Configs # {} => (Init => AllocatorInv /\ RangesFit)
<1> SUFFICES ASSUME Init, Configs # {} PROVE AllocatorInv /\ RangesFit
  OBVIOUS
<1>1. Coherent /\ RangesFit
  BY ConfigAssumption
     DEF Init, Coherent, TypeOK, CoherentAt, EmptyBlock, SuperBlock, FetchStates,
         is_empty, RangesFit, IdsFit
<1>2. \A r \in Replicas : Held(r) = {} /\ IdsOf(active[r]) = {}
                         /\ IdsOf(background[r]) = {} /\ IdsOf(fetched[r]) = {}
  BY DEF Init, Held, IdsOf, EmptyBlock
<1>3. NoSharedIds
  BY <1>2 DEF Init, NoSharedIds
<1>4. IdSpan \in Nat
  BY ConfigAssumption DEF IdSpan, Valid
<1>5. BelowCounters
  BY <1>2, <1>4 DEF Init, BelowCounters
<1>6. QED
  BY <1>1, <1>3, <1>5 DEF AllocatorInv

(* Every step keeps the invariants and is a step of BlockServer, or leaves *)
(* what clients see alone.                                                 *)
LEMMA AllocatorStep ==
    ASSUME StoreKind = "datastore", OneLayout,
           AllocatorInv, RangesFit, [Next]_vars
    PROVE  /\ AllocatorInv' /\ RangesFit'
           /\ [Server!BlockNext]_(Server!blockVars)
<1>1. Coherent' /\ RangesFit'
  BY CoherentStep, FitStep DEF AllocatorInv
<1>2. CASE UNCHANGED vars
  <2>1. NoSharedIds' /\ BelowCounters'
    BY <1>2 DEF AllocatorInv, NoSharedIds, BelowCounters, Held, IdsOf, Reserved,
                vars, storeVars, replicaVars, historyVars
  <2>2. QED
    BY <1>1, <1>2, <2>1 DEF AllocatorInv, Server!blockVars, vars, historyVars
<1>3. ASSUME NEW r \in Replicas, ReplicaStep(r)
      PROVE  /\ AllocatorInv' /\ RangesFit'
             /\ [Server!BlockNext]_(Server!blockVars)
  <2>1. PICK G \in SUBSET Nat, L \in SUBSET Nat, N \in SUBSET Nat :
          /\ Moves(r, G, L, N)
          /\ \/ G = {} /\ grants' = grants
             \/ /\ grants' = grants + 1
                /\ G # {}
                /\ \E lo, hi \in 0 .. IdLimit - 1 : G = lo .. hi
    BY <1>3, StepMoves DEF StepEffect
  <2>2. NoSharedIds' /\ BelowCounters' /\ G \cap granted = {}
    BY <2>1, MovesKeep DEF AllocatorInv
  <2>3. granted' = granted \cup G
    BY <2>1 DEF Moves
  <2>4. CASE G = {} /\ grants' = grants
    BY <1>1, <2>2, <2>3, <2>4 DEF AllocatorInv, Server!blockVars
  <2>5. CASE /\ grants' = grants + 1
             /\ G # {}
             /\ \E lo, hi \in 0 .. IdLimit - 1 : G = lo .. hi
    <3>1. Server!BlockNext
      BY <2>2, <2>3, <2>5 DEF Server!BlockNext, Server!Grant
    <3>2. QED
      BY <1>1, <2>2, <3>1 DEF AllocatorInv
  <2>6. QED
    BY <2>1, <2>4, <2>5
<1>4. QED
  BY <1>2, <1>3 DEF Next

(* No ID is in two places, on any number of replicas over the Datastore,   *)
(* whatever crashes, deletions, re-creations and lost answers happen, as   *)
(* long as the partition keeps its bucket_size_bits.                       *)
THEOREM UniqueIds ==
    ASSUME StoreKind = "datastore", OneLayout, Configs # {}
    PROVE  Spec => []NoSharedIds
<1>1. Init => AllocatorInv /\ RangesFit
  BY AllocatorInit
<1>2. AllocatorInv /\ RangesFit /\ [Next]_vars => AllocatorInv' /\ RangesFit'
  BY AllocatorStep
<1>3. AllocatorInv => NoSharedIds
  BY DEF AllocatorInv
<1>4. QED
  BY <1>1, <1>2, <1>3, PTL DEF Spec

(* Under the same conditions the replicas together implement BlockServer:  *)
(* every block returned is a range of IDs none of which was ever returned. *)
THEOREM ImplementsBlockServer ==
    ASSUME StoreKind = "datastore", OneLayout, Configs # {}
    PROVE  Spec => NoReissue
<1>1. Init => AllocatorInv /\ RangesFit /\ Server!BlockInit
  BY AllocatorInit DEF Init, Server!BlockInit
<1>2. AllocatorInv /\ RangesFit /\ [Next]_vars =>
        AllocatorInv' /\ RangesFit' /\ [Server!BlockNext]_(Server!blockVars)
  BY AllocatorStep
<1>3. QED
  BY <1>1, <1>2, PTL DEF Spec, NoReissue, Server!BlockSpec

-----------------------------------------------------------------------------
(* The replicas drop no ID that the store reserved for them.  What is left *)
(* of a super block that cannot serve another block is never kept, so this *)
(* rests on validate()'s check that a super block is a whole number of     *)
(* blocks.                                                                 *)

(* Super blocks hold whole numbers of blocks.                              *)

(* What is left of sb is some number of blocks of k IDs.                   *)
Whole(sb, k) ==
    /\ sb.range_start <= sb.next
    /\ \E n \in Nat : sb.range_end = sb.next + n * k

(* The inductive invariant, next to Coherent: it holds of the three super  *)
(* blocks of a replica, and a synchronous fetch is only in flight when the *)
(* active super block is used up.                                          *)
WholeAt(r) ==
    /\ loaded[r] # None =>
          /\ Whole(active[r], loaded[r].block_size)
          /\ Whole(background[r], loaded[r].block_size)
          /\ Whole(fetched[r], loaded[r].block_size)
    /\ fetch[r] = "sync" => ~CanServe(r, active[r])

WholeBlocks == \A r \in Replicas : WholeAt(r)

LEMMA EmptyWhole ==
    ASSUME NEW k \in Nat
    PROVE  Whole(EmptyBlock, k) /\ IdsOf(EmptyBlock) = {} /\ EmptyBlock \in SuperBlock
<1>1. 0 = 0 + 0 * k
  OBVIOUS
<1>2. QED
  BY <1>1 DEF Whole, EmptyBlock, IdsOf, SuperBlock

(* A multiple of k is zero, or k and another multiple.                     *)
LEMMA Multiples ==
    ASSUME NEW n \in Nat, NEW k \in Nat
    PROVE  n # 0 => n - 1 \in Nat /\ n * k = k + (n - 1) * k /\ (n - 1) * k \in Nat
<1> SUFFICES ASSUME n # 0
             PROVE  n - 1 \in Nat /\ n * k = k + (n - 1) * k /\ (n - 1) * k \in Nat
  OBVIOUS
<1>1. PICK d \in Nat : n = d + 1
  <2>1. n - 1 \in Nat
    OBVIOUS
  <2>2. QED
    BY <2>1
<1>2. (d + 1) * k = k + d * k /\ d * k \in Nat
  BY SMT
<1>3. n - 1 = d
  BY <1>1
<1>4. QED
  BY <1>1, <1>2, <1>3

(* An empty super block, or a whole one that cannot serve, has no IDs.     *)
LEMMA UsedUp ==
    ASSUME NEW sb \in SuperBlock, NEW k \in Nat \ {0}, Whole(sb, k),
           is_empty(sb) \/ ~(remaining(sb) >= k)
    PROVE  IdsOf(sb) = {}
<1>1. sb.range_start \in Nat /\ sb.range_end \in Nat /\ sb.next \in Nat
  BY DEF SuperBlock
<1>2. CASE is_empty(sb)
  BY <1>1, <1>2 DEF is_empty, Whole, IdsOf
<1>3. CASE ~(remaining(sb) >= k)
  <2>1. PICK n \in Nat : sb.range_end = sb.next + n * k
    BY DEF Whole
  <2>2. CASE n = 0
    BY <1>1, <2>1, <2>2 DEF IdsOf
  <2>3. CASE n # 0
    <3>1. n * k = k + (n - 1) * k /\ (n - 1) * k \in Nat
      BY <2>3, Multiples
    <3> DEFINE m == (n - 1) * k
               e == n * k
    <3>2. e = k + m /\ m \in Nat /\ sb.range_end = sb.next + e
      BY <2>1, <3>1
    <3> HIDE DEF m, e
    <3>3. remaining(sb) >= k
      BY <1>1, <3>2 DEF remaining
    <3>4. QED
      BY <1>3, <3>3
  <2>4. QED
    BY <2>2, <2>3
<1>4. QED
  BY <1>2, <1>3

(* Carving a block off a super block that can serve leaves a whole one.    *)
LEMMA CarvedWhole ==
    ASSUME NEW sb \in SuperBlock, NEW k \in Nat \ {0}, Whole(sb, k),
           remaining(sb) >= k
    PROVE  Whole([sb EXCEPT !.next = @ + k], k)
<1> DEFINE carved == [sb EXCEPT !.next = @ + k]
<1>1. sb.range_start \in Nat /\ sb.range_end \in Nat /\ sb.next \in Nat
  BY DEF SuperBlock
<1>2. /\ carved.range_start = sb.range_start /\ carved.range_end = sb.range_end
      /\ carved.next = sb.next + k
  BY DEF SuperBlock
<1>3. PICK n \in Nat : sb.range_end = sb.next + n * k
  BY DEF Whole
<1>4. n # 0
  BY <1>1, <1>3 DEF remaining
<1>5. n - 1 \in Nat /\ n * k = k + (n - 1) * k /\ (n - 1) * k \in Nat
  BY <1>4, Multiples
<1> DEFINE m == (n - 1) * k
           e == n * k
<1>6. sb.range_end = sb.next + e /\ e = k + m /\ m \in Nat
  BY <1>3, <1>5
<1> HIDE DEF m, e, carved
<1>7. carved.range_end = carved.next + m
  BY <1>1, <1>2, <1>6
<1>8. carved.range_start <= carved.next
  BY <1>1, <1>2 DEF Whole
<1>9. \E j \in Nat : carved.range_end = carved.next + j * k
  BY <1>5, <1>7 DEF m
<1>10. QED
  BY <1>8, <1>9 DEF Whole, carved

(* What the store reserves is a whole number of blocks.                    *)
LEMMA ReservationWhole ==
    ASSUME TypeOK, NEW c \in Configs, NEW b \in Buckets
    PROVE  Whole(Reservation(c, b), c.block_size)
<1>1. ASSUME NEW s \in Nat \ {0}, NEW k \in Nat \ {0}, s % k = 0
      PROVE  \E n \in Nat : s = n * k
  <2>1. ASSUME NEW x \in Int, NEW y \in Int, y > 0
        PROVE  x = y * (x \div y) + (x % y)
    BY <2>1, Z3
  <2>2. s = k * (s \div k) + (s % k) /\ s \div k \in Nat
    BY <2>1, SMT
  <2> DEFINE d == s \div k
  <2> HIDE DEF d
  <2>3. d \in Nat /\ s = k * d
    BY <1>1, <2>2 DEF d
  <2>4. k * d = d * k
    BY <2>3
  <2>5. QED
    BY <2>3, <2>4
<1>2. PICK n \in Nat : c.super_block_size = n * c.block_size
  BY <1>1, ConfigAssumption DEF Valid
<1>3. b \in Nat /\ c.bucket_size \in Nat /\ c.super_block_size \in Nat
      /\ counter[b] \in Nat
  BY ConfigAssumption DEF Valid, TypeOK, Buckets
<1> DEFINE s == b * c.bucket_size
           q == counter[b]
           m == c.super_block_size
<1>4. s \in Nat
  BY <1>3
<1>5. /\ Reservation(c, b).range_start = s + q
      /\ Reservation(c, b).next = s + q
      /\ Reservation(c, b).range_end = s + (q + m)
  BY DEF Reservation, compose_id
<1>6. m = n * c.block_size /\ m \in Nat /\ q \in Nat
  BY <1>2, <1>3
<1> HIDE DEF s, q, m
<1>7. s + (q + m) = (s + q) + m /\ s + q <= s + q
  BY <1>4, <1>6
<1>8. QED
  BY <1>5, <1>6, <1>7 DEF Whole

(* A replica none of whose variables change stays whole.                   *)
LEMMA WholeFrame ==
    ASSUME NEW q \in Replicas, WholeAt(q),
           loaded'[q] = loaded[q], active'[q] = active[q],
           background'[q] = background[q], fetch'[q] = fetch[q],
           fetched'[q] = fetched[q]
    PROVE  WholeAt(q)'
BY DEF WholeAt, Whole, CanServe, remaining

(* Serving a block from a whole super block.                               *)
LEMMA ServeWhole ==
    ASSUME TypeOK, NEW r \in Replicas, loaded[r] # None,
           NEW sb \in SuperBlock, NEW bg \in SuperBlock, NEW pending \in BOOLEAN,
           Whole(sb, loaded[r].block_size), Whole(bg, loaded[r].block_size),
           Serve(r, sb, bg, pending)
    PROVE  /\ WholeAt(r)'
           /\ \A q \in Replicas \ {r} :
                /\ loaded'[q] = loaded[q] /\ active'[q] = active[q]
                /\ background'[q] = background[q] /\ fetch'[q] = fetch[q]
                /\ fetched'[q] = fetched[q]
<1> DEFINE k == loaded[r].block_size
           carved == [sb EXCEPT !.next = @ + k]
<1>1. k \in Nat \ {0}
  BY ConfigAssumption DEF TypeOK, Valid
<1>2. Whole(carved, k) /\ Whole(EmptyBlock, k)
  BY <1>1, CarvedWhole, EmptyWhole DEF Serve, CanServe
<1>3. /\ active' = [active EXCEPT ![r] = carved]
      /\ background' = [background EXCEPT ![r] = bg]
      /\ fetched' = [fetched EXCEPT ![r] = EmptyBlock]
      /\ loaded' = loaded
      /\ maybe_start_prefetch(r, carved, bg, pending)
  BY DEF Serve
<1>4. \E f \in {"running", "none"} : fetch' = [fetch EXCEPT ![r] = f]
  BY <1>3 DEF maybe_start_prefetch
<1> HIDE DEF carved
<1>5. /\ active'[r] = carved /\ background'[r] = bg /\ fetched'[r] = EmptyBlock
      /\ loaded'[r] = loaded[r] /\ fetch'[r] # "sync"
      /\ \A q \in Replicas \ {r} :
           /\ loaded'[q] = loaded[q] /\ active'[q] = active[q]
           /\ background'[q] = background[q] /\ fetch'[q] = fetch[q]
           /\ fetched'[q] = fetched[q]
  BY <1>3, <1>4 DEF TypeOK
<1>6. Whole(active'[r], k) /\ Whole(background'[r], k) /\ Whole(fetched'[r], k)
  BY <1>2, <1>5
<1>7. WholeAt(r)'
  BY <1>5, <1>6 DEF WholeAt, Whole
<1>8. QED
  BY <1>5, <1>7

LEMMA WholeStep ==
    ASSUME Coherent, WholeBlocks, [Next]_vars
    PROVE  WholeBlocks'
<1>1. TypeOK /\ (\A r \in Replicas : CoherentAt(r)) /\ \A r \in Replicas : WholeAt(r)
  BY DEF Coherent, WholeBlocks
<1>2. CASE UNCHANGED vars
  BY <1>1, <1>2, WholeFrame DEF vars, replicaVars, WholeBlocks
<1> SUFFICES ASSUME NEW r \in Replicas, ReplicaStep(r)
             PROVE  WholeBlocks'
  BY <1>2 DEF Next
<1> DEFINE Frame ==
      \A q \in Replicas \ {r} :
         /\ loaded'[q] = loaded[q] /\ active'[q] = active[q]
         /\ background'[q] = background[q] /\ fetch'[q] = fetch[q]
         /\ fetched'[q] = fetched[q]
<1> SUFFICES WholeAt(r)' /\ Frame
  BY <1>1, WholeFrame DEF WholeBlocks
<1> DEFINE c == loaded[r]
           b == bucket[r]
<1>3. c # None => c \in Configs /\ c.block_size \in Nat \ {0}
  BY <1>1, ConfigAssumption DEF TypeOK, Valid
<1>4. /\ active[r] \in SuperBlock /\ Harvested(r) \in SuperBlock
      /\ (fetch[r] = "running") \in BOOLEAN
  BY <1>1 DEF TypeOK, Harvested
<1>5. c # None => Whole(active[r], c.block_size) /\ Whole(Harvested(r), c.block_size)
  BY <1>1 DEF WholeAt, Harvested
<1>6. /\ EmptyBlock \in SuperBlock
      /\ c # None => Whole(EmptyBlock, c.block_size)
  BY <1>3, EmptyWhole
<1>7. CASE CarveActive(r)
  BY <1>1, <1>4, <1>5, <1>7, ServeWhole DEF CarveActive, CanCall
<1>8. CASE PromoteBackground(r)
  BY <1>1, <1>4, <1>5, <1>6, <1>8, ServeWhole DEF PromoteBackground, CanCall
<1>9. ASSUME UNCHANGED <<loaded, active, background, fetched>>,
             NEW f, fetch' = [fetch EXCEPT ![r] = f],
             f = "sync" => ~CanServe(r, active[r])
      PROVE  WholeAt(r)' /\ Frame
  BY <1>1, <1>9 DEF WholeAt, Whole, CanServe, remaining, TypeOK
<1>10. CASE AwaitFailedPrefetch(r)
  BY <1>9, <1>10 DEF AwaitFailedPrefetch, ReplyError
<1>11. CASE StartSyncFetch(r)
  BY <1>9, <1>11 DEF StartSyncFetch, ReplyError, BothExhausted
<1>12. ASSUME fetch[r] \in {"running", "sync"}
       PROVE  /\ c \in Configs /\ c # None /\ b \in Buckets
              /\ Reservation(c, b) \in SuperBlock
              /\ Whole(Reservation(c, b), c.block_size)
  <2>1. c \in Configs /\ c # None /\ b \in Buckets
    BY <1>1, <1>12, ConfigAssumption DEF TypeOK, CoherentAt, Buckets, Valid
  <2>2. QED
    BY <1>1, <2>1, ReservationShape, ReservationWhole
<1>13. CASE FinishSyncFetch(r)
  <2>1. CASE ReplyError(r)
    BY <1>9, <2>1 DEF ReplyError
  <2>2. CASE Serve(r, Reservation(c, b), EmptyBlock, FALSE)
    <3>1. fetch[r] \in {"running", "sync"}
      BY <1>13 DEF FinishSyncFetch
    <3>2. QED
      BY <1>1, <1>6, <1>12, <2>2, <3>1, ServeWhole
  <2>3. QED
    BY <1>13, <2>1, <2>2 DEF FinishSyncFetch
<1>14. CASE FinishPrefetch(r)
  <2>1. CASE UNCHANGED fetched
    BY <1>9, <1>14, <2>1 DEF FinishPrefetch
  <2>2. CASE fetched' = [fetched EXCEPT ![r] = Reservation(c, b)]
    <3>1. /\ fetch[r] \in {"running", "sync"}
          /\ UNCHANGED <<loaded, active, background>>
          /\ \E f \in {"ready", "failed"} : fetch' = [fetch EXCEPT ![r] = f]
      BY <1>14 DEF FinishPrefetch
    <3>2. Whole(Reservation(c, b), c.block_size) /\ c # None
      BY <1>12, <3>1
    <3>3. /\ fetched'[r] = Reservation(c, b) /\ fetch'[r] # "sync"
          /\ \A q \in Replicas \ {r} : fetched'[q] = fetched[q] /\ fetch'[q] = fetch[q]
      BY <1>1, <2>2, <3>1 DEF TypeOK
    <3>4. Whole(fetched'[r], c.block_size)
      BY <3>2, <3>3
    <3>5. WholeAt(r)'
      BY <1>1, <3>1, <3>3, <3>4 DEF WholeAt, Whole
    <3>6. QED
      BY <3>1, <3>3, <3>5
  <2>3. QED
    BY <1>14, <2>1, <2>2 DEF FinishPrefetch
<1>15. ASSUME loaded'[r] \in Configs \cup {None}, fetch'[r] = "none",
              active'[r] = EmptyBlock, background'[r] = EmptyBlock,
              fetched'[r] = EmptyBlock
       PROVE  WholeAt(r)'
  <2>1. loaded'[r] # None => loaded'[r].block_size \in Nat
    BY <1>15, ConfigAssumption DEF Valid
  <2>2. loaded'[r] # None => Whole(EmptyBlock, loaded'[r].block_size)
    BY <2>1, EmptyWhole
  <2>3. QED
    BY <1>15, <2>2 DEF WholeAt, Whole
<1>16. CASE \E d \in Configs : CreatePartition(r, d)
  <2>1. /\ c = None
        /\ UNCHANGED <<active, background, fetch, fetched>>
        /\ \E d \in Configs \cup {None} : loaded' = [loaded EXCEPT ![r] = d]
    BY <1>1, <1>16 DEF CreatePartition, TypeOK
  <2>2. /\ active[r] = EmptyBlock /\ background[r] = EmptyBlock
        /\ fetched[r] = EmptyBlock /\ fetch[r] = "none"
    BY <1>1, <2>1 DEF CoherentAt
  <2>3. Frame /\ loaded'[r] \in Configs \cup {None}
    BY <1>1, <2>1 DEF TypeOK
  <2>4. QED
    BY <1>15, <2>1, <2>2, <2>3
<1>17. CASE DeletePartition(r)
  BY <1>1, <1>17, WholeFrame DEF DeletePartition
<1>18. ASSUME Drop(r), NEW d \in Configs \cup {None},
              loaded' = [loaded EXCEPT ![r] = d]
       PROVE  WholeAt(r)' /\ Frame
  <2>1. /\ active'[r] = EmptyBlock /\ background'[r] = EmptyBlock
        /\ fetched'[r] = EmptyBlock /\ fetch'[r] = "none" /\ loaded'[r] = d
        /\ Frame
    BY <1>1, <1>18 DEF Drop, TypeOK
  <2>2. QED
    BY <1>15, <2>1
<1>19. CASE ErasePartition(r)
  BY <1>18, <1>19 DEF ErasePartition
<1>20. CASE Restart(r)
  <2>1. saved \in Configs \cup {None}
    BY <1>1 DEF TypeOK
  <2>2. QED
    BY <1>18, <1>20, <2>1 DEF Restart
<1>21. QED
  BY <1>7, <1>8, <1>10, <1>11, <1>13, <1>14, <1>16, <1>17, <1>19, <1>20
     DEF ReplicaStep

-----------------------------------------------------------------------------
(* No reserved ID is dropped.                                              *)

(* The half of Conservation that BelowCounters does not give.              *)
Covered == Reserved \subseteq granted \cup lost \cup UNION {Held(r) : r \in Replicas}

(* A step of replica r that reserves the IDs N and forgets neither them    *)
(* nor one that r held.                                                    *)
Keeps(r, N) ==
    /\ Reserved' \subseteq Reserved \cup N
    /\ Held(r) \cup N \subseteq Held(r)' \cup granted' \cup lost'
    /\ granted \subseteq granted' /\ lost \subseteq lost'
    /\ \A q \in Replicas \ {r} : Held(q)' = Held(q)

LEMMA KeepsCovers ==
    ASSUME Covered, NEW r \in Replicas, NEW N, Keeps(r, N)
    PROVE  Covered'
<1> SUFFICES ASSUME NEW i \in Reserved'
             PROVE  i \in granted' \cup lost' \cup UNION {Held(q)' : q \in Replicas}
  BY DEF Covered
<1>1. CASE i \in N \cup Held(r)
  BY <1>1 DEF Keeps
<1>2. CASE i \in granted \cup lost
  BY <1>2 DEF Keeps
<1>3. CASE \E q \in Replicas \ {r} : i \in Held(q)
  BY <1>3 DEF Keeps
<1>4. QED
  BY <1>1, <1>2, <1>3 DEF Keeps, Covered

(* Serving from sb and keeping bg, when these have all the IDs the replica *)
(* holds and all it has reserved.                                          *)
LEMMA ServeKeeps ==
    ASSUME TypeOK, NEW r \in Replicas, loaded[r] # None,
           NEW sb \in SuperBlock, NEW bg \in SuperBlock, NEW pending \in BOOLEAN,
           Serve(r, sb, bg, pending), lost' = lost,
           NEW N, Held(r) \cup N \subseteq IdsOf(sb) \cup IdsOf(bg),
           Reserved' \subseteq Reserved \cup N
    PROVE  Keeps(r, N)
<1>1. PICK G \in SUBSET IdsOf(sb) : Serves(r, sb, bg, G)
  BY ServeMoves
<1>2. Held(r)' = (IdsOf(sb) \ G) \cup IdsOf(bg)
  BY <1>1 DEF Held, Serves
<1>3. granted' = granted \cup G
  BY <1>1 DEF Serves
<1>4. \A q \in Replicas \ {r} : Held(q)' = Held(q)
  BY <1>1 DEF Serves, Held, IdsOf
<1>5. QED
  BY <1>2, <1>3, <1>4 DEF Keeps

LEMMA CoveredStep ==
    ASSUME StoreKind = "datastore", OneLayout, AllocatorInv, WholeBlocks,
           NEW r \in Replicas, ReplicaStep(r)
    PROVE  \E N : Keeps(r, N)
<1> DEFINE c == loaded[r]
           b == bucket[r]
           A == IdsOf(active[r])
           B == IdsOf(background[r])
           F == IdsOf(fetched[r])
           M == IdsOf(Reservation(c, b))
<1>1. /\ TypeOK /\ CoherentAt(r) /\ WholeAt(r)
      /\ \A x \in Buckets : counter[x] <= IdSpan
  BY DEF AllocatorInv, Coherent, BelowCounters, WholeBlocks
<1>2. /\ active[r] \in SuperBlock /\ background[r] \in SuperBlock
      /\ fetched[r] \in SuperBlock /\ Harvested(r) \in SuperBlock
      /\ (fetch[r] = "running") \in BOOLEAN
  BY <1>1 DEF TypeOK, Harvested
<1>3. EmptyBlock \in SuperBlock /\ IdsOf(EmptyBlock) = {}
  BY EmptyWhole
<1>4. c # None => c.block_size \in Nat \ {0}
  BY <1>1, ConfigAssumption DEF TypeOK, Valid
<1>5. ASSUME c # None
      PROVE  /\ is_empty(background[r]) => B = {}
             /\ fetch[r] # "ready" => F = {}
             /\ ~CanServe(r, active[r]) => A = {}
  <2>1. /\ Whole(active[r], c.block_size) /\ Whole(background[r], c.block_size)
        /\ fetch[r] # "ready" => fetched[r] = EmptyBlock
    BY <1>1, <1>5 DEF WholeAt, CoherentAt
  <2>2. QED
    BY <1>2, <1>3, <1>4, <1>5, <2>1, UsedUp DEF CanServe
<1>6. c # None => B \cup F \subseteq IdsOf(Harvested(r))
  BY <1>1, <1>5 DEF Harvested, CoherentAt
<1>7. UNCHANGED counter => Reserved' = Reserved
  BY DEF Reserved
<1>8. ASSUME UNCHANGED <<active, background, fetched, granted, lost, counter>>
      PROVE  Keeps(r, {})
  BY <1>7, <1>8 DEF Keeps, Held, IdsOf
<1>9. CASE CarveActive(r)
  <2>1. /\ Serve(r, active[r], Harvested(r), fetch[r] = "running")
        /\ c # None /\ UNCHANGED <<counter, lost>>
    BY <1>9 DEF CarveActive, CanCall, storeVars
  <2>2. Held(r) \cup {} \subseteq A \cup IdsOf(Harvested(r))
        /\ Reserved' \subseteq Reserved \cup {}
    BY <1>6, <1>7, <2>1 DEF Held
  <2>3. Keeps(r, {})
    BY <1>1, <1>2, <2>1, <2>2, ServeKeeps
  <2>4. QED
    BY <2>3
<1>10. CASE PromoteBackground(r)
  <2>1. /\ Serve(r, Harvested(r), EmptyBlock, fetch[r] = "running")
        /\ c # None /\ UNCHANGED <<counter, lost>> /\ ~CanServe(r, active[r])
    BY <1>10 DEF PromoteBackground, CanCall, storeVars
  <2>2. Held(r) \cup {} \subseteq IdsOf(Harvested(r)) \cup IdsOf(EmptyBlock)
        /\ Reserved' \subseteq Reserved \cup {}
    BY <1>5, <1>6, <1>7, <2>1 DEF Held
  <2>3. Keeps(r, {})
    BY <1>1, <1>2, <1>3, <2>1, <2>2, ServeKeeps
  <2>4. QED
    BY <2>3
<1>11. CASE AwaitFailedPrefetch(r) \/ StartSyncFetch(r)
  BY <1>8, <1>11 DEF AwaitFailedPrefetch, StartSyncFetch, ReplyError, storeVars
<1>12. ASSUME fetch[r] \in {"running", "sync"}
       PROVE  /\ c \in Configs /\ c # None /\ b \in Buckets
              /\ B = {} /\ F = {}
              /\ HasRoom(c, b) /\ Bump(c, b) => Reserved' = Reserved \cup M
  <2>1. /\ c \in Configs /\ c # None /\ b \in Buckets
        /\ is_empty(background[r]) /\ fetch[r] # "ready"
    BY <1>1, <1>12, ConfigAssumption DEF TypeOK, CoherentAt, Buckets, Valid
  <2>2. HasRoom(c, b) /\ Bump(c, b) => Reserved' = Reserved \cup M
    BY <1>1, <2>1, ReservationFresh
  <2>3. QED
    BY <1>5, <2>1, <2>2
<1>13. ASSUME fetch[r] \in {"running", "sync"}, AllocateError(c, b),
              UNCHANGED <<active, background, fetched, granted>>
       PROVE  \E N : Keeps(r, N)
  <2>1. CASE UNCHANGED <<counter, lost>>
    BY <1>8, <1>13, <2>1
  <2>2. CASE HasRoom(c, b) /\ Bump(c, b) /\ lost' = lost \cup M
    <3>1. Reserved' = Reserved \cup M
      BY <1>12, <1>13, <2>2
    <3> HIDE DEF M
    <3>2. \A q \in Replicas : Held(q)' = Held(q)
      BY <1>13 DEF Held, IdsOf
    <3>3. Keeps(r, M)
      BY <1>13, <2>2, <3>1, <3>2 DEF Keeps
    <3>4. QED
      BY <3>3
  <2>3. QED
    BY <1>13, <2>1, <2>2 DEF AllocateError
<1>14. CASE FinishSyncFetch(r)
  <2>1. fetch[r] = "sync"
    BY <1>14 DEF FinishSyncFetch
  <2>2. CASE AllocateError(c, b) /\ ReplyError(r)
    BY <1>13, <2>1, <2>2 DEF ReplyError
  <2>3. CASE AllocateOk(c, b) /\ Serve(r, Reservation(c, b), EmptyBlock, FALSE)
    <3>1. lost' = lost /\ Reserved' = Reserved \cup M
      BY <1>12, <2>1, <2>3 DEF AllocateOk
    <3>2. A = {} /\ B = {} /\ F = {} /\ c # None
      BY <1>1, <1>5, <1>12, <2>1 DEF WholeAt
    <3>3. Reservation(c, b) \in SuperBlock
      BY <1>1, <1>12, <2>1, ReservationShape
    <3>4. Held(r) \cup M \subseteq M \cup IdsOf(EmptyBlock)
      BY <3>2 DEF Held
    <3>5. Keeps(r, M)
      BY <1>1, <1>3, <2>3, <3>1, <3>2, <3>3, <3>4, ServeKeeps
    <3>6. QED
      BY <3>5
  <2>4. QED
    BY <1>14, <2>2, <2>3 DEF FinishSyncFetch
<1>15. CASE FinishPrefetch(r)
  <2>1. fetch[r] = "running" /\ UNCHANGED <<active, background, granted>>
    BY <1>15 DEF FinishPrefetch
  <2>2. CASE AllocateError(c, b) /\ UNCHANGED fetched
    BY <1>13, <2>1, <2>2
  <2>3. CASE AllocateOk(c, b) /\ fetched' = [fetched EXCEPT ![r] = Reservation(c, b)]
    <3>1. lost' = lost /\ Reserved' = Reserved \cup M
      BY <1>12, <2>1, <2>3 DEF AllocateOk
    <3>2. fetched'[r] = Reservation(c, b)
          /\ \A q \in Replicas \ {r} : fetched'[q] = fetched[q]
      BY <1>1, <2>3 DEF TypeOK
    <3>3. Held(r)' = A \cup B \cup M
          /\ \A q \in Replicas \ {r} : Held(q)' = Held(q)
      BY <2>1, <3>2 DEF Held, IdsOf
    <3>4. F = {}
      BY <1>12, <2>1
    <3> HIDE DEF M
    <3>5. Keeps(r, M)
      BY <2>1, <3>1, <3>3, <3>4 DEF Keeps, Held
    <3>6. QED
      BY <3>5
  <2>4. QED
    BY <1>15, <2>2, <2>3 DEF FinishPrefetch
<1>16. CASE (\E d \in Configs : CreatePartition(r, d)) \/ DeletePartition(r)
  BY <1>8, <1>16 DEF CreatePartition, SavePartition, DeletePartition,
                     RemovePartition, historyVars
<1>17. ASSUME Drop(r)
       PROVE  granted' = granted /\ \A q \in Replicas \ {r} : Held(q)' = Held(q)
  BY <1>1, <1>17 DEF Drop, TypeOK, Held, IdsOf
<1>18. ASSUME Drop(r), UNCHANGED counter, lost' = lost \cup Held(r)
       PROVE  Keeps(r, {})
  BY <1>7, <1>17, <1>18 DEF Keeps
<1>19. CASE ErasePartition(r)
  BY <1>18, <1>19 DEF ErasePartition, storeVars
<1>20. CASE Restart(r)
  <2>1. CASE /\ fetch[r] \in {"running", "sync"} /\ HasRoom(c, b)
             /\ lost' = lost \cup Held(r) \cup M /\ Bump(c, b) /\ Drop(r)
    <3>1. Reserved' = Reserved \cup M
      BY <1>12, <2>1
    <3> HIDE DEF M
    <3>2. Keeps(r, M)
      BY <1>17, <2>1, <3>1 DEF Keeps
    <3>3. QED
      BY <3>2
  <2>2. CASE Drop(r) /\ UNCHANGED counter /\ lost' = lost \cup Held(r)
    BY <1>18, <2>2
  <2>3. QED
    BY <1>20, <2>1, <2>2 DEF Restart
<1>21. QED
  BY <1>9, <1>10, <1>11, <1>14, <1>15, <1>16, <1>19, <1>20 DEF ReplicaStep

(* No replica silently drops an ID, on any number of replicas over the     *)
(* Datastore: every ID the store reserved was returned, is held, or was    *)
(* lost to a crash, a deletion or a lost answer.  The blocks promoted over *)
(* an active super block find it used up to the last ID.                   *)
THEOREM NothingIsDropped ==
    ASSUME StoreKind = "datastore", OneLayout, Configs # {}
    PROVE  Spec => []Conservation
<1> DEFINE I == AllocatorInv /\ RangesFit /\ WholeBlocks /\ Covered
<1>1. Init => I
  <2> SUFFICES ASSUME Init
               PROVE  I
    OBVIOUS
  <2>1. AllocatorInv /\ RangesFit
    BY AllocatorInit
  <2>2. WholeBlocks
    BY DEF Init, WholeBlocks, WholeAt
  <2>3. IdSpan \in Nat
    BY ConfigAssumption DEF IdSpan, Valid
  <2>4. \A x \in Buckets : (x * IdSpan) .. (x * IdSpan + counter[x] - 1) = {}
    <3> SUFFICES ASSUME NEW x \in Buckets
                 PROVE  (x * IdSpan) .. (x * IdSpan + counter[x] - 1) = {}
      OBVIOUS
    <3>1. counter[x] = 0
      BY DEF Init
    <3>2. x * IdSpan \in Nat
      BY <2>3 DEF Buckets
    <3> DEFINE s == x * IdSpan
    <3> HIDE DEF s
    <3>3. s .. (s + 0 - 1) = {}
      BY <3>2 DEF s
    <3>4. QED
      BY <3>1, <3>3 DEF s
  <2>5. Reserved = {}
    BY <2>4 DEF Reserved
  <2>6. QED
    BY <2>1, <2>2, <2>5 DEF Covered
<1>2. I /\ [Next]_vars => I'
  <2> SUFFICES ASSUME I, [Next]_vars
               PROVE  I'
    OBVIOUS
  <2>1. AllocatorInv' /\ RangesFit'
    BY AllocatorStep
  <2>2. WholeBlocks'
    BY WholeStep DEF AllocatorInv
  <2>3. Covered'
    <3>1. CASE UNCHANGED vars
      BY <3>1 DEF Covered, Reserved, Held, IdsOf, vars, storeVars, replicaVars,
                  historyVars
    <3>2. ASSUME NEW r \in Replicas, ReplicaStep(r)
          PROVE  Covered'
      BY <3>2, CoveredStep, KeepsCovers
    <3>3. QED
      BY <3>1, <3>2 DEF Next
  <2>4. QED
    BY <2>1, <2>2, <2>3
<1>3. I => Conservation
  BY DEF Conservation, Covered, AllocatorInv, BelowCounters
<1>4. QED
  BY <1>1, <1>2, <1>3, PTL DEF Spec
=============================================================================
