---------------------- MODULE BlockDoubleBufferProofs ----------------------
(***************************************************************************)
(* Proofs about BlockDoubleBuffer, for every set of clients, every block   *)
(* size, high-water mark and number of retries.                            *)
(***************************************************************************)
EXTENDS BlockDoubleBuffer, TLAPS

-----------------------------------------------------------------------------
(* Types.                                                                  *)

(* A block of the server is a block, and its IDs are those of the range.   *)
LEMMA BlockAtShape ==
    ASSUME NEW n \in Ids
    PROVE  /\ BlockAt(n) \in Block
           /\ IdsOf(BlockAt(n)) = n .. n + BlockSize - 1
           /\ n .. n + BlockSize - 1 \subseteq Nat
BY ClientAssumption DEF BlockAt, Block, IdsOf

LEMMA EmptyShape == Empty \in Block /\ IdsOf(Empty) = {} /\ ~has_id(Empty)
BY DEF Empty, Block, IdsOf, has_id

(* A block has an ID to hand out exactly when it has IDs.                  *)
LEMMA NoIdsLeft ==
    ASSUME NEW blk \in Block
    PROVE  /\ ~has_id(blk) => IdsOf(blk) = {}
           /\ has_id(blk) => blk.start \in IdsOf(blk)
BY DEF Block, IdsOf, has_id

(* Taking the first ID of a block leaves the block without it.             *)
LEMMA RestShape ==
    ASSUME NEW blk \in Block, has_id(blk)
    PROVE  /\ [blk EXCEPT !.start = @ + 1] \in Block
           /\ IdsOf([blk EXCEPT !.start = @ + 1]) = IdsOf(blk) \ {blk.start}
           /\ blk.start \in Nat
<1> DEFINE rest == [blk EXCEPT !.start = @ + 1]
<1>1. rest \in Block /\ rest.start = blk.start + 1 /\ rest.end = blk.end
  BY DEF Block
<1>2. blk.start \in Nat /\ blk.end \in Nat
  BY DEF Block
<1>3. (blk.start + 1) .. (blk.end - 1) = (blk.start .. blk.end - 1) \ {blk.start}
  BY <1>2
<1>4. QED
  BY <1>1, <1>2, <1>3 DEF IdsOf

(* What the server grants keeps its variables well typed.                  *)
LEMMA GrantTypes ==
    ASSUME TypeOK, NEW n \in Ids, Server!Grant(n .. n + BlockSize - 1)
    PROVE  granted' \subseteq Nat /\ grants' \in Nat
<1>1. n .. n + BlockSize - 1 \subseteq Nat
  BY BlockAtShape
<1>2. ASSUME NEW S \in SUBSET Nat, granted' = granted \cup S
      PROVE  granted' \subseteq Nat
  BY <1>2 DEF TypeOK
<1>3. QED
  BY <1>1, <1>2 DEF TypeOK, Server!Grant

LEMMA TypesInit == Init => TypeOK
BY ClientAssumption, EmptyShape DEF Init, TypeOK, Server!BlockInit, Workers, Phases

(* One step per operation of a client.                                     *)
LEMMA TypesStep == TypeOK /\ [Next]_vars => TypeOK'
<1> SUFFICES ASSUME TypeOK, [Next]_vars
             PROVE  TypeOK'
  OBVIOUS
<1> USE DEF TypeOK, serverVars
<1>1. ASSUME NEW c \in Clients, Initialize(c)
      PROVE  TypeOK'
  BY <1>1 DEF Initialize, Workers
<1>2. ASSUME NEW c \in Clients, allocate_id(c)
      PROVE  TypeOK'
  <2>1. ASSUME NEW f \in Block, NEW b \in Block, Take(c, f, b)
        PROVE  TypeOK'
    <3>1. worker' \in [Clients -> Workers]
      BY <2>1 DEF Take, maybe_prefetch, Workers
    <3>2. QED
      BY <1>2, <2>1, <3>1, RestShape DEF Take, allocate_id
  <2>2. QED
    BY <1>2, <2>1, EmptyShape DEF allocate_id
<1>3. ASSUME NEW c \in Clients, FetchOk(c)
      PROVE  TypeOK'
  <2>1. PICK n \in Ids : Server!Grant(n .. n + BlockSize - 1) /\ Deliver(c, n)
    BY <1>3 DEF FetchOk
  <2>2. front' \in [Clients -> Block] /\ back' \in [Clients -> Block]
    BY <2>1, BlockAtShape DEF Deliver
  <2>3. phase' \in [Clients -> Phases]
    BY <2>1 DEF Deliver, Phases
  <2>4. lost' \subseteq Nat
    <3>1. lost' = lost \/ lost' = lost \cup IdsOf(BlockAt(n))
      BY <2>1 DEF Deliver
    <3>2. IdsOf(BlockAt(n)) \subseteq Nat
      BY BlockAtShape
    <3>3. QED
      BY <3>1, <3>2
  <2>5. FetchDone(c) /\ UNCHANGED used
    BY <1>3 DEF FetchOk
  <2>6. worker' \in [Clients -> Workers] /\ attempt' \in [Clients -> 0 .. max_retries]
    BY <2>5, ClientAssumption DEF FetchDone, Workers
  <2>7. QED
    BY <2>1, <2>2, <2>3, <2>4, <2>5, <2>6, GrantTypes
<1>4. ASSUME NEW c \in Clients, FetchFails(c)
      PROVE  TypeOK'
  <2>1. lost' \subseteq Nat /\ granted' \subseteq Nat /\ grants' \in Nat
    <3>1. CASE UNCHANGED <<serverVars, lost>>
      BY <3>1
    <3>2. CASE ~UNCHANGED <<serverVars, lost>>
      <4>1. PICK n \in Ids : /\ Server!Grant(n .. n + BlockSize - 1)
                             /\ lost' = lost \cup (n .. n + BlockSize - 1)
        BY <1>4, <3>2 DEF FetchFails
      <4>2. n .. n + BlockSize - 1 \subseteq Nat
        BY BlockAtShape
      <4>3. QED
        BY <4>1, <4>2, GrantTypes
    <3>3. QED
      BY <3>1, <3>2
  <2>2. attempt' \in [Clients -> 0 .. max_retries] /\ worker' \in [Clients -> Workers]
    BY <1>4, ClientAssumption DEF FetchFails, FetchDone, Workers
  <2>3. phase' \in [Clients -> Phases]
    BY <1>4 DEF FetchFails, Phases
  <2>4. QED
    BY <1>4, <2>1, <2>2, <2>3 DEF FetchFails
<1>5. ASSUME NEW c \in Clients, CloseBegin(c)
      PROVE  TypeOK'
  <2>1. IdsOf(front[c]) \subseteq Nat /\ IdsOf(back[c]) \subseteq Nat
    BY DEF IdsOf, Block
  <2>2. QED
    BY <1>5, <2>1, EmptyShape DEF CloseBegin, Phases
<1>6. ASSUME NEW c \in Clients, CloseEnd(c)
      PROVE  TypeOK'
  BY <1>6 DEF CloseEnd, Phases
<1>7. CASE UNCHANGED vars
  BY <1>7 DEF vars, clientVars
<1>8. QED
  BY <1>1, <1>2, <1>3, <1>4, <1>5, <1>6, <1>7 DEF Next, ClientStep

(* Type correctness of the client: blocks are ranges of IDs, and the       *)
(* attempts counted by fetch_block() never exceed max_retries.             *)
THEOREM Types == Spec => []TypeOK
BY TypesInit, TypesStep, PTL DEF Spec

-----------------------------------------------------------------------------
(* A prefetch is only in flight while the back block is empty.             *)

LEMMA BackIsFreeInit == Init => BackIsFree
BY DEF Init, BackIsFree

LEMMA BackIsFreeStep == TypeOK /\ BackIsFree /\ [Next]_vars => BackIsFree'
<1> SUFFICES ASSUME TypeOK, BackIsFree, [Next]_vars
             PROVE  BackIsFree'
  OBVIOUS
<1> USE DEF TypeOK, BackIsFree
<1>1. ASSUME NEW c \in Clients, Initialize(c)
      PROVE  BackIsFree'
  BY <1>1 DEF Initialize, has_id
<1>2. ASSUME NEW c \in Clients, allocate_id(c)
      PROVE  BackIsFree'
  <2>1. ASSUME NEW f, NEW b, Take(c, f, b), worker[c] = "prefetch" => ~has_id(b)
        PROVE  BackIsFree'
    BY <2>1 DEF Take, maybe_prefetch, has_id
  <2>2. QED
    BY <1>2, <2>1, EmptyShape DEF allocate_id
<1>3. ASSUME NEW c \in Clients, FetchOk(c)
      PROVE  BackIsFree'
  <2>1. \A d \in Clients \ {c} : back'[d] = back[d] /\ worker'[d] = worker[d]
    BY <1>3 DEF FetchOk, Deliver, FetchDone
  <2>2. worker'[c] = "none"
    BY <1>3 DEF FetchOk, FetchDone
  <2>3. QED
    BY <2>1, <2>2 DEF has_id
<1>4. ASSUME NEW c \in Clients, FetchFails(c)
      PROVE  BackIsFree'
  <2>1. \A d \in Clients : worker'[d] \in {worker[d], "none"}
    BY <1>4 DEF FetchFails, FetchDone
  <2>2. back' = back
    BY <1>4 DEF FetchFails
  <2>3. QED
    BY <2>1, <2>2 DEF has_id
<1>5. ASSUME NEW c \in Clients, CloseBegin(c)
      PROVE  BackIsFree'
  BY <1>5, EmptyShape DEF CloseBegin, has_id
<1>6. ASSUME NEW c \in Clients, CloseEnd(c)
      PROVE  BackIsFree'
  BY <1>6 DEF CloseEnd, has_id
<1>7. CASE UNCHANGED vars
  BY <1>7 DEF vars, clientVars, has_id
<1>8. QED
  BY <1>1, <1>2, <1>3, <1>4, <1>5, <1>6, <1>7 DEF Next, ClientStep

-----------------------------------------------------------------------------
(* Where the IDs are.                                                      *)

(* Every granted ID is somewhere.                                          *)
Placed == granted = used \cup lost \cup UNION {Buffered(c) : c \in Clients}

(* A step of client c that only moves the IDs of its own buffer and the    *)
(* fresh IDs S, if any: into its buffer, to the application, or away.      *)
Moves(c, S) ==
    LET mine  == Buffered(c) \cup S
        taken == used' \ used
        gone  == lost' \ lost
    IN  /\ S \cap granted = {}
        /\ granted' = granted \cup S
        /\ \A d \in Clients \ {c} : Buffered(d)' = Buffered(d)
        /\ \A d \in Clients \ {c} : (IdsOf(front[d]) \cap IdsOf(back[d]))'
                                      = IdsOf(front[d]) \cap IdsOf(back[d])
        /\ used \subseteq used' /\ lost \subseteq lost'
        /\ Buffered(c)' \cup taken \cup gone = mine
        /\ (IdsOf(front[c]) \cap IdsOf(back[c]))' = {}
        /\ Buffered(c)' \cap (taken \cup gone) = {}
        /\ taken \cap gone = {}

(* Such a step keeps the IDs apart and forgets none.                       *)
LEMMA MovesKeep ==
    ASSUME NEW c \in Clients, NEW S, NoSharedIds, Placed, Moves(c, S)
    PROVE  NoSharedIds' /\ Placed'
<1> USE DEF Moves
<1>1. \A d \in Clients : Buffered(d) \subseteq granted
  BY DEF Placed
<1>2. used \subseteq granted /\ lost \subseteq granted
  BY DEF Placed
<1>3. Placed'
  <2>1. granted' \subseteq used' \cup lost' \cup UNION {Buffered(d)' : d \in Clients}
    <3> SUFFICES ASSUME NEW i \in granted \cup S
                 PROVE  i \in used' \cup lost' \cup UNION {Buffered(d)' : d \in Clients}
      OBVIOUS
    <3>1. CASE i \in S \cup Buffered(c)
      BY <3>1
    <3>2. CASE i \in used \cup lost
      BY <3>2
    <3>3. CASE \E d \in Clients \ {c} : i \in Buffered(d)
      BY <3>3
    <3>4. QED
      BY <3>1, <3>2, <3>3 DEF Placed
  <2>2. used' \cup lost' \cup UNION {Buffered(d)' : d \in Clients} \subseteq granted'
    <3>1. used' \subseteq granted' /\ lost' \subseteq granted'
      BY <1>1, <1>2
    <3>2. \A d \in Clients : Buffered(d)' \subseteq granted'
      BY <1>1
    <3>3. QED
      BY <3>1, <3>2
  <2>3. QED
    BY <2>1, <2>2 DEF Placed
<1>4. NoSharedIds'
  <2>1. \A d \in Clients : (IdsOf(front[d]) \cap IdsOf(back[d]))' = {}
    BY DEF NoSharedIds
  <2>2. \A d \in Clients : Buffered(d)' \cap (used' \cup lost') = {}
    <3> SUFFICES ASSUME NEW d \in Clients, NEW i \in Buffered(d)',
                        i \in used' \cup lost'
                 PROVE  FALSE
      OBVIOUS
    <3>1. CASE d = c
      BY <1>2, <3>1 DEF NoSharedIds
    <3>2. CASE d # c
      <4>1. i \in Buffered(d) /\ i \in granted
        BY <1>1, <3>2
      <4>2. i \notin Buffered(c) \cup S
        BY <3>2, <4>1 DEF NoSharedIds
      <4>3. QED
        BY <4>1, <4>2 DEF NoSharedIds
    <3>3. QED
      BY <3>1, <3>2
  <2>3. \A d, e \in Clients : d # e => Buffered(d)' \cap Buffered(e)' = {}
    <3>1. ASSUME NEW d \in Clients \ {c} PROVE Buffered(c)' \cap Buffered(d)' = {}
      BY <1>1 DEF NoSharedIds
    <3>2. QED
      BY <3>1 DEF NoSharedIds
  <2>4. used' \cap lost' = {}
    BY <1>2 DEF NoSharedIds
  <2>5. QED
    BY <2>1, <2>2, <2>3, <2>4 DEF NoSharedIds
<1>5. QED
  BY <1>3, <1>4

(* Every operation of a client is such a step: allocate_id() moves the     *)
(* first ID of its buffer to the application, close() loses the buffer,    *)
(* and an attempt to fetch moves what the server granted into the empty    *)
(* block it was fetched for, or loses it.                                  *)
LEMMA StepMoves ==
    ASSUME TypeOK, NoSharedIds, Placed, NEW c \in Clients, ClientStep(c)
    PROVE  \E S : Moves(c, S)
<1> DEFINE F == IdsOf(front[c])
           B == IdsOf(back[c])
<1>a. /\ front \in [Clients -> Block] /\ back \in [Clients -> Block]
      /\ worker[c] \in Workers
  BY DEF TypeOK
<1>b. F \cap B = {} /\ (F \cup B) \cap (used \cup lost) = {} /\ used \cap lost = {}
  BY DEF NoSharedIds, Buffered
<1>c. F \cup B \subseteq granted /\ used \cup lost \subseteq granted
  BY DEF Placed, Buffered
<1>d. ASSUME NEW S, S \cap granted = {}, granted' = granted \cup S,
             \A d \in Clients \ {c} : front'[d] = front[d] /\ back'[d] = back[d],
             used \subseteq used', lost \subseteq lost',
             IdsOf(front'[c]) \cup IdsOf(back'[c]) \cup (used' \ used) \cup (lost' \ lost)
                = F \cup B \cup S,
             IdsOf(front'[c]) \cap IdsOf(back'[c]) = {},
             (IdsOf(front'[c]) \cup IdsOf(back'[c]))
                \cap ((used' \ used) \cup (lost' \ lost)) = {},
             (used' \ used) \cap (lost' \ lost) = {}
      PROVE  Moves(c, S)
  <2>1. \A d \in Clients \ {c} :
            IdsOf(front[d])' = IdsOf(front[d]) /\ IdsOf(back[d])' = IdsOf(back[d])
    BY <1>d DEF IdsOf
  <2>2. /\ IdsOf(front[c])' = IdsOf(front'[c])
        /\ IdsOf(back[c])' = IdsOf(back'[c])
    BY DEF IdsOf
  <2>3. QED
    BY <1>d, <2>1, <2>2 DEF Moves, Buffered
<1>1. CASE Initialize(c) \/ CloseEnd(c)
  <2>1. UNCHANGED <<granted, front, back, used, lost>>
    BY <1>1 DEF Initialize, CloseEnd, serverVars
  <2>2. Moves(c, {})
    BY <1>d, <1>b, <2>1
  <2>3. QED
    BY <2>2
<1>2. CASE allocate_id(c)
  <2>1. ASSUME NEW f \in Block, NEW b \in Block, Take(c, f, b),
               IdsOf(f) \cup IdsOf(b) = F \cup B, IdsOf(f) \cap IdsOf(b) = {}
        PROVE  Moves(c, {})
    <3> DEFINE rest == [f EXCEPT !.start = @ + 1]
    <3>1. has_id(f) /\ front' = [front EXCEPT ![c] = rest]
          /\ back' = [back EXCEPT ![c] = b] /\ used' = used \cup {f.start}
      BY <2>1 DEF Take
    <3>2. IdsOf(rest) = IdsOf(f) \ {f.start} /\ f.start \in IdsOf(f)
      BY <3>1, RestShape, NoIdsLeft
    <3>3. UNCHANGED <<granted, lost>>
      BY <1>2 DEF allocate_id, serverVars
    <3> HIDE DEF rest
    <3>4. front'[c] = rest /\ back'[c] = b
          /\ \A d \in Clients \ {c} : front'[d] = front[d] /\ back'[d] = back[d]
      BY <1>a, <3>1
    <3>5. used' \ used = {f.start}
      BY <1>b, <2>1, <3>1, <3>2
    <3>6. QED
      BY <1>d, <2>1, <3>1, <3>2, <3>3, <3>4, <3>5
  <2>2. CASE Take(c, front[c], back[c])
    BY <1>a, <1>b, <2>1, <2>2
  <2>3. CASE ~has_id(front[c]) /\ Take(c, back[c], Empty)
    <3>1. F = {} /\ IdsOf(Empty) = {} /\ Empty \in Block
      BY <1>a, <2>3, NoIdsLeft, EmptyShape
    <3>2. QED
      BY <1>a, <2>1, <2>3, <3>1
  <2>4. QED
    BY <1>2, <2>2, <2>3 DEF allocate_id
<1>3. CASE FetchOk(c)
  <2>1. PICK n \in Ids : Server!Grant(n .. n + BlockSize - 1) /\ Deliver(c, n)
    BY <1>3 DEF FetchOk
  <2> DEFINE S == IdsOf(BlockAt(n))
  <2>2. S \cap granted = {} /\ granted' = granted \cup S
    BY <2>1, BlockAtShape DEF Server!Grant
  <2>3. used' = used
    BY <1>3 DEF FetchOk
  <2>4. worker[c] = "initialize" \/ worker[c] = "prefetch"
    BY <1>3, <1>a DEF FetchOk, Workers
  <2>5. \A d \in Clients \ {c} : front'[d] = front[d] /\ back'[d] = back[d]
    BY <1>a, <2>1 DEF Deliver
  <2>6. \/ /\ IdsOf(front'[c]) = S /\ F = {}
           /\ IdsOf(back'[c]) = B /\ lost' = lost
        \/ /\ IdsOf(front'[c]) = F
           /\ IdsOf(back'[c]) = S /\ B = {} /\ lost' = lost
        \/ /\ IdsOf(front'[c]) = F
           /\ IdsOf(back'[c]) = B /\ lost' = lost \cup S
    BY <1>a, <2>1, <2>4, NoIdsLeft DEF Deliver
  <2> HIDE DEF S, F, B
  <2>7. Moves(c, S)
    <3>1. lost' \ lost = {} \/ lost' \ lost = S
      BY <1>c, <2>2, <2>6
    <3>2. QED
      BY <1>b, <1>c, <1>d, <2>2, <2>3, <2>5, <2>6, <3>1
  <2>8. QED
    BY <2>7
<1>4. CASE FetchFails(c)
  <2>1. UNCHANGED <<front, back, used>>
    BY <1>4 DEF FetchFails
  <2>2. CASE UNCHANGED <<serverVars, lost>>
    <3>1. Moves(c, {})
      BY <1>b, <1>d, <2>1, <2>2 DEF serverVars
    <3>2. QED
      BY <3>1
  <2>3. CASE ~UNCHANGED <<serverVars, lost>>
    <3>1. PICK n \in Ids : /\ Server!Grant(n .. n + BlockSize - 1)
                           /\ lost' = lost \cup (n .. n + BlockSize - 1)
      BY <1>4, <2>3 DEF FetchFails
    <3> DEFINE S == n .. n + BlockSize - 1
    <3>2. S \cap granted = {} /\ granted' = granted \cup S /\ lost' = lost \cup S
      BY <3>1 DEF Server!Grant
    <3> HIDE DEF S
    <3>3. lost' \ lost = S
      BY <1>c, <3>2
    <3>4. Moves(c, S)
      BY <1>b, <1>c, <1>d, <2>1, <3>2, <3>3
    <3>5. QED
      BY <3>4
  <2>4. QED
    BY <2>2, <2>3
<1>5. CASE CloseBegin(c)
  <2>1. /\ UNCHANGED <<granted, used>>
        /\ lost' = lost \cup F \cup B
        /\ front' = [front EXCEPT ![c] = Empty]
        /\ back' = [back EXCEPT ![c] = Empty]
    BY <1>5 DEF CloseBegin, serverVars
  <2>2. IdsOf(front'[c]) = {} /\ IdsOf(back'[c]) = {}
        /\ \A d \in Clients \ {c} : front'[d] = front[d] /\ back'[d] = back[d]
    BY <1>a, <2>1, EmptyShape
  <2>3. lost' \ lost = F \cup B
    BY <1>b, <2>1
  <2>4. Moves(c, {})
    BY <1>d, <2>1, <2>2, <2>3
  <2>5. QED
    BY <2>4
<1>6. QED
  BY <1>1, <1>2, <1>3, <1>4, <1>5 DEF ClientStep

LEMMA PlacesInit == Init => NoSharedIds /\ Placed
<1> SUFFICES ASSUME Init
             PROVE  NoSharedIds /\ Placed
  OBVIOUS
<1>1. \A c \in Clients : IdsOf(front[c]) = {} /\ IdsOf(back[c]) = {}
  BY EmptyShape DEF Init
<1>2. used = {} /\ lost = {} /\ granted = {}
  BY DEF Init, Server!BlockInit
<1>3. QED
  BY <1>1, <1>2 DEF NoSharedIds, Placed, Buffered

LEMMA PlacesStep ==
    TypeOK /\ NoSharedIds /\ Placed /\ [Next]_vars => NoSharedIds' /\ Placed'
<1> SUFFICES ASSUME TypeOK, NoSharedIds, Placed, [Next]_vars
             PROVE  NoSharedIds' /\ Placed'
  OBVIOUS
<1>1. CASE Next
  BY <1>1, StepMoves, MovesKeep DEF Next
<1>2. CASE UNCHANGED vars
  <2>1. UNCHANGED <<granted, front, back, used, lost>>
    BY <1>2 DEF vars, clientVars, serverVars
  <2>2. QED
    BY <2>1 DEF NoSharedIds, Placed, Buffered, IdsOf
<1>3. QED
  BY <1>1, <1>2

(* No ID is ever in two places: whatever is lost on the way, retried,      *)
(* prefetched or dropped by close(), an ID that a client is about to hand  *)
(* out is in no other buffer and was never handed out before.              *)
THEOREM IdsHaveOneHolder == Spec => []NoSharedIds
<1>1. Init => NoSharedIds /\ Placed
  BY PlacesInit
<1>2. TypeOK /\ NoSharedIds /\ Placed /\ [Next]_vars => NoSharedIds' /\ Placed'
  BY PlacesStep
<1>3. QED
  BY <1>1, <1>2, Types, PTL DEF Spec

(* No ID is forgotten: every granted ID was handed out, is in a buffer or  *)
(* is accounted for as lost, and a prefetched block always finds the back  *)
(* block empty.                                                            *)
THEOREM IdsAreAccounted == Spec => []Accounted
<1>1. Init => NoSharedIds /\ Placed /\ BackIsFree
  BY PlacesInit, BackIsFreeInit
<1>2. TypeOK /\ NoSharedIds /\ Placed /\ BackIsFree /\ [Next]_vars
        => NoSharedIds' /\ Placed' /\ BackIsFree'
  BY PlacesStep, BackIsFreeStep
<1>3. Placed /\ BackIsFree => Accounted
  BY DEF Placed, Accounted
<1>4. QED
  BY <1>1, <1>2, <1>3, Types, PTL DEF Spec
=============================================================================
