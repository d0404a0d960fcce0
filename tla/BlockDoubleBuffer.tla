------------------------- MODULE BlockDoubleBuffer -------------------------
(***************************************************************************)
(* The ID allocator's client library: IdAllocatorClient with its           *)
(* BlockDoubleBuffer and the retrying fetch_block(), several clients over  *)
(* one BlockServer (what SuperBlockAllocator implements).                  *)
(*                                                                         *)
(* A block of IDs is the range start .. end-1.  allocate_id() holds the    *)
(* buffer's mutex and is one action; the prefetch worker waits for the     *)
(* server without it, one action per RPC attempt, since an attempt's       *)
(* answer may be lost after the server granted the block.  close() resets  *)
(* the buffer under the mutex and then joins the worker, and until it      *)
(* returns other threads still find the client initialized.                *)
(***************************************************************************)
EXTENDS Naturals

CONSTANTS
    Clients,
    Ids,             \* bound: the IDs the server has to grant, 0 .. n
    BlockSize,       \* IDs in a block
    high_water_mark,
    max_retries

ASSUME ClientAssumption ==
    /\ BlockSize \in Nat \ {0}
    /\ high_water_mark \in Nat \ {0}
    /\ max_retries \in Nat
    /\ Ids \subseteq Nat

VARIABLES
    granted, grants,  \* the server, see BlockServer
    front, back,      \* per client: the two blocks
    worker,           \* per client: who is inside fetch_block(), see Workers
    attempt,          \* per client: failed attempts of that fetch_block()
    phase,            \* per client: see Phases
    used,             \* the IDs allocate_id() returned to applications
    lost              \* granted IDs that no client can return any more

serverVars == <<granted, grants>>
clientVars == <<front, back, worker, attempt, phase>>
vars == <<serverVars, clientVars, used, lost>>

Server == INSTANCE BlockServer

(* "new": initialized_ is false.  "closing": close() has reset the buffer  *)
(* and not returned.  "crashed": the worker used the stub close() freed.   *)
Phases == {"new", "ready", "closing", "crashed"}

(* Nobody, initialize(), or the prefetch worker.  fetch_in_progress_ is    *)
(* worker = "prefetch", except that close() clears it.                     *)
Workers == {"none", "initialize", "prefetch"}

Block == [start : Nat, end : Nat]
Empty == [start |-> 0, end |-> 0]

has_id(blk)    == blk.start < blk.end
remaining(blk) == blk.end - blk.start
IdsOf(blk)     == blk.start .. blk.end - 1
BlockAt(n)     == [start |-> n, end |-> n + BlockSize]

TypeOK ==
    /\ front \in [Clients -> Block]
    /\ back \in [Clients -> Block]
    /\ worker \in [Clients -> Workers]
    /\ attempt \in [Clients -> 0 .. max_retries]
    /\ phase \in [Clients -> Phases]
    /\ granted \subseteq Nat /\ grants \in Nat
    /\ used \subseteq Nat /\ lost \subseteq Nat

Init ==
    /\ Server!BlockInit
    /\ front = [c \in Clients |-> Empty]
    /\ back = [c \in Clients |-> Empty]
    /\ worker = [c \in Clients |-> "none"]
    /\ attempt = [c \in Clients |-> 0]
    /\ phase = [c \in Clients |-> "new"]
    /\ used = {}
    /\ lost = {}

-----------------------------------------------------------------------------
(* IdAllocatorClient::initialize(): connect, then fetch the first block.   *)
Initialize(c) ==
    /\ phase[c] = "new"
    /\ worker[c] = "none"
    /\ worker' = [worker EXCEPT ![c] = "initialize"]
    /\ UNCHANGED <<serverVars, front, back, attempt, phase, used, lost>>

(* Mutants: prefetch without looking at the back block; only at the mark   *)
(* itself instead of at or below it.                                       *)
PrefetchAlways(c, f, b) ==
    IF /\ remaining(f) <= high_water_mark
       /\ worker[c] # "prefetch"
       /\ phase[c] = "ready"
    THEN worker' = [worker EXCEPT ![c] = "prefetch"]
    ELSE UNCHANGED worker

PrefetchAtMark(c, f, b) ==
    IF /\ remaining(f) = high_water_mark
       /\ worker[c] # "prefetch"
       /\ ~has_id(b)
       /\ phase[c] = "ready"
    THEN worker' = [worker EXCEPT ![c] = "prefetch"]
    ELSE UNCHANGED worker

(* maybe_prefetch_locked(), after an ID was taken and front became f, back *)
(* became b.  While close() is running the client is not connected and a   *)
(* new worker's fetch_block() throws at once.                              *)
maybe_prefetch(c, f, b) ==
    IF /\ remaining(f) <= high_water_mark
       /\ worker[c] # "prefetch"
       /\ ~has_id(b)
       /\ phase[c] = "ready"
    THEN worker' = [worker EXCEPT ![c] = "prefetch"]
    ELSE UNCHANGED worker

(* Mutant: the swap copies the back block and does not empty it.           *)
TakeWithoutReset(c, f, b) ==
    LET rest == [f EXCEPT !.start = @ + 1]
    IN  /\ has_id(f)
        /\ front' = [front EXCEPT ![c] = rest]
        /\ used' = used \cup {f.start}
        /\ maybe_prefetch(c, rest, b)
        /\ UNCHANGED back

(* Take the first ID of block f.                                           *)
Take(c, f, b) ==
    LET rest == [f EXCEPT !.start = @ + 1]
    IN  /\ has_id(f)
        /\ front' = [front EXCEPT ![c] = rest]
        /\ back' = [back EXCEPT ![c] = b]
        /\ used' = used \cup {f.start}
        /\ maybe_prefetch(c, rest, b)

(* allocate_id(): from the front block, or from the back one after a swap. *)
(* "ID pool depleted" is thrown before anything changes.                   *)
allocate_id(c) ==
    /\ phase[c] \in {"ready", "closing"}
    /\ \/ Take(c, front[c], back[c])
       \/ ~has_id(front[c]) /\ Take(c, back[c], Empty)
    /\ UNCHANGED <<serverVars, attempt, phase, lost>>

(* fetch_block() returns range [n, n + BlockSize): fill the front block    *)
(* and finish initialize(), or fill the back block.  fill() throws if the  *)
(* block still has IDs, and the fetched range is dropped.                  *)
Deliver(c, n) ==
    LET target == IF worker[c] = "initialize" THEN front[c] ELSE back[c]
        full   == has_id(target)
    IN  /\ front' = IF worker[c] = "initialize" /\ ~full
                    THEN [front EXCEPT ![c] = BlockAt(n)] ELSE front
        /\ back' = IF worker[c] = "prefetch" /\ ~full
                   THEN [back EXCEPT ![c] = BlockAt(n)] ELSE back
        /\ phase' = IF worker[c] = "initialize" /\ ~full
                    THEN [phase EXCEPT ![c] = "ready"] ELSE phase
        /\ lost' = IF full THEN lost \cup IdsOf(BlockAt(n)) ELSE lost

FetchDone(c) ==
    /\ worker' = [worker EXCEPT ![c] = "none"]
    /\ attempt' = [attempt EXCEPT ![c] = 0]

(* One attempt succeeds.                                                   *)
FetchOk(c) ==
    /\ worker[c] # "none"
    /\ \E n \in Ids :
        /\ \A i \in n .. n + BlockSize - 1 : i \in Ids
        /\ Server!Grant(n .. n + BlockSize - 1)
        /\ Deliver(c, n)
    /\ FetchDone(c)
    /\ UNCHANGED used

(* Mutant: an attempt that fails does not count.                           *)
FetchFailsUncounted(c) ==
    /\ worker[c] # "none"
    /\ IF attempt[c] = max_retries
       THEN FetchDone(c)
       ELSE UNCHANGED <<worker, attempt>>
    /\ UNCHANGED <<serverVars, front, back, phase, used, lost>>

(* One attempt fails, before or after the server granted the block: retry, *)
(* or give up after max_retries (initialize() and the worker then leave    *)
(* the buffer as it was).  A retry while close() is running calls through  *)
(* the stub that close() has reset, and the process dies.                  *)
FetchFails(c) ==
    /\ worker[c] # "none"
    /\ \/ UNCHANGED <<serverVars, lost>>
       \/ \E n \in Ids :
            /\ \A i \in n .. n + BlockSize - 1 : i \in Ids
            /\ Server!Grant(n .. n + BlockSize - 1)
            /\ lost' = lost \cup (n .. n + BlockSize - 1)
    /\ IF attempt[c] = max_retries \/ phase[c] = "closing"
       THEN FetchDone(c)
       ELSE attempt' = [attempt EXCEPT ![c] = @ + 1] /\ UNCHANGED worker
    /\ phase' = IF phase[c] = "closing" /\ attempt[c] < max_retries
                THEN [phase EXCEPT ![c] = "crashed"]
                ELSE phase
    /\ UNCHANGED <<front, back, used>>

(* close(), up to the join: the stub is freed, both blocks are reset.      *)
CloseBegin(c) ==
    /\ phase[c] = "ready"
    /\ phase' = [phase EXCEPT ![c] = "closing"]
    /\ lost' = lost \cup IdsOf(front[c]) \cup IdsOf(back[c])
    /\ front' = [front EXCEPT ![c] = Empty]
    /\ back' = [back EXCEPT ![c] = Empty]
    /\ UNCHANGED <<serverVars, worker, attempt, used>>

(* The worker has been joined; initialized_ = false.                       *)
CloseEnd(c) ==
    /\ phase[c] = "closing"
    /\ worker[c] = "none"
    /\ phase' = [phase EXCEPT ![c] = "new"]
    /\ UNCHANGED <<serverVars, front, back, worker, attempt, used, lost>>

ClientStep(c) ==
    \/ Initialize(c)
    \/ allocate_id(c)
    \/ FetchOk(c)
    \/ FetchFails(c)
    \/ CloseBegin(c)
    \/ CloseEnd(c)

Next == \E c \in Clients : ClientStep(c)

(* The worker's RPC attempts end (gRPC answers or reports an error), the   *)
(* thread in close() goes on once the worker is joined, and the            *)
(* application keeps asking for IDs.                                       *)
Fairness ==
    \A c \in Clients :
        /\ WF_vars(FetchOk(c) \/ FetchFails(c))
        /\ WF_vars(CloseEnd(c))
        /\ WF_vars(allocate_id(c))

Spec == Init /\ [][Next]_vars /\ Fairness

-----------------------------------------------------------------------------
(* Correctness.                                                            *)

Buffered(c) == IdsOf(front[c]) \cup IdsOf(back[c])

(* No ID is in two places: a client about to hand out an ID from its       *)
(* buffer is the only one to have it, and nobody handed it out before.     *)
NoSharedIds ==
    /\ \A c \in Clients :
        /\ IdsOf(front[c]) \cap IdsOf(back[c]) = {}
        /\ Buffered(c) \cap (used \cup lost) = {}
        /\ \A d \in Clients \ {c} : Buffered(c) \cap Buffered(d) = {}
    /\ used \cap lost = {}

(* Every granted ID was handed out, is in a buffer, or was lost with an    *)
(* answer, in close(), or by a fill() that threw; and a prefetch is only   *)
(* in flight while the back block is empty, so that its fill() does not    *)
(* throw: the double buffer itself loses no IDs.                           *)
BackIsFree == \A c \in Clients : worker[c] = "prefetch" => ~has_id(back[c])

Accounted ==
    /\ granted = used \cup lost \cup UNION {Buffered(c) : c \in Clients}
    /\ BackIsFree

(* Every fetch ends, and so does close(), which joins the worker.          *)
Settles ==
    \A c \in Clients :
        (worker[c] # "none" \/ phase[c] = "closing")
            ~> (worker[c] = "none" /\ phase[c] # "closing")

(* "a subsequent allocate_id call will re-trigger the prefetch if the      *)
(* front remains at or below the high-water mark"                          *)
(* (id-allocator-client/lib/block_double_buffer.js:67-69): a prefetch that *)
(* failed is started again as long as there is an ID left to take.  Once   *)
(* the front block is used up, allocate_id() throws before it gets there.  *)
Retriggers ==
    \A c \in Clients :
        (/\ phase[c] = "ready"
         /\ worker[c] = "none"
         /\ has_id(front[c]) /\ remaining(front[c]) <= high_water_mark
         /\ ~has_id(back[c]))
            ~> (worker[c] = "prefetch" \/ phase[c] # "ready")
=============================================================================
