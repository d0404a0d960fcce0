---------------------------- MODULE BlockServer ----------------------------
(***************************************************************************)
(* What the ID allocator promises to its clients: every AllocateBlock call *)
(* that succeeds returns a block of IDs none of which was ever returned    *)
(* before, and an ID once returned stays spent (id-allocator/PRD.md:18-20).*)
(*                                                                         *)
(* SuperBlockAllocator.tla is shown to implement this specification, and   *)
(* BlockDoubleBuffer.tla (the client) is built on top of it.               *)
(***************************************************************************)
EXTENDS Naturals

CONSTANT Ids  \* the IDs of the partition

VARIABLES
    granted,  \* the IDs returned so far by successful AllocateBlock calls
    grants    \* how many such calls there were

blockVars == <<granted, grants>>

BlockInit ==
    /\ granted = {}
    /\ grants = 0

(* One successful AllocateBlock: the IDs S of the block are all fresh.     *)
Grant(S) ==
    /\ S # {}
    /\ S \cap granted = {}
    /\ granted' = granted \cup S
    /\ grants' = grants + 1

(* A block is a range of IDs.                                              *)
BlockNext == \E lo, hi \in Ids : Grant(lo .. hi)

BlockSpec == BlockInit /\ [][BlockNext]_blockVars
=============================================================================
