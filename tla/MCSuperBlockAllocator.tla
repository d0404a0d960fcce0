----------------------- MODULE MCSuperBlockAllocator -----------------------
(* Instances of SuperBlockAllocator for TLC.                               *)
EXTENDS SuperBlockAllocator, TLC

(* Two configurations with one ID layout: two buckets of four IDs, carved  *)
(* one by one from super blocks of two, and the two buckets again with     *)
(* super blocks of four and blocks of two.                                 *)
MCOneLayout ==
    {[num_buckets |-> 2, bucket_size |-> 4, super_block_size |-> 2, block_size |-> 1],
     [num_buckets |-> 2, bucket_size |-> 4, super_block_size |-> 4, block_size |-> 2]}

(* One bucket, or two, for the MemoryStore.                                *)
MCSingle ==
    {[num_buckets |-> 1, bucket_size |-> 8, super_block_size |-> 4, block_size |-> 1],
     [num_buckets |-> 2, bucket_size |-> 8, super_block_size |-> 2, block_size |-> 1]}

ReplicaSymmetry == Permutations(Replicas)
=============================================================================
