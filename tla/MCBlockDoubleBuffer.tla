------------------------ MODULE MCBlockDoubleBuffer ------------------------
(* Instances of BlockDoubleBuffer for TLC.                                 *)
EXTENDS BlockDoubleBuffer

(* Four blocks of two IDs for two clients: an initial block each, a        *)
(* prefetched one and a lost one.                                          *)
MCEightIds == 0 .. 7
=============================================================================
