------------------------ MODULE MCTransactionManager ------------------------
(* Instances of TransactionManager for TLC.                                *)
EXTENDS TransactionManager, TLC

CONSTANTS i1, i2, h1, h2

MCOneInstance == {i1}
MCTwoInstances == {i1, i2}
MCThreads == {h1, h2}

(* Two threads of one service process, or of two.                          *)
MCSameHome == [h \in MCThreads |-> i1]
MCApart == [h \in MCThreads |-> IF h = h1 THEN i1 ELSE i2]

TxnSymmetry == Permutations(Txns)
PayloadSymmetry == Permutations(Payloads)
(* Two processes with a thread each change places.                         *)
Swap == (i1 :> i2) @@ (i2 :> i1) @@ (h1 :> h2) @@ (h2 :> h1)
ApartSymmetry == Permutations(Txns) \cup {Swap}
BothSymmetry == Permutations(MCThreads) \cup Permutations(Txns)
=============================================================================
