------------------------------ MODULE MCKVStore ------------------------------
(* Instances of KVStore: the positions of nodes and keys on the ring.  The    *)
(* turns go by node id, so an instance chooses how the order of the ring and  *)
(* the order of the turns relate: the ring is 2, 1, 4, 3 (and 5), and the key *)
(* is held by 1, 4 and 3.                                                     *)
EXTENDS KVStore

FourHashes == <<20, 10, 40, 30>>
FiveHashes == <<20, 10, 40, 30, 50>>
OneKey == <<15>>
===============================================================================
