----------------------------- MODULE MCCrudTests -----------------------------
(* An instance of CrudTests: the ring is 1, 2, ..., 7; the first key is held  *)
(* by 2, 3 and 4, the second by 6, 7 and 1, and the third does not exist.     *)
EXTENDS CrudTests

SevenHashes == <<10, 20, 30, 40, 50, 60, 70>>
ThreeKeys == <<15, 55, 35>>
===============================================================================
