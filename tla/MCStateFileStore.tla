--------------------------- MODULE MCStateFileStore ---------------------------
(* StateFileStore on small sets.                                             *)
EXTENDS StateFileStore, TLC
=============================================================================
