--------------------------- MODULE MCIndexBuilds ---------------------------
(* IndexBuilds for TLC: a few databases and clients as model values.       *)
EXTENDS IndexBuilds, TLC

DbSymmetry == Permutations(Dbs)
=============================================================================
