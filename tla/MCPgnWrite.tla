----------------------------- MODULE MCPgnWrite -----------------------------
(* PgnWrite for TLC: a file, its paths and pages as model values.          *)
EXTENDS PgnWrite, TLC

CONSTANTS c1, c2, e1, e2

(* All pages open the file under one path, or one under a second too.      *)
OnePath == [c \in Clients |-> {e1}]
TwoPaths == [c \in Clients |-> IF c = c1 THEN {e1} ELSE {e1, e2}]

TextSymmetry == Permutations(Texts)
PageSymmetry == TextSymmetry \union Permutations(Clients)
=============================================================================
