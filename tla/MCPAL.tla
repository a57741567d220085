------------------------------- MODULE MCPAL -------------------------------
(* An instance of PAL: one array x of two elements, borrowed as a whole,   *)
(* by a constant index or by a dynamic one.                                *)
EXTENDS PAL, TLC

CONSTANTS x

At(kind, name) == [root |-> x, proj |-> <<[kind |-> kind, name |-> name]>>]
ArrayPaths == {[root |-> x, proj |-> <<>>], At("dynamic", x)}
                \cup {At("constant", i) : i \in Indices}
WholeOnly == {[root |-> x, proj |-> <<>>]}
Elements == Permutations(Indices)
=============================================================================
