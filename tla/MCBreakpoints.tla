--------------------------- MODULE MCBreakpoints ---------------------------
(* Instances of Breakpoints for TLC. *)
EXTENDS Breakpoints, TLC

CONSTANTS t1, t2, f1, f2

Symmetry == Permutations({t1, t2} \cap Tokens) \cup Permutations({f1, f2} \cap Paths)
=============================================================================
