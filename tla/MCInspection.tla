---------------------------- MODULE MCInspection ----------------------------
\* What the names of symbols are called makes no difference.
EXTENDS Inspection, TLC

Symmetry == Permutations(Names)
=============================================================================
