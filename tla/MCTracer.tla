------------------------------ MODULE MCTracer ------------------------------
(* Instances of Tracer for TLC. *)
EXTENDS Tracer, TLC

CONSTANTS w1, w2, n1, n2

Symmetry == Permutations({w1, w2} \cap Windows) \cup Permutations({n1, n2} \cap Names)

\* Picked is SelectSeq, by places.
ASSUME PickedSelects ==
    \A s \in UNION {[1..n -> 1..3] : n \in 0..4} : \A e \in 1..3 :
        Picked(s, {i \in DOMAIN s : s[i] # e}) = SelectSeq(s, LAMBDA x : x # e)

=============================================================================
