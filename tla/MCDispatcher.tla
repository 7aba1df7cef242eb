---------------------------- MODULE MCDispatcher ----------------------------
(* Instances of Dispatcher for TLC. *)
EXTENDS Dispatcher, TLC

CONSTANTS s1, s2

SenderSymmetry == Permutations({s1, s2} \cap Senders)
=============================================================================
