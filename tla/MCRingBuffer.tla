--------------------------- MODULE MCRingBuffer ----------------------------
(* Instances of RingBuffer for TLC.                                         *)
EXTENDS RingBuffer, TLC

Symmetry == Permutations(Consumers)
=============================================================================
