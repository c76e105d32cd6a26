-------------------------- MODULE MCAuthProtocol ---------------------------
(* Instances of AuthProtocol for TLC.                                       *)
EXTENDS AuthProtocol, TLC

Symmetry == Permutations(Polite) \cup Permutations(Clients \ Polite) \cup Permutations(Addresses)
            \cup Permutations(Names) \cup Permutations(Workers)
=============================================================================
