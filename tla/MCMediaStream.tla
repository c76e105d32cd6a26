--------------------------- MODULE MCMediaStream ---------------------------
(* Instances of MediaStream for TLC.                                        *)
EXTENDS MediaStream, TLC

Symmetry == Permutations(Sessions) \cup Permutations(Workers)

(* What safety depends on: no guard reads the interrupt flags, which only   *)
(* fairness does, or wire, which is a record of what was sent.              *)
Visible ==
    <<connected, removed, table, frame, closing,
      [s \in Sessions |-> [ses[s] EXCEPT !.interrupt = FALSE]]>>
=============================================================================
