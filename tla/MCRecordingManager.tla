----------------------- MODULE MCRecordingManager --------------------------
(* Instances of RecordingManager for TLC.                                   *)
EXTENDS RecordingManager, TLC

Symmetry == Permutations(Keys) \cup Permutations(Jobs) \cup Permutations(Callers)
=============================================================================
